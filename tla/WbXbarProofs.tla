----------------------------- MODULE WbXbarProofs -----------------------------
(***************************************************************************)
(* Proofs about WbXbar, for any number of masters and slaves, any depth of *)
(* the count, any slaves that may err and any length of the masters' work: *)
(*   - a slave has one master, that master knows it, and both give the     *)
(*     connection up in the same clock (GrantsAlwaysAgree);                *)
(*   - every answer reaches the master that asked, in the order of its     *)
(*     requests, and every error is for the request it is given for        *)
(*     (AnswersAreTheMasters).                                             *)
(* The first is inductive with the types.  The second needs more (XbarInv):*)
(* what is asked and not answered is spread over the answer on its way, the*)
(* slave, its register, the decoder and the skid buffer, in this order, and*)
(* the count says how much of it has left the crossbar.                    *)
(***************************************************************************)
EXTENDS WbXbar, FiniteSetTheorems, WellFoundedInduction, SequenceTheorems, TLAPS

(* With the types, GrantsAgree needs one more fact to be inductive: a count *)
(* is not both full and empty.                                              *)
Flags == [pending : Int, nearfull : BOOLEAN, full : BOOLEAN, empty : BOOLEAN]

RegTypes ==
    /\ grant \in [Masters -> 0 .. Nobody] /\ sgrant \in [Slaves -> BOOLEAN]
    /\ sindex \in [Slaves -> Masters] /\ count \in [Masters -> Flags]

GrantInv ==
    /\ RegTypes
    /\ GrantsAgree
    /\ \A m \in Masters : ~(count[m].full /\ count[m].empty)

\* A set of numbers that is not empty has a least element
LEMMA LeastElement ==
    ASSUME NEW S, S \subseteq Nat, S # {}
    PROVE  \E n \in S : \A m \in S : n <= m
<1> DEFINE below == {1 .. n : n \in S}
<1>1. below \subseteq FiniteSubsetsOf(Nat) /\ below # {}
  <2>1. \A n \in S : IsFiniteSet(1 .. n) /\ 1 .. n \subseteq Nat
    BY FS_Interval
  <2> QED BY <2>1 DEF FiniteSubsetsOf
<1>2. PICK low \in below : \A b \in below : ~(<<b, low>> \in StrictSubsetOrdering(Nat))
    BY <1>1, FS_StrictSubsetOrderingWellFounded, WFMin
<1>3. PICK n \in S : low = 1 .. n
    OBVIOUS
<1>4. ASSUME NEW m \in S, m < n
      PROVE  FALSE
  <2>1. 1 .. m \in below
    OBVIOUS
  <2>2. 1 .. m \in SUBSET Nat /\ low \in SUBSET Nat /\ 1 .. m \subseteq low /\ 1 .. m # low
    BY <1>3, <1>4
  <2>3. <<1 .. m, low>> \in StrictSubsetOrdering(Nat)
    BY <2>2 DEF StrictSubsetOrdering
  <2> QED BY <1>2, <2>1, <2>3
<1> QED BY <1>4

\* The numbers of masters, slaves and nobody do not meet 0
LEMMA Numbers ==
    /\ Masters \subseteq Nat \ {0} /\ Slaves \subseteq Nat \ {0}
    /\ Nobody \in Nat \ {0} /\ Nobody \notin Slaves
    /\ Slaves \subseteq 1 .. Nobody /\ 1 .. Nobody = Slaves \union {Nobody}
BY XbarAssumption DEF Masters, Slaves, Nobody

-----------------------------------------------------------------------------
(* A slave's connection changes hands to one master at most.               *)

\* A connected slave stays with its master while that has it
LEMMA OwnerKeeps ==
    ASSUME GrantInv, NEW s \in Slaves, sgrant[s],
           NEW l \in Masters, regrant(l, s)
    PROVE  l = sindex[s]
BY DEF GrantInv, GrantsAgree, regrant

\* Two masters do not get a free slave in one clock
LEMMA OneWinner ==
    ASSUME GrantInv, NEW s \in Slaves, ~sgrant[s],
           NEW l \in Masters, NEW m \in Masters, regrant(l, s), regrant(m, s)
    PROVE  l = m
<1>1. \A k \in Masters : grant[k] # s
    BY Numbers DEF GrantInv, GrantsAgree
<1>2. ASSUME NEW j \in Masters, NEW k \in Masters, j < k, regrant(j, s), regrant(k, s)
      PROVE  FALSE
  <2>1. ~requested(k, s)
    BY <1>1, <1>2 DEF regrant
  <2>2. j \in 1 .. k - 1
    BY <1>2, Numbers DEF Masters
  <2>3. request(j) = s /\ (~mgrant(j) \/ count[j].empty)
    BY <1>2 DEF regrant, GrantInv, RegTypes, Flags
  <2> QED BY <2>1, <2>2, <2>3 DEF requested
<1> QED BY <1>2, Numbers

\* sindex is the master that gets the connection
LEMMA SindexIs ==
    ASSUME GrantInv, NEW s \in Slaves
    PROVE  /\ Sindex(s) \in Masters
           /\ \A m \in Masters : regrant(m, s) => Sindex(s) = m
           /\ sgrant[s] => Sindex(s) = sindex[s]
<1> DEFINE new == {m \in Masters : regrant(m, s)}
<1>1. sindex[s] \in Masters
    BY DEF GrantInv, RegTypes
<1>2. CASE new = {}
  <2>1. Sindex(s) = sindex[s]
    BY <1>2 DEF Sindex
  <2> QED BY <1>1, <1>2, <2>1
<1>3. CASE new # {}
  <2>1. Sindex(s) = CHOOSE m \in new : TRUE
    BY <1>3 DEF Sindex
  <2>2. Sindex(s) \in new
    BY <1>3, <2>1
  <2>3. \A m \in new : m = Sindex(s)
    BY <2>2, OneWinner, OwnerKeeps
  <2> QED BY <2>2, <2>3, OwnerKeeps
<1> QED BY <1>2, <1>3

-----------------------------------------------------------------------------
(* A clock, by the slave's side and the master's.                          *)

\* A slave that is connected and not let go keeps its master
LEMMA KeptGrant ==
    ASSUME GrantInv, NEW i \in Inputs, NEW s \in Slaves, sgrant[s], Sgrant(i, s)
    PROVE  Grant(i, sindex[s]) = s
<1> DEFINE m == sindex[s]
<1>1. m \in Masters /\ grant[m] = s /\ s # 0
    BY Numbers DEF GrantInv, RegTypes, GrantsAgree
<1>2. ~Off(i, m) /\ ~(request(m) # s /\ m_stb(m) /\ count[m].empty)
    BY DEF Sgrant, Off
<1>3. CASE stay_on_channel(m)
    BY <1>1, <1>2, <1>3 DEF Grant
<1>4. CASE ~stay_on_channel(m)
  <2>1. count[m].empty /\ ~count[m].full /\ ~(request(m) # 0 /\ request(m) = s)
    BY <1>1, <1>4 DEF stay_on_channel, mgrant, GrantInv, RegTypes, Flags
  <2>2. ~m_stb(m)
    BY <1>1, <1>2, <2>1
  <2>3. request(m) = 0
    BY <2>1, <2>2 DEF m_stb, request
  <2>4. ~channel_is_available(m)
    BY <2>3, Numbers DEF channel_is_available
  <2> QED BY <1>1, <1>2, <1>4, <2>2, <2>4 DEF Grant
<1> QED BY <1>3, <1>4

\* A slave that becomes connected goes to the first of those who ask
LEMMA NewGrant ==
    ASSUME GrantInv, NEW i \in Inputs, NEW s \in Slaves, ~sgrant[s], Sgrant(i, s)
    PROVE  Grant(i, Sindex(s)) = s
<1> DEFINE asking == {l \in Masters : request(l) = s /\ (~mgrant(l) \/ count[l].empty)}
<1>1. ~i.reset /\ asking # {}
    BY DEF Sgrant
<1>2. PICK l \in asking : \A k \in asking : l <= k
    BY <1>1, LeastElement, Numbers
<1>3. \A k \in Masters : grant[k] # s
    BY DEF GrantInv, GrantsAgree
<1>4. ~requested(l, s)
  <2>1. SUFFICES ASSUME NEW k \in 1 .. l - 1,
                        request(k) = s, grant[k] = s \/ ~mgrant(k) \/ count[k].empty
                 PROVE  FALSE
    BY DEF requested
  <2>2. k \in Masters /\ k < l
    BY Numbers, XbarAssumption DEF Masters
  <2> QED BY <1>2, <1>3, <2>1, <2>2, Numbers
<1>5. regrant(l, s)
    BY <1>2, <1>4 DEF regrant
<1>6. Sindex(s) = l
    BY <1>5, SindexIs
<1>7. mcyc[l] /\ ~Off(i, l)
    BY <1>1, <1>2, Numbers DEF request, Off
<1>8. ~stay_on_channel(l)
    BY <1>2, <1>3 DEF stay_on_channel
<1>9. channel_is_available(l) /\ request(l) = s
    BY <1>2, <1>4 DEF channel_is_available
<1> QED BY <1>6, <1>7, <1>8, <1>9 DEF Grant

\* A master that is connected after a clock is known to the slave
LEMMA MasterIsKnown ==
    ASSUME GrantInv, NEW i \in Inputs, NEW m \in Masters, NEW s \in Slaves, Grant(i, m) = s
    PROVE  Sgrant(i, s) /\ Sindex(s) = m /\ Mindex(m) = s
<1>1. ~Off(i, m) /\ s # 0 /\ s \in 1 .. Nobody /\ s # Nobody
    BY Numbers DEF Grant
<1>2. ~i.reset /\ mcyc[m]
    BY <1>1 DEF Off
<1>3. \A t \in 1 .. Nobody : regrant(m, t) =>
          request(m) = t /\ t # 0 /\ ~(mgrant(m) /\ ~count[m].empty)
    BY Numbers DEF regrant
<1>4. CASE grant[m] = s
  <2>1. sgrant[s] /\ sindex[s] = m /\ mindex[m] = s /\ mgrant(m)
    BY <1>1, <1>4 DEF GrantInv, GrantsAgree, mgrant
  <2>2. request(m) # s => ~(m_stb(m) /\ count[m].empty)
    <3>1. SUFFICES ASSUME request(m) # s, m_stb(m), count[m].empty
                   PROVE  FALSE
        OBVIOUS
    <3>2. ~stay_on_channel(m)
        BY <1>1, <1>4, <3>1 DEF stay_on_channel
    <3>3. Grant(i, m) # s
        BY <1>1, <3>1, <3>2 DEF Grant
    <3> QED BY <3>3
  <2>3. Sgrant(i, s)
    BY <1>2, <2>1, <2>2 DEF Sgrant
  <2>4. Sindex(s) = m
    BY <2>1, SindexIs
  <2>5. Mindex(m) = s
    <3>1. ASSUME NEW t \in 1 .. Nobody, regrant(m, t), t # s
          PROVE  FALSE
      <4>1. request(m) = t /\ t # 0 /\ count[m].empty /\ ~count[m].full
        BY <1>3, <2>1, <3>1 DEF GrantInv, RegTypes, Flags
      <4>2. m_stb(m)
        BY <1>2, <4>1 DEF m_stb, request
      <4> QED BY <2>2, <3>1, <4>1, <4>2
    <3> QED BY <1>3, <2>1, <3>1 DEF Mindex
  <2> QED BY <2>3, <2>4, <2>5
<1>5. CASE grant[m] # s
  <2>1. ~stay_on_channel(m) /\ channel_is_available(m) /\ request(m) = s
    BY <1>1, <1>5 DEF Grant
  <2>2. ~sgrant[s] /\ ~requested(m, s) /\ ~(mgrant(m) /\ ~count[m].empty)
    BY <1>1, <2>1 DEF channel_is_available, stay_on_channel
  <2>3. regrant(m, s)
    BY <2>1, <2>2 DEF regrant
  <2>4. Sindex(s) = m
    BY <2>3, SindexIs
  <2>5. Mindex(m) = s
    BY <1>1, <2>1, <2>3 DEF Mindex
  <2>6. ~mgrant(m) \/ count[m].empty
    BY <2>2 DEF mgrant, GrantInv, RegTypes, Flags
  <2>7. Sgrant(i, s)
    BY <1>2, <2>1, <2>2, <2>6 DEF Sgrant
  <2> QED BY <2>4, <2>5, <2>7
<1> QED BY <1>4, <1>5

-----------------------------------------------------------------------------
(* The invariant.                                                          *)

\* Nothing is connected at first
LEMMA InitGrants == XbarInit => GrantInv
BY Numbers, XbarAssumption DEF XbarInit, GrantInv, RegTypes, GrantsAgree, Flags, Empty

\* A clock keeps the types of the registers of a connection
LEMMA ClockTypes ==
    ASSUME GrantInv, NEW i \in Inputs, XbarClock(i)
    PROVE  RegTypes' /\ \A m \in Masters : ~(count[m].full /\ count[m].empty)'
<1> USE DEF XbarClock, Xbar
<1>1. \A m \in Masters : Grant(i, m) \in 0 .. Nobody
    BY Numbers DEF GrantInv, RegTypes, Grant, channel_is_available
<1>2. \A s \in Slaves : Sgrant(i, s) \in BOOLEAN
    BY DEF Sgrant
<1>3. \A s \in Slaves : Sindex(s) \in Masters
    BY SindexIs
<1>4. \A m \in Masters : Pending(i, m) \in Flags /\ ~(Pending(i, m).full /\ Pending(i, m).empty)
  <2>1. TAKE m \in Masters
  <2>2. count[m] \in Flags /\ ~(count[m].full /\ count[m].empty)
    BY DEF GrantInv, RegTypes
  <2> QED BY <2>2, XbarAssumption DEF Pending, Flags, Empty
<1> QED BY <1>1, <1>2, <1>3, <1>4 DEF RegTypes

\* A clock keeps the two sides in agreement
LEMMA ClockGrants ==
    ASSUME GrantInv, NEW i \in Inputs, XbarClock(i)
    PROVE  GrantInv'
<1> USE DEF XbarClock, Xbar
<1>1. ASSUME NEW m \in Masters, grant'[m] \in Slaves
      PROVE  sgrant'[grant'[m]] /\ sindex'[grant'[m]] = m /\ mindex'[m] = grant'[m]
  <2>1. grant'[m] = Grant(i, m)
    OBVIOUS
  <2> QED BY <1>1, <2>1, MasterIsKnown
<1>2. ASSUME NEW s \in Slaves, sgrant'[s]
      PROVE  grant'[sindex'[s]] = s
  <2>1. Sgrant(i, s) /\ sindex'[s] = Sindex(s) /\ Sindex(s) \in Masters
    BY <1>2, SindexIs
  <2>2. Grant(i, Sindex(s)) = s
    BY <2>1, KeptGrant, NewGrant, SindexIs
  <2> QED BY <2>1, <2>2
<1>3. GrantsAgree'
    BY <1>1, <1>2 DEF GrantsAgree
<1> QED BY <1>3, ClockTypes DEF GrantInv

(* A slave has one master at a time, that master holds it and no other, and *)
(* the index each side multiplexes by is the other's number: the registers  *)
(* mgrant, mindex, sgrant and sindex of wbxbar.v, which different always    *)
(* blocks set from different conditions, never come apart.  It is the first *)
(* part of AnswersReachTheirMaster.                                         *)
THEOREM GrantsAlwaysAgree == XbarSpec => []GrantsAgree
<1>1. GrantInv /\ [XbarNext]_xbarVars => GrantInv'
  <2>1. SUFFICES ASSUME GrantInv, [XbarNext]_xbarVars PROVE GrantInv'
    OBVIOUS
  <2>2. CASE XbarNext
    BY <2>1, <2>2, ClockGrants DEF XbarNext
  <2>3. CASE UNCHANGED xbarVars
    BY <2>1, <2>3 DEF xbarVars, xbarRegs, GrantInv, RegTypes, GrantsAgree
  <2> QED BY <2>1, <2>2, <2>3
<1>2. GrantInv => GrantsAgree
    BY DEF GrantInv
<1> QED BY InitGrants, <1>1, <1>2, PTL DEF XbarSpec

-----------------------------------------------------------------------------
(* The invariant of the answers.                                           *)

Request == [m : Masters, s : 1 .. Nobody, n : Nat]
Register == {q \in Seq(Request) : Len(q) <= 1}
Live(m) == mcyc[m] /\ ~ans[m].err

\* The types of the other registers
BusTypes ==
    /\ skid \in [Masters -> Register] /\ dcd \in [Masters -> Register]
    /\ mout \in [Masters -> Register] /\ out \in [Slaves -> Register]
    /\ owed \in [Masters -> Seq(Request)] /\ got \in [Slaves -> Seq(Request)]
    /\ ans \in [Masters -> [ack : BOOLEAN, err : BOOLEAN, of : Register]]
    /\ \A m \in Masters : ans[m].ack => ans[m].of # <<>>
    /\ mindex \in [Masters -> 1 .. Nobody] /\ issued \in [Masters -> Nat]
    /\ mcyc \in [Masters -> BOOLEAN] /\ scyc \in [Slaves -> BOOLEAN]

\* A register holds requests of its own master
Own(m) == \A q \in {skid[m], dcd[m], mout[m]} : q # <<>> => q[1].m = m

\* The count's flags are its own
FlagsAreTrue(m) ==
    /\ count[m].pending \in 0 .. MaxPending
    /\ count[m].full <=> count[m].pending = MaxPending
    /\ count[m].empty <=> count[m].pending = 0
    /\ count[m].nearfull <=> count[m].pending >= MaxPending - 1

\* What a slave has is its own and its master's, and gone when it is let go
SlaveInv(s) ==
    /\ ~scyc[s] => out[s] = <<>>
    /\ scyc[s] /\ ~sgrant[s] => got[s] = <<>> /\ out[s] = <<>>
    /\ scyc[s] => \A q \in {got[s], out[s]} :
                    \A k \in 1 .. Len(q) : q[k].s = s /\ q[k].m = sindex[s]

\* More than can be counted is asked of one slave only
OneSlave(q) == Len(q) > MaxPending => \A j, k \in 1 .. Len(q) : q[j].s = q[k].s

\* A cycle in which there was no error: all that is owed is on its way, the
\* count is what has gone to the slave and not come back, and a master without
\* a slave has nothing there
LiveInv(m) ==
    /\ InFlight(m) = owed[m]
    /\ count[m].pending = Len(Returning(m)) + Len(AtSlave(m))
    /\ grant[m] \notin Slaves => count[m].pending = 0
    /\ grant[m] = Nobody => request(m) = Nobody
    /\ skid[m] # <<>> => dcd[m] # <<>>
    /\ OneSlave(owed[m] \o mout[m])

\* A master's part of the invariant
MasterInv(m) ==
    /\ Own(m) /\ FlagsAreTrue(m)
    /\ ans[m].err /\ grant[m] \in Slaves => ~scyc[grant[m]]
    /\ ~mcyc[m] => mout[m] = <<>> /\ owed[m] = <<>>
    /\ mcyc[m] /\ ans[m].err => owed[m] # <<>> /\ owed[m][1].s \in Faulty \union {Nobody}
    /\ Live(m) => LiveInv(m)

XbarInv ==
    /\ GrantInv /\ BusTypes
    /\ \A m \in Masters : MasterInv(m)
    /\ \A s \in Slaves : SlaveInv(s)

-----------------------------------------------------------------------------
(* Sequences.                                                              *)

\* The first element of what is joined
LEMMA FirstOfJoined ==
    ASSUME NEW A, NEW r \in Seq(A), NEW t \in Seq(A), Len(r) = 1
    PROVE  /\ r \o t # <<>> /\ Tail(r \o t) = t /\ (r \o t)[1] = r[1]
<1>1. r \o t \in Seq(A) /\ Len(r \o t) = 1 + Len(t) /\ Len(t) \in Nat
    BY ConcatProperties, LenProperties
<1>2. r \o t # <<>>
    BY <1>1, EmptySeq
<1>3. \A k \in 1 .. 1 + Len(t) : (r \o t)[k] = IF k <= 1 THEN r[k] ELSE t[k - 1]
  <2>1. \A k \in 1 .. Len(r) + Len(t) : (r \o t)[k] = IF k <= Len(r) THEN r[k] ELSE t[k - Len(r)]
    BY ConcatProperties
  <2> QED BY <2>1
<1>4. Tail(r \o t) \in Seq(A) /\ Len(Tail(r \o t)) = Len(t)
      /\ \A k \in 1 .. Len(t) : Tail(r \o t)[k] = (r \o t)[k + 1]
    BY <1>1, <1>2, HeadTailProperties
<1>5. \A k \in 1 .. Len(t) : Tail(r \o t)[k] = t[k]
    BY <1>1, <1>3, <1>4
<1>6. Tail(r \o t) = t
    BY <1>4, <1>5, SeqEqual
<1> QED BY <1>1, <1>2, <1>3, <1>6

\* A sequence is its first element and the rest
LEMMA HeadFirst ==
    ASSUME NEW A, NEW q \in Seq(A), q # <<>>
    PROVE  <<q[1]>> \o Tail(q) = q /\ q[1] \in A /\ <<q[1]>> \in Seq(A) /\ Head(q) = q[1]
<1>1. Len(q) \in Nat \ {0} /\ q[1] \in A
    BY EmptySeq, ElementOfSeq
<1>2. /\ Tail(q) \in Seq(A) /\ Len(Tail(q)) = Len(q) - 1
      /\ \A k \in 1 .. Len(Tail(q)) : Tail(q)[k] = q[k + 1]
    BY HeadTailProperties
<1>3. <<q[1]>> \in Seq(A) /\ Len(<<q[1]>>) = 1
    BY <1>1
<1>4. <<q[1]>> \o Tail(q) \in Seq(A) /\ Len(<<q[1]>> \o Tail(q)) = Len(q)
    BY <1>1, <1>2, <1>3, ConcatProperties
<1>5. \A k \in 1 .. Len(q) : (<<q[1]>> \o Tail(q))[k] = q[k]
    BY <1>1, <1>2, <1>3, ConcatProperties
<1>6. <<q[1]>> \o Tail(q) = q
    BY <1>4, <1>5, SeqEqual
<1> QED BY <1>1, <1>3, <1>6

\* The elements of what is joined
LEMMA ConcatAt ==
    ASSUME NEW A, NEW x \in Seq(A), NEW y \in Seq(A)
    PROVE  /\ Len(x) \in Nat /\ Len(y) \in Nat
           /\ x \o y \in Seq(A) /\ Len(x \o y) = Len(x) + Len(y)
           /\ \A k \in 1 .. Len(x) : (x \o y)[k] = x[k]
           /\ \A k \in 1 .. Len(y) : (x \o y)[Len(x) + k] = y[k]
<1>1. Len(x) \in Nat /\ Len(y) \in Nat
    BY LenProperties
<1>2. /\ x \o y \in Seq(A) /\ Len(x \o y) = Len(x) + Len(y)
      /\ \A k \in 1 .. Len(x) + Len(y) : (x \o y)[k] = IF k <= Len(x) THEN x[k] ELSE y[k - Len(x)]
    BY ConcatProperties
<1>3. ASSUME NEW k \in 1 .. Len(x) PROVE (x \o y)[k] = x[k]
  <2>1. k \in 1 .. Len(x) + Len(y) /\ k <= Len(x)
    BY <1>1
  <2> QED BY <1>2, <2>1
<1>4. ASSUME NEW k \in 1 .. Len(y) PROVE (x \o y)[Len(x) + k] = y[k]
  <2>1. Len(x) + k \in 1 .. Len(x) + Len(y) /\ ~(Len(x) + k <= Len(x)) /\ Len(x) + k - Len(x) = k
    BY <1>1
  <2> QED BY <1>2, <2>1
<1> QED BY <1>1, <1>2, <1>3, <1>4

\* The first element of two sequences that are joined
LEMMA FirstOfTwo ==
    ASSUME NEW A, NEW g \in Seq(A), NEW o \in Seq(A), Len(g \o o) >= 1
    PROVE  \/ Len(g) >= 1 /\ (g \o o)[1] = g[1]
           \/ Len(o) >= 1 /\ (g \o o)[1] = o[1]
<1>1. /\ Len(g \o o) = Len(g) + Len(o) /\ Len(g) \in Nat /\ Len(o) \in Nat
      /\ \A k \in 1 .. Len(g) + Len(o) : (g \o o)[k] = IF k <= Len(g) THEN g[k] ELSE o[k - Len(g)]
    BY ConcatProperties, LenProperties
<1>2. 1 \in 1 .. Len(g) + Len(o)
    BY <1>1
<1>3. CASE Len(g) >= 1
    BY <1>1, <1>2, <1>3
<1>4. CASE ~(Len(g) >= 1)
  <2>1. Len(g) = 0 /\ Len(o) >= 1
    BY <1>1, <1>4
  <2> QED BY <1>1, <1>2, <2>1
<1> QED BY <1>3, <1>4

\* A register has at most one request
LEMMA Registers ==
    /\ <<>> \in Register
    /\ \A q \in Register : /\ q \in Seq(Request) /\ Len(q) \in Nat /\ Len(q) <= 1
                           /\ q # <<>> => Len(q) = 1 /\ q[1] \in Request
                           /\ q = <<>> => Len(q) = 0
<1>1. <<>> \in Register
    BY EmptySeq DEF Register
<1>2. ASSUME NEW q \in Register
      PROVE  /\ q \in Seq(Request) /\ Len(q) \in Nat /\ Len(q) <= 1
             /\ q # <<>> => Len(q) = 1 /\ q[1] \in Request
             /\ q = <<>> => Len(q) = 0
  <2>1. q \in Seq(Request) /\ Len(q) \in Nat /\ Len(q) <= 1
    BY LenProperties DEF Register
  <2>2. q # <<>> => Len(q) = 1
    <3>1. q # <<>> => Len(q) \in Nat \ {0}
        BY <2>1, EmptySeq
    <3>2. \A n \in Nat \ {0} : n <= 1 => n = 1
        OBVIOUS
    <3> QED BY <2>1, <3>1, <3>2, Zenon
  <2> QED BY <2>1, <2>2, ElementOfSeq, EmptySeq
<1> QED BY <1>1, <1>2
-----------------------------------------------------------------------------
(* A clock in which a master goes on with its cycle.                       *)

Clocking(i) == XbarInv /\ i \in Inputs /\ XbarClock(i)
GoesOn(i, m) == Live(m) /\ ~i.reset

\* The request in the decoder goes to its slave in this clock
Moves(i, m) == dcd[m] # <<>> /\ ~m_stall(i, m)

\* What the inputs of a clock may be
LEMMA InputsAre ==
    ASSUME NEW i \in Inputs
    PROVE  /\ i.reset \in BOOLEAN
           /\ \A s \in Slaves : i.stall[s] \in Stalls(s) /\ i.answer[s] \in Says(s)
           /\ \A m \in Masters : i.does[m] \in Does(m)
BY DEF Inputs

\* What is on the way is made of sequences of requests
LEMMA Parts ==
    ASSUME XbarInv, NEW m \in Masters
    PROVE  /\ skid[m] \in Register /\ dcd[m] \in Register /\ mout[m] \in Register
           /\ owed[m] \in Seq(Request)
           /\ Returning(m) \in Register /\ AtSlave(m) \in Seq(Request)
           /\ Len(Returning(m)) = IF ans[m].ack THEN 1 ELSE 0
           /\ mcyc[m] /\ dcd[m] # <<>> => request(m) = dcd[m][1].s /\ request(m) \in 1 .. Nobody
           /\ grant[m] \in Slaves =>
                 sgrant[grant[m]] /\ sindex[grant[m]] = m /\ mindex[m] = grant[m]
           /\ grant[m] \in 0 .. Nobody
<1>1. /\ skid[m] \in Register /\ dcd[m] \in Register /\ mout[m] \in Register
      /\ owed[m] \in Seq(Request) /\ grant[m] \in 0 .. Nobody
      /\ ans[m] \in [ack : BOOLEAN, err : BOOLEAN, of : Register]
      /\ ans[m].ack => ans[m].of # <<>>
    BY DEF XbarInv, BusTypes, GrantInv, RegTypes
<1>2. Returning(m) \in Register /\ Len(Returning(m)) = IF ans[m].ack THEN 1 ELSE 0
    BY <1>1, Registers DEF Returning
<1>3. AtSlave(m) \in Seq(Request)
  <2>1. CASE grant[m] \in Slaves
    <3>1. got[grant[m]] \in Seq(Request) /\ out[grant[m]] \in Seq(Request)
        BY <2>1, Registers DEF XbarInv, BusTypes
    <3>2. got[grant[m]] \o out[grant[m]] \in Seq(Request)
        BY <3>1, ConcatProperties
    <3> QED BY <3>2, EmptySeq DEF AtSlave
  <2>2. CASE grant[m] \notin Slaves
    BY <2>2, EmptySeq DEF AtSlave
  <2> QED BY <2>1, <2>2
<1>4. mcyc[m] /\ dcd[m] # <<>> => request(m) = dcd[m][1].s /\ request(m) \in 1 .. Nobody
    BY <1>1, Registers DEF request, Request
<1>5. grant[m] \in Slaves => sgrant[grant[m]] /\ sindex[grant[m]] = m /\ mindex[m] = grant[m]
    BY DEF XbarInv, GrantInv, GrantsAgree
<1> QED BY <1>1, <1>2, <1>3, <1>4, <1>5

\* A master's channel changes only with nothing of it on the way
LEMMA ChannelChanges ==
    ASSUME NEW i, Clocking(i), NEW m \in Masters, GoesOn(i, m), grant'[m] # grant[m]
    PROVE  /\ count[m].pending = 0
           /\ ~(request(m) # 0 /\ request(m) = grant[m])
           /\ grant'[m] \in Slaves => ~sgrant[grant'[m]]
           /\ grant'[m] # 0 => grant'[m] = request(m)
<1>1. grant'[m] = Grant(i, m)
    BY DEF Clocking, XbarClock, Xbar
<1>2. ~Off(i, m)
    BY DEF GoesOn, Live, Off
<1>3. ~stay_on_channel(m)
    BY <1>1, <1>2 DEF Grant
<1>4. grant'[m] # 0 => channel_is_available(m) /\ grant'[m] = request(m)
    BY <1>1, <1>2, <1>3 DEF Grant
<1>5. count[m].pending = 0
    BY <1>3, Numbers DEF stay_on_channel, mgrant, Clocking, XbarInv, MasterInv, FlagsAreTrue,
       LiveInv, GoesOn, GrantInv, RegTypes, Flags
<1>6. ~(request(m) # 0 /\ request(m) = grant[m])
    BY <1>3 DEF stay_on_channel
<1>7. grant'[m] \in Slaves => ~sgrant[grant'[m]]
    BY <1>4, Numbers DEF channel_is_available
<1> QED BY <1>4, <1>5, <1>6, <1>7

\* With a full count the request in the decoder is for the slave of the others
LEMMA FullIsForOne ==
    ASSUME XbarInv, NEW m \in Masters, Live(m), count[m].full, dcd[m] # <<>>
    PROVE  grant[m] \in Slaves /\ request(m) = grant[m]
<1>1. count[m].pending = MaxPending /\ MaxPending \in Nat /\ MaxPending >= 2
    BY XbarAssumption DEF XbarInv, MasterInv, FlagsAreTrue
<1>2. LiveInv(m)
    BY DEF XbarInv, MasterInv
<1>3. grant[m] \in Slaves
    BY <1>1, <1>2 DEF LiveInv
<1> DEFINE r == Returning(m)
           t == AtSlave(m)
           u == dcd[m]
           v == skid[m]
           w == mout[m]
<1>4. /\ r \in Seq(Request) /\ t \in Seq(Request) /\ u \in Seq(Request)
      /\ v \in Seq(Request) /\ w \in Seq(Request)
    BY Parts, Registers
<1>5. Len(r) <= 1 /\ Len(u) = 1 /\ Len(r) + Len(t) = MaxPending
  <2>1. Len(Returning(m)) <= 1 /\ Len(dcd[m]) = 1
    <3> HIDE DEF r, t, u, v, w
    <3>1. Returning(m) \in Register /\ dcd[m] \in Register
        BY Parts
    <3> QED BY <3>1, Registers
  <2>2. Len(Returning(m)) + Len(AtSlave(m)) = MaxPending
    BY <1>1, <1>2 DEF LiveInv
  <2> QED BY <2>1, <2>2
<1>6. OneSlave((r \o t \o u \o v) \o w)
    BY <1>2 DEF LiveInv, InFlight
<1>7. Len(t) >= 1 /\ t[1].s = u[1].s
  <2> HIDE DEF r, t, u, v, w
  <2>1. Len(r) \in Nat /\ Len(t) \in Nat /\ Len(v) \in Nat /\ Len(w) \in Nat
    BY <1>4, LenProperties
  <2>2. Len(t) >= 1
    BY <1>1, <1>5, <2>1
  <2> DEFINE x == r \o t
  <2>3. x \in Seq(Request)
    BY <1>4, ConcatProperties
  <2>4. Len(x) = Len(r) + Len(t) /\ \A k \in 1 .. Len(t) : x[Len(r) + k] = t[k]
    BY <1>4, ConcatAt
  <2> HIDE DEF x
  <2> DEFINE y == x \o u
  <2>5. y \in Seq(Request)
    BY <1>4, <2>3, ConcatProperties
  <2>6. /\ Len(y) = Len(x) + Len(u)
        /\ \A k \in 1 .. Len(x) : y[k] = x[k]
        /\ \A k \in 1 .. Len(u) : y[Len(x) + k] = u[k]
    BY <1>4, <2>3, ConcatAt
  <2> HIDE DEF y
  <2> DEFINE z == y \o v
  <2>7. z \in Seq(Request)
    BY <1>4, <2>5, ConcatProperties
  <2>8. Len(z) = Len(y) + Len(v) /\ \A k \in 1 .. Len(y) : z[k] = y[k]
    BY <1>4, <2>5, ConcatAt
  <2> HIDE DEF z
  <2> DEFINE asked == z \o w
  <2>9. Len(asked) = Len(z) + Len(w) /\ \A k \in 1 .. Len(z) : asked[k] = z[k]
    BY <1>4, <2>7, ConcatAt
  <2> HIDE DEF asked
  <2>10. /\ Len(r) + 1 \in 1 .. Len(x) /\ Len(r) + 1 \in 1 .. Len(y) /\ Len(r) + 1 \in 1 .. Len(z)
         /\ Len(r) + 1 \in 1 .. Len(asked) /\ Len(x) + 1 \in 1 .. Len(asked)
         /\ Len(x) + 1 \in 1 .. Len(y) /\ Len(x) + 1 \in 1 .. Len(z)
         /\ 1 \in 1 .. Len(t) /\ 1 \in 1 .. Len(u) /\ Len(asked) > MaxPending
    BY <1>1, <1>5, <2>1, <2>2, <2>4, <2>6, <2>8, <2>9
  <2>11. asked[Len(r) + 1] = t[1]
    BY <2>4, <2>6, <2>8, <2>9, <2>10
  <2>12. asked[Len(x) + 1] = u[1]
    BY <2>6, <2>8, <2>9, <2>10
  <2>13. OneSlave(asked)
    BY <1>6 DEF asked, z, y, x
  <2>14. asked[Len(r) + 1].s = asked[Len(x) + 1].s
    BY <2>10, <2>13 DEF OneSlave
  <2> QED BY <2>2, <2>11, <2>12, <2>14
<1> HIDE DEF r, v, w
<1> DEFINE g == got[grant[m]]
           o == out[grant[m]]
<1>8. scyc[grant[m]] /\ t = g \o o
  <2>1. Len(<<>>) = 0
    BY EmptySeq
  <2>2. t # <<>>
    BY <1>7, <2>1
  <2> QED BY <1>3, <2>2 DEF AtSlave
<1>9. g \in Seq(Request) /\ o \in Seq(Request)
    BY <1>3, Registers DEF XbarInv, BusTypes
<1>10. \A q \in {g, o} : \A k \in 1 .. Len(q) : q[k].s = grant[m]
    BY <1>3, <1>8 DEF XbarInv, SlaveInv
<1>11. t[1].s = grant[m]
  <2> HIDE DEF t, u, g, o
  <2>1. \/ Len(g) >= 1 /\ t[1] = g[1]
        \/ Len(o) >= 1 /\ t[1] = o[1]
    BY <1>7, <1>8, <1>9, FirstOfTwo
  <2>2. Len(g) \in Nat /\ Len(o) \in Nat
    BY <1>9, LenProperties
  <2> QED BY <1>10, <2>1, <2>2
<1> QED BY <1>3, <1>7, <1>11, Parts DEF Live

\* A request that leaves the decoder has its slave's channel and its room
LEMMA MovesToItsSlave ==
    ASSUME NEW i, Clocking(i), NEW m \in Masters, GoesOn(i, m)
    PROVE  /\ Moves(i, m) <=> /\ grant[m] \in Slaves /\ request(m) = grant[m] /\ ~count[m].full
                              /\ ~s_stall(i, grant[m])
           /\ Moves(i, m) <=> m_stb(m) /\ ~m_stall(i, m)
<1> USE DEF Clocking, GoesOn, Live
<1>1. request(m) # 0 <=> dcd[m] # <<>>
    BY Parts, Numbers DEF request
<1>2. mgrant(m) <=> grant[m] \in Slaves \/ grant[m] = Nobody
    BY Parts, Numbers DEF mgrant
<1>3. CASE grant[m] \in Slaves /\ request(m) = grant[m]
  <2>1. dcd[m] # <<>> /\ mindex[m] = grant[m] /\ grant[m] # Nobody /\ mgrant(m)
    BY <1>1, <1>2, <1>3, Parts, Numbers
  <2>2. m_stall(i, m) <=> count[m].full \/ s_stall(i, grant[m])
    BY <1>3, <2>1 DEF m_stall
  <2> QED BY <1>3, <2>1, <2>2 DEF Moves, m_stb
<1>4. CASE ~(grant[m] \in Slaves /\ request(m) = grant[m])
  <2>1. dcd[m] # <<>> => ~count[m].full
    BY <1>4, FullIsForOne
  <2>2. dcd[m] # <<>> => m_stb(m)
    BY <2>1 DEF m_stb
  <2>3. dcd[m] # <<>> => m_stall(i, m)
    BY <1>2, <1>4, <2>2, Parts, Numbers DEF m_stall
  <2> QED BY <1>4, <2>2, <2>3 DEF Moves, m_stb
<1> QED BY <1>3, <1>4

\* What the crossbar takes from the master in this clock
Taken(m) == IF Held(m) THEN <<>> ELSE mout[m]

\* The decoder and the skid buffer keep what does not move on, in its order
LEMMA DecoderKeeps ==
    ASSUME NEW i, Clocking(i), NEW m \in Masters, GoesOn(i, m)
    PROVE  /\ dcd'[m] \o skid'[m] = ((IF Moves(i, m) THEN <<>> ELSE dcd[m]) \o skid[m]) \o Taken(m)
           /\ skid'[m] # <<>> => dcd'[m] # <<>>
           /\ dcd'[m] \in Register /\ skid'[m] \in Register
           /\ Taken(m) \in Register
           /\ dcd[m] # <<>> /\ ~Moves(i, m) => dcd'[m] = dcd[m]
<1> DEFINE d == dcd[m]
           k == skid[m]
           w == mout[m]
<1>1. d \in Register /\ k \in Register /\ w \in Register /\ <<>> \in Register
    BY Parts, Registers DEF Clocking
<1>2. k # <<>> => d # <<>>
    BY DEF Clocking, XbarInv, MasterInv, LiveInv, GoesOn
<1>3. dcd'[m] = Decoder(i, m) /\ skid'[m] = Skid(i, m)
    BY DEF Clocking, XbarClock, Xbar
<1>4. mcyc[m] /\ ~i.reset /\ ~Off(i, m)
    BY DEF GoesOn, Live, Off
<1>5. skd_stall(i, m) <=> d # <<>> /\ ~Moves(i, m)
    BY <1>4 DEF skd_stall, Moves
<1>6. skd_stb(m) <=> w # <<>> \/ k # <<>>
    BY <1>4 DEF skd_stb
<1>7. Taken(m) = IF w # <<>> /\ k # <<>> THEN <<>> ELSE w
    BY DEF Taken, Held
<1>8. dcd'[m] = IF skd_stall(i, m) THEN d
                ELSE IF ~skd_stb(m) THEN <<>> ELSE IF k # <<>> THEN k ELSE w
    BY <1>3, <1>4 DEF Decoder
<1>9. skid'[m] = IF w # <<>> /\ k = <<>> /\ skd_stall(i, m) THEN w
                 ELSE IF ~skd_stall(i, m) THEN <<>> ELSE k
    BY <1>3, <1>4 DEF Skid
<1>10. \A q \in Register : q \o <<>> = q /\ <<>> \o q = q
    BY Registers, ConcatEmptySeq
<1> HIDE DEF d, k, w
<1>11. CASE skd_stall(i, m)
  <2>1. d # <<>> /\ ~Moves(i, m) /\ dcd'[m] = d
    BY <1>5, <1>8, <1>11
  <2>2. CASE w # <<>> /\ k = <<>>
    <3>1. skid'[m] = w /\ Taken(m) = w /\ d \o k = d
        BY <1>1, <1>7, <1>9, <1>10, <1>11, <2>2
    <3> QED BY <1>1, <2>1, <3>1 DEF d, k
  <2>3. CASE ~(w # <<>> /\ k = <<>>)
    <3>1. skid'[m] = k /\ Taken(m) = <<>>
        BY <1>7, <1>9, <1>11, <2>3
    <3>2. d \o k \in Seq(Request)
        BY <1>1, Registers, ConcatProperties
    <3>3. (d \o k) \o <<>> = d \o k
        BY <3>2, ConcatEmptySeq
    <3> QED BY <1>1, <2>1, <3>1, <3>3 DEF d, k
  <2> QED BY <2>2, <2>3
<1>12. CASE ~skd_stall(i, m)
  <2>1. skid'[m] = <<>> /\ (d = <<>> \/ Moves(i, m))
    BY <1>5, <1>9, <1>12
  <2>2. (IF Moves(i, m) THEN <<>> ELSE d) = <<>>
    BY <2>1
  <2>3. dcd'[m] \in Register /\ dcd'[m] \o skid'[m] = dcd'[m] /\ <<>> \o k = k
    BY <1>1, <1>8, <1>10, <1>12, <2>1
  <2>4. CASE k # <<>>
    <3>1. dcd'[m] = k /\ Taken(m) = <<>>
        BY <1>6, <1>7, <1>8, <1>12, <2>4
    <3> QED BY <1>1, <1>10, <2>1, <2>2, <2>3, <3>1 DEF d, k
  <2>5. CASE k = <<>>
    <3>1. dcd'[m] = w /\ Taken(m) = w
        BY <1>6, <1>7, <1>8, <1>12, <2>5
    <3> QED BY <1>1, <1>10, <2>1, <2>2, <2>3, <2>5, <3>1 DEF d, k
  <2> QED BY <2>4, <2>5
<1> QED BY <1>11, <1>12

\* A slave that is newly taken is not in a cycle yet
LEMMA NewChannelIsEmpty ==
    ASSUME NEW i, Clocking(i), NEW m \in Masters, GoesOn(i, m),
           grant'[m] \in Slaves, grant'[m] # grant[m]
    PROVE  ~scyc'[grant'[m]]
<1>1. ~sgrant[grant'[m]]
    BY ChannelChanges
<1>2. scyc'[grant'[m]] = Scyc(i, grant'[m])
    BY DEF Clocking, XbarClock, Xbar
<1> QED BY <1>1, <1>2 DEF Scyc

\* What the slave of a channel has, and what it gives back
LEMMA SlaveSide ==
    ASSUME NEW i, Clocking(i), NEW m \in Masters, GoesOn(i, m), ~ans'[m].err
    PROVE  /\ Returning(m)' \o AtSlave(m)' = AtSlave(m) \o (IF Moves(i, m) THEN dcd[m] ELSE <<>>)
           /\ Len(Returning(m)') + Len(AtSlave(m)')
                 = Len(AtSlave(m)) + (IF Moves(i, m) THEN 1 ELSE 0)
           /\ Returning(m)' \in Seq(Request) /\ AtSlave(m)' \in Seq(Request)
<1> DEFINE s == grant[m]
           a == ans'[m]
<1>1. ~Off(i, m) /\ ~ans[m].err /\ mcyc[m] /\ ~i.reset
    BY DEF GoesOn, Live, Off
<1>2. ans'[m] = Answer(i, m)
    BY DEF Clocking, XbarClock, Xbar
<1>3. mgrant(m) <=> s \in Slaves \/ s = Nobody
    BY Parts, Numbers DEF mgrant, Clocking
<1>4. s # Nobody
    BY <1>1, <1>2 DEF Answer, NoAnswer
<1>5. s \notin Slaves => s = 0 /\ ~mgrant(m)
    BY <1>3, <1>4, Parts, Numbers DEF Clocking
<1>6. ans'[m].ack => s \in Slaves /\ Answers(i, s, "ack") /\ ans'[m].of = <<Head(got[s])>>
    BY <1>1, <1>2, <1>4, <1>5, Parts DEF Answer, NoAnswer, Clocking
<1>7. s \in Slaves => ~Answers(i, s, "err") /\ (Answers(i, s, "ack") => ans'[m].ack)
  <2>1. SUFFICES ASSUME s \in Slaves
                 PROVE  ~Answers(i, s, "err") /\ (Answers(i, s, "ack") => ans'[m].ack)
    OBVIOUS
  <2>2. mgrant(m) /\ mindex[m] = s /\ mindex[m] \in Slaves
    BY <1>3, <2>1, Parts DEF Clocking
  <2>3. Answers(i, s, "ack") => ans'[m].ack
    BY <1>1, <1>2, <1>4, <2>2 DEF Answer
  <2>4. Answers(i, s, "err") => ~Answers(i, s, "ack")
    BY DEF Answers
  <2>5. Answers(i, s, "err") => ans'[m].err
    BY <1>1, <1>2, <1>4, <2>2, <2>4 DEF Answer, NoAnswer
  <2> QED BY <2>3, <2>5
<1>8. Moves(i, m) => s \in Slaves /\ request(m) = s /\ ~count[m].full /\ ~s_stall(i, s)
    BY MovesToItsSlave
<1>9. CASE grant'[m] # s
  <2>1. count[m].pending = 0 /\ ~Moves(i, m)
    BY <1>1, <1>8, <1>9, ChannelChanges, Parts, Numbers DEF Moves, Clocking
  <2>2. AtSlave(m) = <<>>
    <3>1. /\ Len(Returning(m)) + Len(AtSlave(m)) = 0 /\ Len(Returning(m)) \in Nat
          /\ AtSlave(m) \in Seq(Request)
        BY <2>1, Parts DEF Clocking, XbarInv, MasterInv, LiveInv, GoesOn
    <3>2. Len(AtSlave(m)) \in Nat
        BY <3>1, LenProperties
    <3>3. Len(AtSlave(m)) = 0
        BY <3>1, <3>2
    <3> QED BY <3>1, <3>3, EmptySeq
  <2>3. ~ans'[m].ack
    <3>1. SUFFICES ASSUME ans'[m].ack PROVE FALSE
        OBVIOUS
    <3>2. s \in Slaves /\ scyc[s] /\ got[s] # <<>>
        BY <1>6, <3>1, InputsAre DEF Answers, Says, Clocking
    <3>3. got[s] \in Seq(Request) /\ out[s] \in Seq(Request) /\ got[s] \o out[s] = <<>>
        BY <2>2, <3>2, Registers DEF AtSlave, Clocking, XbarInv, BusTypes
    <3> QED BY <3>2, <3>3, ConcatEqualIffEmpty
  <2>4. Returning(m)' = <<>>
    BY <2>3 DEF Returning
  <2>5. AtSlave(m)' = <<>>
    BY <1>9, NewChannelIsEmpty DEF AtSlave
  <2>6. <<>> \o <<>> = <<>> /\ Len(<<>>) = 0 /\ <<>> \in Seq(Request)
    BY EmptySeq, ConcatEmptySeq
  <2> QED BY <2>1, <2>2, <2>4, <2>5, <2>6
<1>10. CASE grant'[m] = s /\ s \notin Slaves
  <2>1. ~Moves(i, m) /\ ~ans'[m].ack
    BY <1>6, <1>8, <1>10
  <2>2. Returning(m)' = <<>> /\ AtSlave(m)' = <<>> /\ AtSlave(m) = <<>>
    BY <1>10, <2>1 DEF Returning, AtSlave
  <2>3. <<>> \o <<>> = <<>> /\ Len(<<>>) = 0 /\ <<>> \in Seq(Request)
    BY EmptySeq, ConcatEmptySeq
  <2> QED BY <2>1, <2>2, <2>3
<1>11. CASE grant'[m] = s /\ s \in Slaves
  <2> DEFINE g == got[s]
             o == out[s]
             d == dcd[m]
  <2>1. sgrant[s] /\ sindex[s] = m /\ mindex[m] = s
    BY <1>11, Parts DEF Clocking
  <2>2. scyc'[s]
    BY <1>1, <1>7, <1>11, <2>1 DEF Clocking, XbarClock, Xbar, Scyc
  <2>3. g \in Seq(Request) /\ o \in Register /\ d \in Register
    BY <1>11, Parts DEF Clocking, XbarInv, BusTypes
  <2>4. out'[s] = IF s_stall(i, s) THEN o ELSE IF Moves(i, m) THEN d ELSE <<>>
    <3>1. out'[s] = Out(i, s) /\ Scyc(i, s)
        BY <1>11, <2>2 DEF Clocking, XbarClock, Xbar
    <3>2. ~s_stall(i, s) => (Moves(i, m) <=> request(m) = s /\ ~count[m].full)
        BY <1>11, MovesToItsSlave
    <3> QED BY <2>1, <3>1, <3>2 DEF Out
  <2>5. got'[s] = SlaveDoes(i, s)
    BY <1>11 DEF Clocking, XbarClock
  <2>6. ~scyc[s] => o = <<>>
    BY <1>11 DEF Clocking, XbarInv, SlaveInv
  <2>7. s_stall(i, s) <=> o # <<>> /\ i.stall[s]
    BY DEF s_stall
  <2>8. AtSlave(m) = IF scyc[s] THEN g \o o ELSE <<>>
    BY <1>11 DEF AtSlave
  <2>9. AtSlave(m)' = got'[s] \o out'[s]
    BY <1>11, <2>2 DEF AtSlave
  <2> DEFINE x == IF Moves(i, m) THEN d ELSE <<>>
             ret == Returning(m)'
  <2>10. /\ o \in Seq(Request) /\ d \in Seq(Request) /\ x \in Seq(Request)
         /\ Len(x) = IF Moves(i, m) THEN 1 ELSE 0
    BY <2>3, Registers, EmptySeq DEF Moves
  <2>11. \A q \in Seq(Request) : q \o <<>> = q /\ <<>> \o q = q
    BY ConcatEmptySeq
  <2>12. ret = IF ans'[m].ack THEN <<Head(g)>> ELSE <<>>
    BY <1>6 DEF Returning
  <2>13. CASE scyc[s]
    <3> DEFINE gg == IF i.answer[s] = "none" THEN g ELSE Tail(g)
               oo == IF i.stall[s] THEN <<>> ELSE o
    <3>1. got'[s] = gg \o oo
        BY <2>5, <2>13 DEF SlaveDoes
    <3>2. /\ i.answer[s] \in Says(s) /\ i.stall[s] \in Stalls(s)
          /\ i.answer[s] # "err" /\ (ans'[m].ack <=> i.answer[s] = "ack")
        BY <1>6, <1>7, <1>11, <2>13, InputsAre DEF Answers, Clocking
    <3>3. ret \in Seq(Request) /\ gg \in Seq(Request) /\ ret \o gg = g
      <4>1. CASE i.answer[s] = "none"
        BY <2>3, <2>11, <2>12, <3>2, <4>1, EmptySeq
      <4>2. CASE i.answer[s] # "none"
        <5>1. g # <<>> /\ i.answer[s] = "ack"
            BY <2>13, <3>2, <4>2 DEF Says
        <5>2. ret = <<g[1]>> /\ gg = Tail(g)
            BY <2>3, <2>12, <3>2, <4>2, <5>1, HeadFirst
        <5> QED BY <2>3, <5>1, <5>2, HeadFirst, HeadTailProperties
      <4> QED BY <4>1, <4>2
    <3>4. oo \in Seq(Request) /\ out'[s] \in Seq(Request) /\ oo \o out'[s] = o \o x
      <4>1. CASE i.stall[s]
        <5>1. o # <<>> /\ s_stall(i, s)
            BY <2>7, <3>2, <4>1 DEF Stalls
        <5>2. ~Moves(i, m)
            BY <1>8, <5>1
        <5> QED BY <2>4, <2>10, <2>11, <4>1, <5>1, <5>2, EmptySeq
      <4>2. CASE ~i.stall[s]
        <5>1. out'[s] = x
            BY <2>4, <2>7, <4>2
        <5> QED BY <2>10, <4>2, <5>1
      <4> QED BY <4>1, <4>2
    <3> DEFINE q == out'[s]
    <3>5. AtSlave(m)' = (gg \o oo) \o q /\ AtSlave(m) = g \o o
        BY <2>8, <2>9, <2>13, <3>1
    <3>6. ret \in Seq(Request)
        BY <3>3
    <3>7. gg \in Seq(Request)
        BY <3>3
    <3>8. oo \in Seq(Request)
        BY <3>4
    <3>9. q \in Seq(Request)
        BY <3>4
    <3>10. g \in Seq(Request)
        BY <2>3
    <3>11. o \in Seq(Request)
        BY <2>10
    <3>12. x \in Seq(Request)
        BY <2>10
    <3>13. ret \o gg = g /\ oo \o q = o \o x
        BY <3>3, <3>4
    <3> HIDE DEF ret, gg, oo, q, g, o, x
    <3>14. (gg \o oo) \o q = gg \o (oo \o q)
        BY <3>7, <3>8, <3>9, ConcatAssociative
    <3>15. oo \o q \in Seq(Request)
        BY <3>8, <3>9, ConcatProperties
    <3>16. ret \o (gg \o (oo \o q)) = (ret \o gg) \o (oo \o q)
      <4> DEFINE p == oo \o q
      <4>1. p \in Seq(Request)
        BY <3>15
      <4> HIDE DEF p
      <4>2. ret \o (gg \o p) = (ret \o gg) \o p
        BY <3>6, <3>7, <4>1, ConcatAssociative
      <4> QED BY <4>2 DEF p
    <3>17. g \o (o \o x) = (g \o o) \o x
        BY <3>10, <3>11, <3>12, ConcatAssociative
    <3>18. ret \o AtSlave(m)' = AtSlave(m) \o x
        BY <3>5, <3>13, <3>14, <3>16, <3>17
    <3>19. AtSlave(m)' \in Seq(Request)
      <4>1. gg \o oo \in Seq(Request)
        BY <3>7, <3>8, ConcatProperties
      <4> QED BY <3>5, <3>9, <4>1, ConcatProperties
    <3>20. AtSlave(m) \in Seq(Request)
        BY <3>5, <3>10, <3>11, ConcatProperties
    <3>21. Len(ret \o AtSlave(m)') = Len(ret) + Len(AtSlave(m)')
        BY <3>6, <3>19, ConcatProperties
    <3>22. Len(AtSlave(m) \o x) = Len(AtSlave(m)) + Len(x)
        BY <3>12, <3>20, ConcatProperties
    <3> QED BY <2>10, <3>6, <3>18, <3>19, <3>21, <3>22 DEF ret, x
  <2>14. CASE ~scyc[s]
    <3>1. got'[s] = <<>> /\ o = <<>> /\ AtSlave(m) = <<>>
        BY <2>5, <2>6, <2>8, <2>14 DEF SlaveDoes
    <3>2. ret = <<>>
        BY <1>6, <2>12, <2>14 DEF Answers
    <3>3. out'[s] = x
        BY <2>4, <2>7, <3>1
    <3>4. AtSlave(m)' = x
        BY <2>9, <2>10, <2>11, <3>1, <3>3
    <3> QED BY <2>10, <2>11, <3>1, <3>2, <3>4, EmptySeq
  <2> QED BY <2>13, <2>14
<1> QED BY <1>9, <1>10, <1>11

-----------------------------------------------------------------------------
(* What is owed.                                                           *)

\* What the master is owed without the answer that it gets in this clock
Rest(m) == (AtSlave(m) \o dcd[m]) \o skid[m]

\* The answer that is here is for the first of what is owed
LEMMA OwedAndRest ==
    ASSUME XbarInv, NEW m \in Masters, Live(m)
    PROVE  /\ Rest(m) \in Seq(Request)
           /\ owed[m] = Returning(m) \o Rest(m)
           /\ (IF ans[m].ack /\ owed[m] # <<>> THEN Tail(owed[m]) ELSE owed[m]) = Rest(m)
<1> DEFINE r == Returning(m)
           t == AtSlave(m)
           d == dcd[m]
           k == skid[m]
<1>1. r \in Seq(Request)
    BY Parts, Registers
<1>2. t \in Seq(Request)
    BY Parts
<1>3. d \in Seq(Request)
    BY Parts, Registers
<1>4. k \in Seq(Request)
    BY Parts, Registers
<1>5. owed[m] = ((r \o t) \o d) \o k
    BY DEF XbarInv, MasterInv, LiveInv, InFlight
<1>6. Rest(m) = (t \o d) \o k
    BY DEF Rest
<1>7. Len(r) = IF ans[m].ack THEN 1 ELSE 0
    BY Parts
<1> HIDE DEF r, t, d, k
<1>8. t \o d \in Seq(Request)
    BY <1>2, <1>3, ConcatProperties
<1>9. Rest(m) \in Seq(Request)
    BY <1>4, <1>6, <1>8, ConcatProperties
<1>10. (r \o t) \o d = r \o (t \o d)
    BY <1>1, <1>2, <1>3, ConcatAssociative
<1>11. (r \o (t \o d)) \o k = r \o ((t \o d) \o k)
  <2> DEFINE p == t \o d
  <2>1. p \in Seq(Request)
    BY <1>8
  <2> HIDE DEF p
  <2>2. (r \o p) \o k = r \o (p \o k)
    BY <1>1, <1>4, <2>1, ConcatAssociative
  <2> QED BY <2>2 DEF p
<1>12. owed[m] = r \o Rest(m)
    BY <1>5, <1>6, <1>10, <1>11
<1>13. CASE ans[m].ack
    BY <1>1, <1>7, <1>9, <1>12, <1>13, FirstOfJoined DEF r
<1>14. CASE ~ans[m].ack
  <2>1. r = <<>>
    BY <1>1, <1>7, <1>14, EmptySeq
  <2> QED BY <1>9, <1>12, <1>14, <2>1, ConcatEmptySeq DEF r
<1> QED BY <1>13, <1>14

\* The registers of a master that goes on with its cycle
LEMMA MasterGoesOn ==
    ASSUME NEW i, Clocking(i), NEW m \in Masters, GoesOn(i, m), i.does[m] # End
    PROVE  /\ mcyc'[m] = TRUE
           /\ owed'[m] = Rest(m) \o Taken(m)
           /\ i.does[m] # Wait => mout'[m] = <<[m |-> m, s |-> i.does[m], n |-> issued[m] + 1]>>
           /\ i.does[m] = Wait => mout'[m] = IF Held(m) THEN mout[m] ELSE <<>>
           /\ i.does[m] \in {Wait} \union Asks(m)
<1>1. mcyc[m] /\ ~i.reset /\ ~ans[m].err
    BY DEF GoesOn, Live
<1>2. /\ mcyc'[m] = MasterDoes(i, m).cyc /\ mout'[m] = MasterDoes(i, m).out
      /\ owed'[m] = MasterDoes(i, m).owed
    BY DEF Clocking, XbarClock, MastersStep
<1>3. i.does[m] \in {Wait} \union Asks(m)
    BY <1>1, InputsAre DEF Clocking, Does
<1>4. owed'[m] = (IF ans[m].ack /\ owed[m] # <<>> THEN Tail(owed[m]) ELSE owed[m]) \o Taken(m)
    BY <1>1, <1>2 DEF MasterDoes, Taken
<1>5. owed'[m] = Rest(m) \o Taken(m)
    BY <1>4, OwedAndRest DEF Clocking, GoesOn
<1>6. mcyc'[m] = TRUE
    BY <1>1, <1>2 DEF MasterDoes
<1> QED BY <1>1, <1>2, <1>3, <1>5, <1>6 DEF MasterDoes

\* What is on the way after the clock is what is owed
LEMMA OnItsWay ==
    ASSUME NEW i, Clocking(i), NEW m \in Masters, GoesOn(i, m), i.does[m] # End, ~ans'[m].err
    PROVE  InFlight(m)' = owed'[m]
<1> DEFINE R == Returning(m)'
           A == AtSlave(m)'
           D == dcd'[m]
           K == skid'[m]
           t == AtSlave(m)
           d == dcd[m]
           k == skid[m]
           w == Taken(m)
           x == IF Moves(i, m) THEN d ELSE <<>>
           y == IF Moves(i, m) THEN <<>> ELSE d
<1>1. InFlight(m)' = ((R \o A) \o D) \o K
    BY DEF InFlight
<1>2. owed'[m] = ((t \o d) \o k) \o w
    BY MasterGoesOn DEF Rest
<1>3. R \o A = t \o x /\ R \in Seq(Request) /\ A \in Seq(Request)
    BY SlaveSide
<1>4. D \o K = (y \o k) \o w /\ D \in Register /\ K \in Register /\ w \in Register
    BY DecoderKeeps
<1>5. t \in Seq(Request) /\ d \in Register /\ k \in Register
    BY Parts DEF Clocking
<1>6. D \in Seq(Request)
    BY <1>4, Registers
<1>7. K \in Seq(Request)
    BY <1>4, Registers
<1>8. w \in Seq(Request)
    BY <1>4, Registers
<1>9. d \in Seq(Request) /\ k \in Seq(Request)
    BY <1>5, Registers
<1>10. x \in Seq(Request) /\ y \in Seq(Request) /\ x \o y = d
    BY <1>9, EmptySeq, ConcatEmptySeq
<1> HIDE DEF R, A, D, K, t, d, k, w, x, y
<1> DEFINE p == R \o A
<1>11. p \in Seq(Request) /\ p = t \o x
    BY <1>3, ConcatProperties
<1>12. InFlight(m)' = (p \o D) \o K
    BY <1>1
<1> HIDE DEF p
<1>13. (p \o D) \o K = p \o (D \o K)
  <2>1. p \in Seq(Request)
    BY <1>11
  <2> QED BY <1>6, <1>7, <2>1, ConcatAssociative
<1> DEFINE q == y \o k
<1>14. q \in Seq(Request)
    BY <1>9, <1>10, ConcatProperties
<1>15. D \o K = q \o w
    BY <1>4
<1> HIDE DEF q
<1>16. p \o (q \o w) = (p \o q) \o w
  <2>1. p \in Seq(Request)
    BY <1>11
  <2> QED BY <1>8, <1>14, <2>1, ConcatAssociative
<1>17. p \o q = (t \o d) \o k
  <2>1. y \in Seq(Request)
    BY <1>10
  <2>2. k \in Seq(Request)
    BY <1>9
  <2>3. p \in Seq(Request)
    BY <1>11
  <2>4. p \o (y \o k) = (p \o y) \o k
    BY <2>1, <2>2, <2>3, ConcatAssociative
  <2>5. t \in Seq(Request)
    BY <1>5
  <2>6. x \in Seq(Request)
    BY <1>10
  <2>7. (t \o x) \o y = t \o (x \o y)
    BY <2>1, <2>5, <2>6, ConcatAssociative
  <2> QED BY <1>10, <1>11, <2>4, <2>7 DEF q
<1> QED BY <1>2, <1>12, <1>13, <1>15, <1>16, <1>17

\* The count follows what is on the way
LEMMA CountFollows ==
    ASSUME NEW i, Clocking(i), NEW m \in Masters, GoesOn(i, m)
    PROVE  /\ count'[m].pending = Len(AtSlave(m)) + (IF Moves(i, m) THEN 1 ELSE 0)
           /\ FlagsAreTrue(m)'
<1> DEFINE c == count[m]
<1>1. ~Off(i, m) /\ ~ans[m].err
    BY DEF GoesOn, Live, Off
<1>2. /\ c \in Flags /\ c.pending \in 0 .. MaxPending /\ (c.full <=> c.pending = MaxPending)
      /\ (c.empty <=> c.pending = 0) /\ (c.nearfull <=> c.pending >= MaxPending - 1)
    BY DEF Clocking, XbarInv, MasterInv, FlagsAreTrue, GrantInv, RegTypes
<1>3. c.pending = (IF ans[m].ack THEN 1 ELSE 0) + Len(AtSlave(m)) /\ Len(AtSlave(m)) \in Nat
  <2>1. c.pending = Len(Returning(m)) + Len(AtSlave(m))
    BY DEF Clocking, XbarInv, MasterInv, LiveInv, GoesOn
  <2>2. Len(Returning(m)) = IF ans[m].ack THEN 1 ELSE 0
    BY Parts DEF Clocking
  <2>3. AtSlave(m) \in Seq(Request)
    BY Parts DEF Clocking
  <2>4. Len(AtSlave(m)) \in Nat
    BY <2>3, LenProperties
  <2> QED BY <2>1, <2>2, <2>4
<1>4. m_stb(m) /\ ~m_stall(i, m) <=> Moves(i, m)
    BY MovesToItsSlave
<1>5. Moves(i, m) => ~c.full
    BY MovesToItsSlave
<1>6. ans[m].ack \in BOOLEAN
    BY DEF Clocking, XbarInv, BusTypes
<1>7. count'[m] = Pending(i, m)
    BY DEF Clocking, XbarClock, Xbar
<1>8. MaxPending \in Nat /\ MaxPending >= 2
    BY XbarAssumption
<1> HIDE DEF c
<1>9. ASSUME Moves(i, m) <=> ans[m].ack
      PROVE  /\ count'[m].pending = Len(AtSlave(m)) + (IF Moves(i, m) THEN 1 ELSE 0)
             /\ FlagsAreTrue(m)'
  <2>1. count'[m] = c
    BY <1>1, <1>4, <1>6, <1>7, <1>9 DEF Pending, c
  <2> QED BY <1>2, <1>3, <1>9, <2>1 DEF FlagsAreTrue
<1>10. CASE Moves(i, m) /\ ~ans[m].ack
  <2>1. count'[m] = [pending |-> c.pending + 1, nearfull |-> c.pending >= MaxPending - 2,
                     full |-> c.nearfull, empty |-> FALSE]
    BY <1>1, <1>4, <1>6, <1>7, <1>10 DEF Pending, c
  <2>2. /\ count'[m].pending = c.pending + 1 /\ (count'[m].full <=> c.nearfull)
        /\ (count'[m].nearfull <=> c.pending >= MaxPending - 2) /\ ~count'[m].empty
    <3>1. /\ count'[m].pending = c.pending + 1 /\ count'[m].full = c.nearfull
          /\ count'[m].nearfull = (c.pending >= MaxPending - 2) /\ count'[m].empty = FALSE
        BY <2>1
    <3> QED BY <3>1, Zenon
  <2>3. c.pending \in 0 .. MaxPending - 1
    BY <1>2, <1>5, <1>8, <1>10
  <2> QED BY <1>2, <1>3, <1>8, <1>10, <2>2, <2>3 DEF FlagsAreTrue
<1>11. CASE ~Moves(i, m) /\ ans[m].ack
  <2>1. count'[m] = [pending |-> c.pending - 1, nearfull |-> c.full,
                     full |-> FALSE, empty |-> c.pending = 1]
    BY <1>1, <1>4, <1>6, <1>7, <1>11 DEF Pending, c
  <2>2. /\ count'[m].pending = c.pending - 1 /\ ~count'[m].full
        /\ (count'[m].nearfull <=> c.full) /\ (count'[m].empty <=> c.pending = 1)
    <3>1. /\ count'[m].pending = c.pending - 1 /\ count'[m].full = FALSE
          /\ count'[m].nearfull = c.full /\ count'[m].empty = (c.pending = 1)
        BY <2>1
    <3> QED BY <3>1, Zenon
  <2>3. c.pending \in 1 .. MaxPending
    BY <1>2, <1>3, <1>8, <1>11
  <2> QED BY <1>2, <1>3, <1>8, <1>11, <2>2, <2>3 DEF FlagsAreTrue
<1> QED BY <1>9, <1>10, <1>11

\* A master asks another slave only while all it asks can be counted
LEMMA StaysWithOneSlave ==
    ASSUME NEW i, Clocking(i), NEW m \in Masters, GoesOn(i, m), i.does[m] # End
    PROVE  OneSlave(owed'[m] \o mout'[m])
<1> DEFINE r == Returning(m)
           b == Rest(m) \o mout[m]
           asked == owed[m] \o mout[m]
           new == owed'[m] \o mout'[m]
<1>1. r \in Seq(Request) /\ Len(r) \in Nat
    BY Parts, Registers DEF Clocking
<1>2. Rest(m) \in Seq(Request) /\ owed[m] = r \o Rest(m)
    BY OwedAndRest DEF Clocking, GoesOn
<1>3. mout[m] \in Seq(Request)
    BY Parts, Registers DEF Clocking
<1>4. b \in Seq(Request)
    BY <1>2, <1>3, ConcatProperties
<1>5. asked = r \o b
  <2> DEFINE p == Rest(m)
             w == mout[m]
  <2>1. p \in Seq(Request) /\ w \in Seq(Request) /\ asked = (r \o p) \o w /\ b = p \o w
    BY <1>2, <1>3
  <2> HIDE DEF r, p, w, asked, b
  <2>2. r \in Seq(Request)
    BY <1>1
  <2>3. p \in Seq(Request)
    BY <2>1
  <2>4. w \in Seq(Request)
    BY <2>1
  <2>5. (r \o p) \o w = r \o (p \o w)
    BY <2>2, <2>3, <2>4, ConcatAssociative
  <2> QED BY <2>1, <2>5
<1>6. OneSlave(asked)
    BY DEF Clocking, XbarInv, MasterInv, LiveInv, GoesOn
<1>7. MaxPending \in Nat /\ MaxPending >= 2
    BY XbarAssumption
<1>8. CASE i.does[m] = Wait
  <2>1. owed'[m] \o mout'[m] = b
    <3>1. owed'[m] = Rest(m) \o Taken(m) /\ mout'[m] = IF Held(m) THEN mout[m] ELSE <<>>
        BY <1>8, MasterGoesOn
    <3>2. CASE Held(m)
      <4>1. Rest(m) \o <<>> = Rest(m)
        BY <1>2, ConcatEmptySeq
      <4> QED BY <3>1, <3>2, <4>1 DEF Taken
    <3>3. CASE ~Held(m)
      <4>1. b \o <<>> = b
        BY <1>4, ConcatEmptySeq
      <4> QED BY <3>1, <3>3, <4>1 DEF Taken
    <3> QED BY <3>2, <3>3
  <2> HIDE DEF r, b, asked
  <2>2. /\ Len(r) \in Nat /\ Len(b) \in Nat /\ Len(asked) = Len(r) + Len(b)
        /\ \A k \in 1 .. Len(b) : asked[Len(r) + k] = b[k]
    BY <1>1, <1>4, <1>5, ConcatAt
  <2>3. SUFFICES ASSUME Len(b) > MaxPending, NEW j \in 1 .. Len(b), NEW k \in 1 .. Len(b)
                 PROVE  b[j].s = b[k].s
    BY <2>1 DEF OneSlave
  <2>4. Len(asked) > MaxPending /\ Len(r) + j \in 1 .. Len(asked) /\ Len(r) + k \in 1 .. Len(asked)
    BY <1>7, <2>2, <2>3
  <2>5. asked[Len(r) + j].s = asked[Len(r) + k].s
    BY <1>6, <2>4 DEF OneSlave
  <2> QED BY <2>2, <2>5
<1>9. CASE i.does[m] # Wait
  <2> DEFINE f == [m |-> m, s |-> i.does[m], n |-> issued[m] + 1]
  <2>1. /\ ~Held(m) /\ i.does[m] \in 1 .. Nobody
        /\ Len(asked) >= MaxPending => \A k \in DOMAIN asked : asked[k].s = i.does[m]
    BY <1>9, MasterGoesOn DEF Asks
  <2>2. owed'[m] = b /\ mout'[m] = <<f>>
    BY <1>9, <2>1, MasterGoesOn DEF Taken
  <2>3. f \in Request
    BY <2>1 DEF Request, Clocking, XbarInv, BusTypes
  <2>4. <<f>> \in Seq(Request) /\ Len(<<f>>) = 1 /\ <<f>>[1] = f /\ f.s = i.does[m]
    BY <2>3
  <2>5. asked \in Seq(Request)
    <3>1. owed[m] \in Seq(Request)
        BY Parts DEF Clocking
    <3> QED BY <1>3, <3>1, ConcatProperties
  <2> DEFINE e == <<f>>
  <2>6. e \in Seq(Request) /\ Len(e) = 1 /\ e[1].s = i.does[m]
    BY <2>4
  <2>7. owed'[m] \o mout'[m] = b \o e
    BY <2>2
  <2> HIDE DEF r, b, asked, e, f
  <2>8. /\ Len(r) \in Nat /\ Len(b) \in Nat /\ Len(asked) = Len(r) + Len(b)
        /\ \A k \in 1 .. Len(b) : asked[Len(r) + k] = b[k]
    BY <1>1, <1>4, <1>5, ConcatAt
  <2>9. /\ Len(b \o e) = Len(b) + 1
        /\ \A k \in 1 .. Len(b) : (b \o e)[k] = b[k]
        /\ \A k \in 1 .. 1 : (b \o e)[Len(b) + k] = e[k]
    <3>1. e \in Seq(Request)
        BY <2>6
    <3>2. /\ Len(b \o e) = Len(b) + Len(e)
          /\ \A k \in 1 .. Len(b) : (b \o e)[k] = b[k]
          /\ \A k \in 1 .. Len(e) : (b \o e)[Len(b) + k] = e[k]
        BY <1>4, <3>1, ConcatAt
    <3> QED BY <2>6, <3>2
  <2>10. SUFFICES ASSUME Len(b \o e) > MaxPending, NEW k \in 1 .. Len(b \o e)
                  PROVE  (b \o e)[k].s = i.does[m]
    BY <2>7 DEF OneSlave
  <2>11. CASE k = Len(b) + 1
    <3>1. (b \o e)[Len(b) + 1] = e[1]
        BY <2>9
    <3> QED BY <2>6, <2>11, <3>1
  <2>12. CASE k # Len(b) + 1
    <3>1. k \in 1 .. Len(b) /\ Len(asked) >= MaxPending /\ Len(r) + k \in 1 .. Len(asked)
      <4>1. /\ Len(r) \in Nat /\ Len(b) \in Nat
            /\ Len(asked) = Len(r) + Len(b) /\ Len(b \o e) = Len(b) + 1
        BY <2>8, <2>9
      <4>2. k \in 1 .. Len(b) + 1 /\ Len(b) + 1 > MaxPending
        BY <2>10, <4>1
      <4> QED BY <1>7, <2>12, <4>1, <4>2
    <3>2. Len(r) + k \in DOMAIN asked
        BY <2>5, <3>1, LenProperties
    <3>3. asked[Len(r) + k].s = i.does[m]
        BY <2>1, <3>1, <3>2
    <3> QED BY <2>8, <2>9, <3>1, <3>3
  <2> QED BY <2>11, <2>12
<1> QED BY <1>8, <1>9

\* A master that goes on keeps its part of the invariant
LEMMA GoesOnLive ==
    ASSUME NEW i, Clocking(i), NEW m \in Masters, GoesOn(i, m), i.does[m] # End, ~ans'[m].err
    PROVE  LiveInv(m)'
<1>1. InFlight(m)' = owed'[m]
    BY OnItsWay
<1>2. count'[m].pending = Len(Returning(m)') + Len(AtSlave(m)')
  <2>1. count'[m].pending = Len(AtSlave(m)) + (IF Moves(i, m) THEN 1 ELSE 0)
    BY CountFollows
  <2>2. Len(Returning(m)') + Len(AtSlave(m)') = Len(AtSlave(m)) + (IF Moves(i, m) THEN 1 ELSE 0)
    BY SlaveSide
  <2> QED BY <2>1, <2>2
<1>3. grant'[m] \notin Slaves => count'[m].pending = 0
  <2>1. SUFFICES ASSUME grant'[m] \notin Slaves PROVE count'[m].pending = 0
    OBVIOUS
  <2>2. count[m].pending = 0
    BY <2>1, ChannelChanges DEF Clocking, XbarInv, MasterInv, LiveInv, GoesOn
  <2>3. Len(AtSlave(m)) = 0
    <3>1. AtSlave(m) \in Seq(Request) /\ Returning(m) \in Register
        BY Parts DEF Clocking
    <3>2. Len(AtSlave(m)) \in Nat /\ Len(Returning(m)) \in Nat
        BY <3>1, Registers, LenProperties
    <3>3. Len(Returning(m)) + Len(AtSlave(m)) = 0
        BY <2>2 DEF Clocking, XbarInv, MasterInv, LiveInv, GoesOn
    <3> QED BY <3>2, <3>3
  <2>4. ~Moves(i, m)
    <3>1. SUFFICES ASSUME Moves(i, m) PROVE FALSE
        OBVIOUS
    <3>2. grant[m] \in Slaves /\ request(m) = grant[m] /\ request(m) # 0
        BY <3>1, MovesToItsSlave, Numbers
    <3> QED BY <2>1, <3>2, ChannelChanges
  <2>5. count'[m].pending = Len(AtSlave(m)) + (IF Moves(i, m) THEN 1 ELSE 0)
    BY CountFollows
  <2> QED BY <2>3, <2>4, <2>5
<1>4. grant'[m] = Nobody => request(m)' = Nobody
  <2>1. SUFFICES ASSUME grant'[m] = Nobody PROVE request(m)' = Nobody
    OBVIOUS
  <2>2. grant[m] # Nobody
    <3>1. ans'[m] = Answer(i, m) /\ ~Off(i, m) /\ ~ans[m].err
        BY DEF Clocking, XbarClock, Xbar, GoesOn, Live, Off
    <3> QED BY <3>1 DEF Answer, NoAnswer
  <2>3. request(m) = Nobody
    BY <2>1, <2>2, ChannelChanges, Numbers
  <2>4. dcd[m] # <<>> /\ ~Moves(i, m)
    BY <2>3, MovesToItsSlave, Numbers DEF request
  <2>5. dcd'[m] = dcd[m] /\ mcyc'[m] /\ mcyc[m]
    BY <2>4, DecoderKeeps, MasterGoesOn DEF GoesOn, Live
  <2> QED BY <2>3, <2>5 DEF request
<1>5. skid'[m] # <<>> => dcd'[m] # <<>>
    BY DecoderKeeps
<1>6. OneSlave(owed'[m] \o mout'[m])
    BY StaysWithOneSlave
<1>7. OneSlave(owed[m] \o mout[m])'
    BY <1>6 DEF OneSlave
<1> QED BY <1>1, <1>2, <1>3, <1>4, <1>5, <1>7 DEF LiveInv

\* A cycle begins with nothing on the way
LEMMA CycleBegins ==
    ASSUME NEW i, Clocking(i), NEW m \in Masters, ~mcyc[m], mcyc'[m]
    PROVE  LiveInv(m)' /\ ~ans'[m].err
<1>1. Off(i, m)
    BY DEF Off
<1>2. grant'[m] = 0 /\ count'[m] = Empty /\ ans'[m] = NoAnswer /\ skid'[m] = <<>>
    BY <1>1 DEF Clocking, XbarClock, Xbar, Grant, Pending, Answer, Skid
<1>3. dcd'[m] = <<>>
    BY DEF Clocking, XbarClock, Xbar, Decoder, skd_stall, skd_stb
<1>4. mout[m] = <<>> /\ owed[m] = <<>>
    BY DEF Clocking, XbarInv, MasterInv
<1>5. \A q \in Seq(Request) : q \o <<>> = q /\ <<>> \o q = q
    BY ConcatEmptySeq
<1>6. <<>> \in Seq(Request) /\ Len(<<>>) = 0
    BY EmptySeq
<1>7. ~i.reset /\ i.does[m] # End /\ i.does[m] \in Does(m)
    BY InputsAre DEF Clocking, XbarClock, MastersStep, MasterDoes
<1>8. owed'[m] = <<>> /\ i.does[m] # Wait
      /\ mout'[m] = <<[m |-> m, s |-> i.does[m], n |-> issued[m] + 1]>>
    BY <1>4, <1>5, <1>6, <1>7 DEF Clocking, XbarClock, MastersStep, MasterDoes, Held
<1>9. Returning(m)' = <<>> /\ AtSlave(m)' = <<>>
    BY <1>2, Numbers DEF Returning, AtSlave, NoAnswer
<1>10. InFlight(m)' = owed'[m]
    BY <1>2, <1>3, <1>5, <1>6, <1>8, <1>9 DEF InFlight
<1>11. i.does[m] \in 1 .. Nobody
    BY <1>7, <1>8 DEF Does, Asks
<1>12. [m |-> m, s |-> i.does[m], n |-> issued[m] + 1] \in Request
    BY <1>11 DEF Request, Clocking, XbarInv, BusTypes
<1>13. mout'[m] \in Seq(Request) /\ Len(mout'[m]) = 1
    BY <1>8, <1>12
<1>14. OneSlave(owed[m] \o mout[m])'
  <2>1. owed'[m] \o mout'[m] = mout'[m]
    BY <1>5, <1>8, <1>13
  <2> QED BY <1>13, <2>1, XbarAssumption DEF OneSlave
<1>15. count'[m].pending = 0 /\ ~ans'[m].err
    BY <1>2 DEF Empty, NoAnswer
<1> QED BY <1>2, <1>6, <1>9, <1>10, <1>14, <1>15, Numbers DEF LiveInv

-----------------------------------------------------------------------------
(* Errors.                                                                 *)

\* What is joined begins as its first part
LEMMA StartOfJoined ==
    ASSUME NEW A, NEW x \in Seq(A), NEW y \in Seq(A), x # <<>>
    PROVE  x \o y \in Seq(A) /\ x \o y # <<>> /\ (x \o y)[1] = x[1]
<1>1. Len(x) \in Nat \ {0}
    BY EmptySeq, LenProperties
<1>2. /\ x \o y \in Seq(A) /\ Len(x \o y) = Len(x) + Len(y) /\ Len(y) \in Nat
      /\ \A k \in 1 .. Len(x) : (x \o y)[k] = x[k]
    BY ConcatAt
<1>3. Len(x \o y) # 0 /\ 1 \in 1 .. Len(x)
    BY <1>1, <1>2
<1> QED BY <1>2, <1>3, EmptySeq

\* The first request that is owed is the slave's first, or the decoder's
LEMMA FirstOwed ==
    ASSUME NEW i, Clocking(i), NEW m \in Masters, GoesOn(i, m), i.does[m] # End,
           NEW x \in Seq(Request), x # <<>>,
           x = AtSlave(m) \/ (AtSlave(m) = <<>> /\ x = dcd[m])
    PROVE  owed'[m] # <<>> /\ owed'[m][1] = x[1]
<1> DEFINE t == AtSlave(m)
           d == dcd[m]
           k == skid[m]
           w == Taken(m)
<1>1. t \in Seq(Request)
    BY Parts DEF Clocking
<1>2. d \in Seq(Request)
    BY Parts, Registers DEF Clocking
<1>3. k \in Seq(Request)
    BY Parts, Registers DEF Clocking
<1>4. w \in Seq(Request)
    BY DecoderKeeps, Registers
<1>5. owed'[m] = ((t \o d) \o k) \o w
    BY MasterGoesOn DEF Rest
<1>6. x = t \/ (t = <<>> /\ x = d)
    OBVIOUS
<1> HIDE DEF t, d, k, w
<1> DEFINE p == t \o d
<1>7. p \in Seq(Request) /\ p # <<>> /\ p[1] = x[1]
  <2>1. CASE x = t
    BY <1>2, <2>1, StartOfJoined
  <2>2. CASE t = <<>> /\ x = d
    <3>1. <<>> \o d = d
        BY <1>2, ConcatEmptySeq
    <3> QED BY <2>2, <3>1
  <2> QED BY <1>6, <2>1, <2>2
<1>8. owed'[m] = (p \o k) \o w
    BY <1>5
<1> HIDE DEF p
<1> DEFINE q == p \o k
<1>9. q \in Seq(Request) /\ q # <<>> /\ q[1] = x[1]
    BY <1>3, <1>7, StartOfJoined
<1>10. owed'[m] = q \o w
    BY <1>8
<1> HIDE DEF q
<1> QED BY <1>4, <1>9, <1>10, StartOfJoined

\* An error that does not come from the crossbar itself comes from the slave
LEMMA SlaveErrs ==
    ASSUME NEW i, NEW m \in Masters, ~Off(i, m), ~ans[m].err, grant[m] # Nobody,
           Answer(i, m).err
    PROVE  mgrant(m) /\ mindex[m] \in Slaves /\ Answers(i, mindex[m], "err")
<1> DEFINE e == mgrant(m) /\ mindex[m] \in Slaves /\ Answers(i, mindex[m], "err")
<1> HIDE DEF e
<1>1. ~(mgrant(m) /\ mindex[m] \in Slaves /\ Answers(i, mindex[m], "ack"))
    BY DEF Answer
<1>2. Answer(i, m) = [NoAnswer EXCEPT !.err = e]
    BY <1>1 DEF Answer, e
<1>3. Answer(i, m).err = e
    BY <1>2 DEF NoAnswer
<1> QED BY <1>3, Zenon DEF e

\* An error that a master gets is owed to it first
LEMMA ErrorIsDue ==
    ASSUME NEW i, Clocking(i), NEW m \in Masters, GoesOn(i, m), i.does[m] # End, ans'[m].err
    PROVE  owed'[m] # <<>> /\ owed'[m][1].s \in Faulty \union {Nobody}
<1>1. ~Off(i, m) /\ ~ans[m].err /\ mcyc[m]
    BY DEF GoesOn, Live, Off
<1>2. ans'[m] = Answer(i, m)
    BY DEF Clocking, XbarClock, Xbar
<1>3. LiveInv(m)
    BY DEF Clocking, XbarInv, MasterInv, GoesOn
<1>4. CASE grant[m] = Nobody
  <2>1. request(m) = Nobody
    BY <1>3, <1>4 DEF LiveInv
  <2>2. dcd[m] # <<>> /\ dcd[m][1].s = Nobody
    BY <2>1, Numbers DEF request
  <2>3. AtSlave(m) = <<>>
    BY <1>4, Numbers DEF AtSlave
  <2>4. dcd[m] \in Seq(Request)
    BY Parts, Registers DEF Clocking
  <2> QED BY <2>2, <2>3, <2>4, FirstOwed
<1>5. CASE grant[m] # Nobody
  <2> DEFINE s == grant[m]
  <2>1. mgrant(m) /\ mindex[m] \in Slaves /\ Answers(i, mindex[m], "err")
    BY <1>1, <1>2, <1>5, SlaveErrs
  <2>2. s \in Slaves /\ mindex[m] = s
    BY <1>5, <2>1, Parts, Numbers DEF mgrant, Clocking
  <2>3. scyc[s] /\ got[s] # <<>> /\ s \in Faulty
    BY <2>1, <2>2, InputsAre DEF Answers, Says, Clocking
  <2>4. got[s] \in Seq(Request)
    BY <2>2 DEF Clocking, XbarInv, BusTypes
  <2>5. out[s] \in Seq(Request)
    BY <2>2, Registers DEF Clocking, XbarInv, BusTypes
  <2>6. AtSlave(m) = got[s] \o out[s]
    BY <2>2, <2>3 DEF AtSlave
  <2>7. AtSlave(m) \in Seq(Request) /\ AtSlave(m) # <<>> /\ AtSlave(m)[1] = got[s][1]
    <3> DEFINE g == got[s]
               o == out[s]
    <3>1. g \in Seq(Request) /\ g # <<>>
        BY <2>3, <2>4
    <3>2. o \in Seq(Request)
        BY <2>5
    <3>3. AtSlave(m) = g \o o
        BY <2>6
    <3> HIDE DEF g, o
    <3>4. g \o o \in Seq(Request) /\ g \o o # <<>> /\ (g \o o)[1] = g[1]
        BY <3>1, <3>2, StartOfJoined
    <3> QED BY <3>3, <3>4 DEF g
  <2>8. got[s][1].s = s
    <3>1. Len(got[s]) \in Nat \ {0}
        BY <2>3, <2>4, EmptySeq, LenProperties
    <3> QED BY <2>2, <2>3, <3>1 DEF Clocking, XbarInv, SlaveInv
  <2> QED BY <2>3, <2>7, <2>8, FirstOwed
<1> QED BY <1>4, <1>5

\* The slave's cycle ends with the error it gives
LEMMA ErrorEndsSlaveCycle ==
    ASSUME NEW i, Clocking(i), NEW m \in Masters, ans'[m].err, grant'[m] \in Slaves
    PROVE  ~scyc'[grant'[m]]
<1>1. ans'[m] = Answer(i, m) /\ grant'[m] = Grant(i, m)
    BY DEF Clocking, XbarClock, Xbar
<1>2. ~Off(i, m) /\ ~ans[m].err
    BY <1>1 DEF Answer, NoAnswer
<1>3. GoesOn(i, m)
    BY <1>2 DEF GoesOn, Live, Off
<1>4. CASE grant'[m] # grant[m]
    BY <1>3, <1>4, NewChannelIsEmpty
<1>5. CASE grant'[m] = grant[m]
  <2>1. mgrant(m) /\ mindex[m] \in Slaves /\ Answers(i, mindex[m], "err")
    BY <1>1, <1>2, <1>5, Numbers, SlaveErrs
  <2>2. mindex[m] = grant[m]
    BY <1>5, Parts DEF Clocking
  <2> QED BY <1>5, <2>1, <2>2 DEF Clocking, XbarClock, Xbar, Scyc
<1> QED BY <1>4, <1>5

-----------------------------------------------------------------------------
(* The invariant's parts after a clock.                                    *)

\* What a master asks for in a clock
LEMMA NewRequest ==
    ASSUME NEW i, Clocking(i), NEW m \in Masters, i.does[m] # End, i.does[m] # Wait
    PROVE  /\ [m |-> m, s |-> i.does[m], n |-> issued[m] + 1] \in Request
           /\ <<[m |-> m, s |-> i.does[m], n |-> issued[m] + 1]>> \in Register
<1>1. i.does[m] \in 1 .. Nobody
    BY InputsAre DEF Clocking, Does, Asks
<1> DEFINE f == [m |-> m, s |-> i.does[m], n |-> issued[m] + 1]
<1>2. f \in Request
    BY <1>1 DEF Request, Clocking, XbarInv, BusTypes
<1> HIDE DEF f
<1>3. <<f>> \in Register
    BY <1>2 DEF Register
<1> QED BY <1>2, <1>3 DEF f

\* What a slave has after a clock
LEMMA SlaveHas ==
    ASSUME NEW i, Clocking(i), NEW s \in Slaves
    PROVE  /\ got'[s] = SlaveDoes(i, s) /\ out'[s] = Out(i, s)
           /\ got[s] \in Seq(Request) /\ out[s] \in Register
           /\ scyc[s] /\ i.answer[s] # "none" => got[s] # <<>>
           /\ s_stall(i, s) <=> out[s] # <<>> /\ i.stall[s]
           /\ i.stall[s] => out[s] # <<>>
<1>1. got'[s] = SlaveDoes(i, s) /\ out'[s] = Out(i, s)
    BY DEF Clocking, XbarClock, Xbar
<1>2. got[s] \in Seq(Request) /\ out[s] \in Register
    BY DEF Clocking, XbarInv, BusTypes
<1>3. i.answer[s] \in Says(s) /\ i.stall[s] \in Stalls(s)
    BY InputsAre DEF Clocking
<1> QED BY <1>1, <1>2, <1>3 DEF Says, Stalls, s_stall

\* The types of what belongs to a master
LEMMA MasterTypes ==
    ASSUME NEW i, Clocking(i), NEW m \in Masters
    PROVE  /\ mcyc'[m] \in BOOLEAN /\ mout'[m] \in Register /\ owed'[m] \in Seq(Request)
           /\ issued'[m] \in Nat
<1>1. /\ mcyc'[m] = MasterDoes(i, m).cyc /\ mout'[m] = MasterDoes(i, m).out
      /\ owed'[m] = MasterDoes(i, m).owed
      /\ issued'[m] = issued[m] + IF i.does[m] > Wait /\ ~i.reset THEN 1 ELSE 0
    BY DEF Clocking, XbarClock, MastersStep
<1>2. issued[m] \in Nat /\ mcyc[m] \in BOOLEAN
    BY DEF Clocking, XbarInv, BusTypes
<1>3. mout[m] \in Register /\ <<>> \in Register /\ owed[m] \in Seq(Request) /\ <<>> \in Seq(Request)
    BY Parts, Registers DEF Clocking
<1>4. issued'[m] \in Nat
    BY <1>1, <1>2
<1>5. CASE i.reset \/ i.does[m] = End
    BY <1>1, <1>3, <1>4, <1>5 DEF MasterDoes
<1>6. CASE ~(i.reset \/ i.does[m] = End)
  <2> DEFINE kept == IF ans[m].ack /\ owed[m] # <<>> THEN Tail(owed[m]) ELSE owed[m]
             w == Taken(m)
  <2>1. kept \in Seq(Request)
    BY <1>3, HeadTailProperties
  <2>2. w \in Seq(Request)
    BY <1>3, Registers DEF Taken
  <2>3. owed'[m] = kept \o w
    BY <1>1, <1>6 DEF MasterDoes, Taken
  <2>4. mcyc'[m] = (mcyc[m] \/ i.does[m] # Wait)
    BY <1>1, <1>6 DEF MasterDoes
  <2>5. mout'[m] \in Register
    <3>1. CASE i.does[m] # Wait
        BY <1>1, <1>6, <3>1, NewRequest DEF MasterDoes
    <3>2. CASE i.does[m] = Wait
        BY <1>1, <1>3, <1>6, <3>2 DEF MasterDoes
    <3> QED BY <3>1, <3>2
  <2> HIDE DEF kept, w
  <2>6. owed'[m] \in Seq(Request)
    BY <2>1, <2>2, <2>3, ConcatProperties
  <2> QED BY <1>2, <1>4, <2>4, <2>5, <2>6
<1> QED BY <1>5, <1>6

\* An answer has its type, and an acknowledgement its request
LEMMA AnswerTypes ==
    ASSUME NEW i, Clocking(i), NEW m \in Masters
    PROVE  /\ Answer(i, m) \in [ack : BOOLEAN, err : BOOLEAN, of : Register]
           /\ Answer(i, m).ack => Answer(i, m).of # <<>>
<1> DEFINE s == mindex[m]
           e == mgrant(m) /\ s \in Slaves /\ Answers(i, s, "err")
           a == mgrant(m) /\ s \in Slaves /\ Answers(i, s, "ack")
<1> DEFINE Kinds == [ack : BOOLEAN, err : BOOLEAN, of : Register]
<1>1. <<>> \in Register
    BY Registers
<1>2. ASSUME NEW b \in BOOLEAN
      PROVE  [NoAnswer EXCEPT !.err = b] \in Kinds
    BY <1>1 DEF NoAnswer
<1>3. ASSUME NEW b \in BOOLEAN
      PROVE  [NoAnswer EXCEPT !.err = b].ack = FALSE
    BY DEF NoAnswer
<1>4. NoAnswer \in Kinds /\ ~NoAnswer.ack
    BY <1>1 DEF NoAnswer
<1>5. CASE Off(i, m) \/ ans[m].err
  <2>1. Answer(i, m) = NoAnswer
    BY <1>5 DEF Answer
  <2> QED BY <1>4, <2>1
<1>6. CASE ~(Off(i, m) \/ ans[m].err) /\ grant[m] = Nobody
  <2>1. Answer(i, m) = [NoAnswer EXCEPT !.err = TRUE]
    BY <1>6 DEF Answer
  <2> QED BY <1>2, <1>3, <2>1
<1>7. CASE ~(Off(i, m) \/ ans[m].err) /\ grant[m] # Nobody /\ a
  <2>1. Answer(i, m) = [ack |-> TRUE, err |-> FALSE, of |-> <<Head(got[s])>>]
    BY <1>7 DEF Answer
  <2>2. got[s] \in Seq(Request) /\ got[s] # <<>>
    BY <1>7, InputsAre DEF Answers, Says, Clocking, XbarInv, BusTypes
  <2> DEFINE h == Head(got[s])
  <2>3. h \in Request
    BY <2>2, HeadFirst
  <2>4. Answer(i, m) = [ack |-> TRUE, err |-> FALSE, of |-> <<h>>]
    BY <2>1
  <2> HIDE DEF h
  <2>5. <<h>> \in Register /\ <<h>> # <<>>
    BY <2>3 DEF Register
  <2> QED BY <2>4, <2>5
<1>8. CASE ~(Off(i, m) \/ ans[m].err) /\ grant[m] # Nobody /\ ~a
  <2>1. e \in BOOLEAN
    OBVIOUS
  <2>2. Answer(i, m) = [NoAnswer EXCEPT !.err = e]
    BY <1>8 DEF Answer
  <2> HIDE DEF e
  <2> QED BY <1>2, <1>3, <2>1, <2>2
<1> QED BY <1>5, <1>6, <1>7, <1>8

\* The types of what belongs to a slave
LEMMA SlaveTypes ==
    ASSUME NEW i, Clocking(i), NEW s \in Slaves
    PROVE  out'[s] \in Register /\ got'[s] \in Seq(Request) /\ scyc'[s] \in BOOLEAN
<1> DEFINE g == got[s]
           o == out[s]
           gg == IF i.answer[s] = "none" THEN g ELSE Tail(g)
           oo == IF i.stall[s] THEN <<>> ELSE o
<1>1. g \in Seq(Request) /\ o \in Register /\ <<>> \in Register /\ <<>> \in Seq(Request)
    BY SlaveHas, Registers
<1>2. sindex[s] \in Masters
    BY DEF Clocking, XbarInv, GrantInv, RegTypes
<1>3. dcd[sindex[s]] \in Register
    BY <1>2, Parts DEF Clocking
<1>4. out'[s] \in Register
    BY <1>1, <1>3, SlaveHas DEF Out
<1>5. got'[s] = IF scyc[s] THEN gg \o oo ELSE <<>>
    BY SlaveHas DEF SlaveDoes
<1>6. oo \in Seq(Request)
    BY <1>1, Registers
<1>7. scyc[s] => gg \in Seq(Request)
  <2>1. scyc[s] /\ i.answer[s] # "none" => g # <<>>
    BY SlaveHas
  <2> QED BY <1>1, <2>1, HeadTailProperties
<1>8. scyc'[s] = Scyc(i, s)
    BY DEF Clocking, XbarClock, Xbar
<1> HIDE DEF g, o, gg, oo
<1>9. got'[s] \in Seq(Request)
    BY <1>1, <1>5, <1>6, <1>7, ConcatProperties
<1>10. Scyc(i, s) \in BOOLEAN
    BY DEF Scyc
<1> QED BY <1>4, <1>8, <1>9, <1>10

\* mindex is a slave's number or Nobody's
LEMMA MindexTypes ==
    ASSUME NEW i, Clocking(i), NEW m \in Masters
    PROVE  Mindex(m) \in 1 .. Nobody
<1>1. mindex[m] \in 1 .. Nobody
    BY DEF Clocking, XbarInv, BusTypes
<1>2. CASE \E s \in 1 .. Nobody : regrant(m, s)
  <2>1. request(m) \in 1 .. Nobody
    BY <1>2 DEF regrant
  <2> QED BY <1>2, <2>1 DEF Mindex
<1> QED BY <1>1, <1>2 DEF Mindex

\* A clock keeps the types
LEMMA ClockBusTypes ==
    ASSUME NEW i, Clocking(i)
    PROVE  BusTypes'
<1>1. \A m \in Masters : Skid(i, m) \in Register /\ Decoder(i, m) \in Register
  <2>1. TAKE m \in Masters
  <2>2. skid[m] \in Register /\ dcd[m] \in Register /\ mout[m] \in Register /\ <<>> \in Register
    BY Parts, Registers DEF Clocking
  <2> QED BY <2>2 DEF Skid, Decoder
<1>2. /\ skid' = [m \in Masters |-> Skid(i, m)] /\ dcd' = [m \in Masters |-> Decoder(i, m)]
      /\ mindex' = [m \in Masters |-> Mindex(m)] /\ ans' = [m \in Masters |-> Answer(i, m)]
    BY DEF Clocking, XbarClock, Xbar
<1>3. skid' \in [Masters -> Register] /\ dcd' \in [Masters -> Register]
    BY <1>1, <1>2
<1>4. mindex' \in [Masters -> 1 .. Nobody]
    BY <1>2, MindexTypes
<1>5. /\ ans' \in [Masters -> [ack : BOOLEAN, err : BOOLEAN, of : Register]]
      /\ \A m \in Masters : ans'[m].ack => ans'[m].of # <<>>
    BY <1>2, AnswerTypes
<1>6. scyc' = [s \in Slaves |-> Scyc(i, s)] /\ out' = [s \in Slaves |-> Out(i, s)]
      /\ got' = [s \in Slaves |-> SlaveDoes(i, s)]
    BY DEF Clocking, XbarClock, Xbar
<1>7. /\ out' \in [Slaves -> Register] /\ got' \in [Slaves -> Seq(Request)]
      /\ scyc' \in [Slaves -> BOOLEAN]
    BY <1>6, SlaveTypes
<1>8. /\ mcyc' = [m \in Masters |-> mcyc'[m]] /\ mout' = [m \in Masters |-> mout'[m]]
      /\ owed' = [m \in Masters |-> owed'[m]] /\ issued' = [m \in Masters |-> issued'[m]]
    BY DEF Clocking, XbarClock, MastersStep
<1>9. /\ mcyc' \in [Masters -> BOOLEAN] /\ mout' \in [Masters -> Register]
      /\ owed' \in [Masters -> Seq(Request)] /\ issued' \in [Masters -> Nat]
    BY <1>8, MasterTypes
<1> QED BY <1>3, <1>4, <1>5, <1>7, <1>9 DEF BusTypes

-----------------------------------------------------------------------------
(* Whose a request is.                                                     *)

\* The requests of q are master m's to slave s
Are(q, s, m) == \A k \in 1 .. Len(q) : q[k].s = s /\ q[k].m = m

\* They stay so when they are joined
LEMMA AreJoined ==
    ASSUME NEW g \in Seq(Request), NEW o \in Seq(Request), NEW s, NEW m,
           Are(g, s, m), Are(o, s, m)
    PROVE  Are(g \o o, s, m)
<1>1. /\ Len(g) \in Nat /\ Len(o) \in Nat /\ Len(g \o o) = Len(g) + Len(o)
      /\ \A k \in 1 .. Len(g) : (g \o o)[k] = g[k]
      /\ \A k \in 1 .. Len(o) : (g \o o)[Len(g) + k] = o[k]
    BY ConcatAt
<1>2. SUFFICES ASSUME NEW k \in 1 .. Len(g \o o)
               PROVE  (g \o o)[k].s = s /\ (g \o o)[k].m = m
    BY DEF Are
<1>3. CASE k \in 1 .. Len(g)
    BY <1>1, <1>3 DEF Are
<1>4. CASE k \notin 1 .. Len(g)
  <2> DEFINE j == k - Len(g)
  <2>1. j \in 1 .. Len(o) /\ k = Len(g) + j
    BY <1>1, <1>2, <1>4
  <2> HIDE DEF j
  <2>2. (g \o o)[k] = o[j]
    BY <1>1, <2>1
  <2> QED BY <2>1, <2>2 DEF Are
<1> QED BY <1>3, <1>4

\* They stay so when the first is answered
LEMMA AreTail ==
    ASSUME NEW g \in Seq(Request), g # <<>>, NEW s, NEW m, Are(g, s, m)
    PROVE  Are(Tail(g), s, m)
<1>1. /\ Len(g) \in Nat \ {0} /\ Len(Tail(g)) = Len(g) - 1
      /\ \A k \in 1 .. Len(Tail(g)) : Tail(g)[k] = g[k + 1]
    BY HeadTailProperties, EmptySeq, LenProperties
<1>2. SUFFICES ASSUME NEW k \in 1 .. Len(Tail(g))
               PROVE  Tail(g)[k].s = s /\ Tail(g)[k].m = m
    BY DEF Are
<1>3. k + 1 \in 1 .. Len(g)
    BY <1>1, <1>2
<1> QED BY <1>1, <1>3 DEF Are

\* The registers of a master hold its own requests
LEMMA ClockOwn ==
    ASSUME NEW i, Clocking(i), NEW m \in Masters
    PROVE  Own(m)'
<1>1. Own(m)
    BY DEF Clocking, XbarInv, MasterInv
<1>2. skid'[m] = Skid(i, m) /\ dcd'[m] = Decoder(i, m) /\ mout'[m] = MasterDoes(i, m).out
    BY DEF Clocking, XbarClock, Xbar, MastersStep
<1>3. skid'[m] \in {<<>>, skid[m], mout[m]} /\ dcd'[m] \in {<<>>, skid[m], dcd[m], mout[m]}
    BY <1>2 DEF Skid, Decoder
<1> DEFINE f == [m |-> m, s |-> i.does[m], n |-> issued[m] + 1]
<1>4. mout'[m] \in {<<>>, mout[m], <<f>>}
    BY <1>2 DEF MasterDoes
<1>5. f.m = m
    OBVIOUS
<1> HIDE DEF f
<1>6. <<f>>[1].m = m
    BY <1>5
<1> QED BY <1>1, <1>3, <1>4, <1>6 DEF Own

\* The flags of a count stay its own
LEMMA ClockFlags ==
    ASSUME NEW i, Clocking(i), NEW m \in Masters
    PROVE  FlagsAreTrue(m)'
<1>1. CASE Off(i, m) \/ ans[m].err
  <2>1. count'[m] = Empty
    BY <1>1 DEF Clocking, XbarClock, Xbar, Pending
  <2> QED BY <2>1, XbarAssumption DEF FlagsAreTrue, Empty
<1>2. CASE ~(Off(i, m) \/ ans[m].err)
    BY <1>2, CountFollows DEF GoesOn, Live, Off
<1> QED BY <1>1, <1>2

\* A master's part
LEMMA ClockMaster ==
    ASSUME NEW i, Clocking(i), NEW m \in Masters
    PROVE  MasterInv(m)'
<1>1. Own(m)' /\ FlagsAreTrue(m)'
    BY ClockOwn, ClockFlags
<1>2. ans'[m].err /\ grant'[m] \in Slaves => ~scyc'[grant'[m]]
    BY ErrorEndsSlaveCycle
<1>3. ~mcyc'[m] => mout'[m] = <<>> /\ owed'[m] = <<>>
  <2>1. /\ mcyc'[m] = MasterDoes(i, m).cyc /\ mout'[m] = MasterDoes(i, m).out
        /\ owed'[m] = MasterDoes(i, m).owed
    BY DEF Clocking, XbarClock, MastersStep
  <2>2. CASE i.reset \/ i.does[m] = End
    BY <2>1, <2>2 DEF MasterDoes
  <2>3. CASE ~(i.reset \/ i.does[m] = End) /\ ~mcyc[m] /\ i.does[m] = Wait
    <3>1. mout[m] = <<>> /\ owed[m] = <<>> /\ ~Held(m)
        BY <2>3 DEF Clocking, XbarInv, MasterInv, Held
    <3>2. <<>> \o <<>> = <<>>
        BY ConcatEmptySeq, EmptySeq
    <3> QED BY <2>1, <2>3, <3>1, <3>2 DEF MasterDoes
  <2>4. CASE ~(i.reset \/ i.does[m] = End) /\ (mcyc[m] \/ i.does[m] # Wait)
    BY <2>1, <2>4 DEF MasterDoes
  <2> QED BY <2>2, <2>3, <2>4
<1>4. ASSUME mcyc'[m], mcyc[m]
      PROVE  GoesOn(i, m) /\ i.does[m] # End
  <2>1. ~i.reset /\ i.does[m] # End
    BY <1>4 DEF Clocking, XbarClock, MastersStep, MasterDoes
  <2>2. i.does[m] \in Does(m)
    BY InputsAre DEF Clocking
  <2> QED BY <1>4, <2>1, <2>2 DEF Does, GoesOn, Live
<1>5. mcyc'[m] /\ ans'[m].err => owed'[m] # <<>> /\ owed'[m][1].s \in Faulty \union {Nobody}
    BY <1>4, CycleBegins, ErrorIsDue
<1>6. mcyc'[m] /\ ~ans'[m].err => LiveInv(m)'
    BY <1>4, CycleBegins, GoesOnLive
<1> QED BY <1>1, <1>2, <1>3, <1>5, <1>6 DEF MasterInv, Live

\* A slave that is let go in its cycle has nothing
LEMMA LetGoIsEmpty ==
    ASSUME NEW i, Clocking(i), NEW s \in Slaves, scyc'[s], ~sgrant'[s]
    PROVE  got'[s] = <<>> /\ out'[s] = <<>>
<1> DEFINE m == sindex[s]
<1>1. sgrant[s] /\ mcyc[m] /\ ~i.reset
    BY DEF Clocking, XbarClock, Xbar, Scyc
<1>2. request(m) # s /\ m_stb(m) /\ count[m].empty
    BY <1>1 DEF Clocking, XbarClock, Xbar, Sgrant
<1>3. m \in Masters /\ grant[m] = s
    BY <1>1 DEF Clocking, XbarInv, GrantInv, GrantsAgree, RegTypes
<1>4. (scyc[s] => got[s] = <<>>) /\ out[s] = <<>>
  <2>1. CASE ~scyc[s]
    BY <2>1 DEF Clocking, XbarInv, SlaveInv
  <2>2. CASE scyc[s]
    <3>1. ~ans[m].err
        BY <1>3, <2>2 DEF Clocking, XbarInv, MasterInv
    <3>2. count[m].pending = 0 /\ LiveInv(m)
      <4>1. MasterInv(m) /\ Live(m)
        BY <1>1, <1>3, <3>1 DEF Clocking, XbarInv, Live
      <4> QED BY <1>2, <4>1 DEF MasterInv, FlagsAreTrue
    <3>3. AtSlave(m) = got[s] \o out[s] /\ AtSlave(m) \in Seq(Request) /\ Len(Returning(m)) \in Nat
      <4>1. AtSlave(m) \in Seq(Request) /\ Returning(m) \in Register
        BY <1>3, Parts DEF Clocking
      <4>2. Len(Returning(m)) \in Nat
        BY <4>1, Registers
      <4> QED BY <1>3, <2>2, <4>1, <4>2 DEF AtSlave
    <3>4. Len(AtSlave(m)) = 0
      <4>1. Len(AtSlave(m)) \in Nat
        BY <3>3, LenProperties
      <4>2. Len(Returning(m)) + Len(AtSlave(m)) = 0
        BY <3>2 DEF LiveInv
      <4>3. Len(Returning(m)) \in Nat
        BY <3>3
      <4> QED BY <4>1, <4>2, <4>3
    <3>5. got[s] \o out[s] = <<>>
        BY <3>3, <3>4, EmptySeq
    <3>6. got[s] \in Seq(Request) /\ out[s] \in Seq(Request)
        BY SlaveHas, Registers
    <3> QED BY <3>5, <3>6, ConcatEqualIffEmpty
  <2> QED BY <2>1, <2>2
<1>5. ~s_stall(i, s) /\ ~i.stall[s] /\ (scyc[s] => i.answer[s] = "none")
    BY <1>4, SlaveHas
<1>6. out'[s] = <<>>
    BY <1>2, <1>5, SlaveHas DEF Out
<1>7. got'[s] = <<>>
  <2>1. <<>> \o <<>> = <<>>
    BY ConcatEmptySeq, EmptySeq
  <2> QED BY <1>4, <1>5, <2>1, SlaveHas DEF SlaveDoes
<1> QED BY <1>6, <1>7

\* A slave's part
LEMMA ClockSlave ==
    ASSUME NEW i, Clocking(i), NEW s \in Slaves
    PROVE  SlaveInv(s)'
<1>1. ~scyc'[s] => out'[s] = <<>>
    BY SlaveHas DEF Clocking, XbarClock, Xbar, Out
<1>2. scyc'[s] /\ ~sgrant'[s] => got'[s] = <<>> /\ out'[s] = <<>>
    BY LetGoIsEmpty
<1>3. ASSUME scyc'[s]
      PROVE  Are(got'[s], s, sindex'[s]) /\ Are(out'[s], s, sindex'[s])
  <2> DEFINE m == sindex[s]
             g == got[s]
             o == out[s]
             gg == IF i.answer[s] = "none" THEN g ELSE Tail(g)
             oo == IF i.stall[s] THEN <<>> ELSE o
  <2>1. sgrant[s] /\ Scyc(i, s)
    BY <1>3 DEF Clocking, XbarClock, Xbar, Scyc
  <2>2. sindex'[s] = m /\ m \in Masters
    BY <2>1, SindexIs DEF Clocking, XbarInv, GrantInv, RegTypes, XbarClock, Xbar
  <2>3. scyc[s] => Are(g, s, m) /\ Are(o, s, m)
    BY DEF Clocking, XbarInv, SlaveInv, Are
  <2>4. ~scyc[s] => o = <<>>
    BY DEF Clocking, XbarInv, SlaveInv
  <2>5. Are(<<>>, s, m)
    BY EmptySeq DEF Are
  <2>6. g \in Seq(Request) /\ o \in Seq(Request) /\ <<>> \in Seq(Request)
    BY SlaveHas, Registers, EmptySeq
  <2>7. Are(got'[s], s, m)
    <3>1. CASE ~scyc[s]
        BY <2>5, <3>1, SlaveHas DEF SlaveDoes
    <3>2. CASE scyc[s]
      <4>1. got'[s] = gg \o oo
        BY <3>2, SlaveHas DEF SlaveDoes
      <4>2. oo \in Seq(Request) /\ Are(oo, s, m)
        BY <2>3, <2>5, <2>6, <3>2
      <4>3. gg \in Seq(Request) /\ Are(gg, s, m)
        <5>1. i.answer[s] # "none" => g # <<>>
            BY <3>2, SlaveHas
        <5> HIDE DEF g
        <5> QED BY <2>3, <2>6, <3>2, <5>1, AreTail, HeadTailProperties
      <4> HIDE DEF gg, oo
      <4>4. Are(gg \o oo, s, m)
        BY <4>2, <4>3, AreJoined
      <4> QED BY <4>1, <4>4
    <3> QED BY <3>1, <3>2
  <2>8. Are(out'[s], s, m)
    <3>1. CASE s_stall(i, s)
      <4>1. out'[s] = o /\ scyc[s]
        BY <2>1, <2>4, <3>1, SlaveHas DEF Out
      <4> QED BY <2>3, <4>1
    <3>2. CASE ~s_stall(i, s) /\ request(m) = s /\ ~count[m].full
      <4>1. out'[s] = dcd[m] /\ dcd[m] \in Register
        BY <2>1, <2>2, <3>2, SlaveHas, Parts DEF Out, Clocking
      <4>2. dcd[m] # <<>> /\ dcd[m][1].s = s
        BY <3>2, Numbers DEF request
      <4>3. dcd[m][1].m = m
        BY <2>2, <4>2 DEF Clocking, XbarInv, MasterInv, Own
      <4> QED BY <4>1, <4>2, <4>3, Registers DEF Are
    <3>3. CASE ~s_stall(i, s) /\ ~(request(m) = s /\ ~count[m].full)
      <4>1. out'[s] = <<>>
        BY <2>1, <3>3, SlaveHas DEF Out
      <4> QED BY <2>5, <4>1
    <3> QED BY <3>1, <3>2, <3>3
  <2> QED BY <2>2, <2>7, <2>8
<1> QED BY <1>1, <1>2, <1>3 DEF SlaveInv, Are

-----------------------------------------------------------------------------
(* The theorem.                                                            *)

\* The invariant holds at first
LEMMA InitXbar == XbarInit => XbarInv
<1> SUFFICES ASSUME XbarInit PROVE XbarInv
    OBVIOUS
<1>1. <<>> \in Register /\ <<>> \in Seq(Request)
    BY Registers, EmptySeq
<1>2. BusTypes
    BY <1>1, XbarAssumption DEF XbarInit, BusTypes, NoAnswer
<1>3. \A m \in Masters : MasterInv(m)
    BY Numbers, XbarAssumption DEF XbarInit, MasterInv, Own, FlagsAreTrue, Live, Empty, NoAnswer
<1>4. \A s \in Slaves : SlaveInv(s)
    BY DEF XbarInit, SlaveInv
<1> QED BY <1>2, <1>3, <1>4, InitGrants DEF XbarInv

\* A clock keeps the invariant
LEMMA ClockXbar ==
    ASSUME NEW i, Clocking(i)
    PROVE  XbarInv'
<1>1. GrantInv'
    BY ClockGrants DEF Clocking, XbarInv
<1> QED BY <1>1, ClockBusTypes, ClockMaster, ClockSlave DEF XbarInv

\* What the invariant says of answers
LEMMA InvariantAnswers == XbarInv => AnswersReachTheirMaster
<1> SUFFICES ASSUME XbarInv PROVE AnswersReachTheirMaster
    OBVIOUS
<1>1. GrantsAgree
    BY DEF XbarInv, GrantInv
<1>2. ASSUME NEW m \in Masters, mcyc[m]
      PROVE  IF ans[m].err THEN owed[m] # <<>> /\ Head(owed[m]).s \in Faulty \union {Nobody}
             ELSE InFlight(m) = owed[m]
  <2>1. CASE ans[m].err
    <3>1. owed[m] # <<>> /\ owed[m][1].s \in Faulty \union {Nobody} /\ owed[m] \in Seq(Request)
        BY <1>2, <2>1, Parts DEF XbarInv, MasterInv
    <3>2. Head(owed[m]) = owed[m][1]
        BY <3>1, HeadFirst
    <3> QED BY <2>1, <3>1, <3>2
  <2>2. CASE ~ans[m].err
    BY <1>2, <2>2 DEF XbarInv, MasterInv, LiveInv, Live
  <2> QED BY <2>1, <2>2
<1>3. ASSUME NEW s \in Slaves, scyc[s], NEW k \in DOMAIN got[s]
      PROVE  got[s][k].s = s /\ got[s][k].m = sindex[s]
  <2>1. got[s] \in Seq(Request)
    BY DEF XbarInv, BusTypes
  <2>2. k \in 1 .. Len(got[s])
    BY <1>3, <2>1, LenProperties
  <2> QED BY <1>3, <2>2 DEF XbarInv, SlaveInv
<1> QED BY <1>1, <1>2, <1>3 DEF AnswersReachTheirMaster

(* A master gets the answers to its own requests, in order, each once, from *)
(* the slaves it addressed (wbxbar.v, all of its always blocks, with its    *)
(* skidbuffer.v and addrdecode.v), through any change of its channel, any   *)
(* reset and any cycle that is cut short; and an error is given for a       *)
(* request to a slave that may give one or to no slave.                     *)
THEOREM AnswersAreTheMasters == XbarSpec => []AnswersReachTheirMaster
<1>1. XbarInv /\ [XbarNext]_xbarVars => XbarInv'
  <2>1. SUFFICES ASSUME XbarInv, [XbarNext]_xbarVars PROVE XbarInv'
    OBVIOUS
  <2>2. CASE XbarNext
    <3>1. PICK i \in Inputs : XbarClock(i)
        BY <2>2 DEF XbarNext
    <3> QED BY <2>1, <3>1, ClockXbar DEF Clocking
  <2>3. CASE UNCHANGED xbarVars
    <3> USE <2>1, <2>3 DEF xbarVars, xbarRegs
    <3>1. GrantInv' /\ BusTypes'
        BY DEF XbarInv, GrantInv, RegTypes, GrantsAgree, BusTypes
    <3>2. ASSUME NEW m \in Masters
          PROVE  MasterInv(m)'
      <4>1. Own(m)' /\ FlagsAreTrue(m)'
        BY DEF XbarInv, MasterInv, Own, FlagsAreTrue
      <4>2. InFlight(m)' = InFlight(m) /\ Returning(m)' = Returning(m) /\ AtSlave(m)' = AtSlave(m)
            /\ request(m)' = request(m)
        BY DEF InFlight, Returning, AtSlave, request
      <4>3. LiveInv(m)' <=> LiveInv(m)
        BY <4>2 DEF LiveInv, OneSlave
      <4>4. MasterInv(m)
        BY DEF XbarInv
      <4> QED BY <4>1, <4>3, <4>4 DEF MasterInv, Live
    <3>3. ASSUME NEW s \in Slaves
          PROVE  SlaveInv(s)'
      <4>1. SlaveInv(s)
        BY DEF XbarInv
      <4> QED BY <4>1 DEF SlaveInv
    <3> QED BY <3>1, <3>2, <3>3 DEF XbarInv
  <2> QED BY <2>1, <2>2, <2>3
<1> QED BY InitXbar, InvariantAnswers, <1>1, PTL DEF XbarSpec
=============================================================================
