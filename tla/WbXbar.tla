------------------------------- MODULE WbXbar -------------------------------
(***************************************************************************)
(* wbxbar.v (rtl/catzip), the crossbar between the masters and the slaves  *)
(* of the bus, with its skidbuffer.v and addrdecode.v, clock by clock, in  *)
(* the form main.v builds: registered decoder, OPT_DBLBUFFER, no time-out. *)
(*                                                                         *)
(* A request is its master, the slave its address decodes to (Nobody when  *)
(* to none) and a number.  A register of requests with its valid bit is a  *)
(* sequence of at most one, and a vector with at most one bit set (request,*)
(* grant) is the number of the bit, 0 when none is.  NS is not a power of  *)
(* two, so that an index of LGNS bits can be Nobody.                       *)
(***************************************************************************)
EXTENDS Integers, Sequences

CONSTANTS NM, NS,
          MaxPending,   \* (1 << LGMAXBURST) - 1
          Faulty,       \* the slaves that may answer with an error
          MaxIssued     \* BOUND: requests of each master

ASSUME XbarAssumption ==
    /\ NM \in Nat /\ NM >= 2 /\ NS \in Nat \ {0} /\ Faulty \subseteq 1 .. NS
    /\ MaxPending \in Nat \ {0, 1} /\ MaxIssued \in [1 .. NM -> Nat]

Masters == 1 .. NM
Slaves == 1 .. NS
Nobody == NS + 1

VARIABLES
    skid, dcd, grant, mindex, count, ans,    \* the crossbar's, for each master
    sgrant, sindex, scyc, out,               \* the crossbar's, for each slave
    mcyc, mout, owed, issued,                \* the masters
    got                                      \* the slaves

xbarRegs == <<skid, dcd, grant, mindex, count, ans, sgrant, sindex, scyc, out>>
xbarVars == <<xbarRegs, mcyc, mout, owed, issued, got>>

Empty == [pending |-> 0, nearfull |-> FALSE, full |-> FALSE, empty |-> TRUE]
NoAnswer == [ack |-> FALSE, err |-> FALSE, of |-> <<>>]

-----------------------------------------------------------------------------
(* Wires.  An input i of a clock has the slaves' side: stall and answer.   *)

request(m) == IF mcyc[m] /\ dcd[m] # <<>> THEN dcd[m][1].s ELSE 0
m_stb(m) == mcyc[m] /\ dcd[m] # <<>> /\ ~count[m].full
mgrant(m) == grant[m] # 0
s_stall(i, s) == out[s] # <<>> /\ i.stall[s]
Answers(i, s, a) == scyc[s] /\ i.answer[s] = a

m_stall(i, m) ==
    /\ ~ans[m].err
    /\ IF grant[m] = Nobody THEN TRUE
       ELSE IF mgrant(m) /\ request(m) = mindex[m]
            THEN count[m].full \/ (mindex[m] \in Slaves => s_stall(i, mindex[m]))
       ELSE m_stb(m)

skd_stall(i, m) == dcd[m] # <<>> /\ m_stall(i, m) /\ mcyc[m]
skd_stb(m) == mcyc[m] /\ (mout[m] # <<>> \/ skid[m] # <<>>)

\* A master of lower number asks for the slave too
requested(m, s) ==
    \E l \in 1 .. m - 1 :
        request(l) = s /\ (grant[l] = s \/ ~mgrant(l) \/ count[l].empty)

\* A master may leave its channel with answers on their way
MutStay(m) == request(m) # 0 /\ request(m) = grant[m]

stay_on_channel(m) ==
    \/ request(m) # 0 /\ request(m) = grant[m]
    \/ mgrant(m) /\ ~count[m].empty

channel_is_available(m) ==
    \/ request(m) \in Slaves /\ ~sgrant[request(m)] /\ ~requested(m, request(m))
    \/ request(m) = Nobody

\* The channel master m gets or keeps in this clock
regrant(m, s) ==
    /\ request(m) = s
    /\ grant[m] = s \/ (s \in Slaves /\ ~sgrant[s] /\ ~requested(m, s))
    /\ ~(mgrant(m) /\ ~count[m].empty)

-----------------------------------------------------------------------------
(* Registers.  A master that ends its cycle clears its own.                *)

Off(i, m) == i.reset \/ ~mcyc[m]

Skid(i, m) ==
    IF Off(i, m) THEN <<>>
    ELSE IF mout[m] # <<>> /\ skid[m] = <<>> /\ skd_stall(i, m) THEN mout[m]
    ELSE IF ~skd_stall(i, m) THEN <<>> ELSE skid[m]

Decoder(i, m) ==
    IF i.reset THEN <<>>
    ELSE IF skd_stall(i, m) THEN dcd[m]
    ELSE IF ~skd_stb(m) THEN <<>>
    ELSE IF skid[m] # <<>> THEN skid[m] ELSE mout[m]

Grant(i, m) ==
    IF Off(i, m) THEN 0
    ELSE IF stay_on_channel(m) THEN grant[m]
    ELSE IF channel_is_available(m) THEN request(m)
    ELSE IF m_stb(m) THEN 0 ELSE grant[m]

Mindex(m) ==
    IF \E s \in 1 .. Nobody : regrant(m, s) THEN request(m) ELSE mindex[m]

\* What is asked and not answered, at most MaxPending
Pending(i, m) ==
    LET c == count[m]
        push == m_stb(m) /\ ~m_stall(i, m)
    IN  IF Off(i, m) \/ ans[m].err THEN Empty
        ELSE IF push = ans[m].ack THEN c
        ELSE IF push
             THEN [pending |-> c.pending + 1, nearfull |-> c.pending >= MaxPending - 2,
                   full |-> c.nearfull, empty |-> FALSE]
        ELSE [pending |-> c.pending - 1, nearfull |-> c.full,
              full |-> FALSE, empty |-> c.pending = 1]

\* A request nobody decodes is answered with an error
Answer(i, m) ==
    IF Off(i, m) \/ ans[m].err THEN NoAnswer
    ELSE IF grant[m] = Nobody THEN [NoAnswer EXCEPT !.err = TRUE]
    ELSE IF mgrant(m) /\ mindex[m] \in Slaves /\ Answers(i, mindex[m], "ack")
         THEN [ack |-> TRUE, err |-> FALSE, of |-> <<Head(got[mindex[m]])>>]
    ELSE [NoAnswer EXCEPT !.err = mgrant(m) /\ mindex[m] \in Slaves
                                  /\ Answers(i, mindex[m], "err")]

Sgrant(i, s) ==
    LET m == sindex[s]
        drop == i.reset \/ (sgrant[s] /\ (\/ ~mcyc[m]
                                          \/ request(m) # s /\ m_stb(m) /\ count[m].empty))
    IN  ~drop /\ (sgrant[s] \/ \E l \in Masters :
                                   request(l) = s /\ (~mgrant(l) \/ count[l].empty))

Sindex(s) ==
    LET new == {m \in Masters : regrant(m, s)}
    IN  IF new = {} THEN sindex[s] ELSE CHOOSE m \in new : TRUE

Scyc(i, s) == sgrant[s] /\ mcyc[sindex[s]] /\ ~i.reset /\ ~Answers(i, s, "err")

Out(i, s) ==
    IF ~Scyc(i, s) THEN <<>>
    ELSE IF s_stall(i, s) THEN out[s]
    ELSE IF request(sindex[s]) = s /\ ~count[sindex[s]].full THEN dcd[sindex[s]] ELSE <<>>

Xbar(i) ==
    /\ skid' = [m \in Masters |-> Skid(i, m)]
    /\ dcd' = [m \in Masters |-> Decoder(i, m)]
    /\ grant' = [m \in Masters |-> Grant(i, m)]
    /\ mindex' = [m \in Masters |-> Mindex(m)]
    /\ count' = [m \in Masters |-> Pending(i, m)]
    /\ ans' = [m \in Masters |-> Answer(i, m)]
    /\ sgrant' = [s \in Slaves |-> Sgrant(i, s)]
    /\ sindex' = [s \in Slaves |-> Sindex(s)]
    /\ scyc' = [s \in Slaves |-> Scyc(i, s)]
    /\ out' = [s \in Slaves |-> Out(i, s)]

-----------------------------------------------------------------------------
(* The masters: Wishbone cycles of any number of requests, held while the  *)
(* crossbar stalls, and ended when there is an error, after the last       *)
(* answer, or before it.                                                   *)

Held(m) == mout[m] # <<>> /\ skid[m] # <<>>
AtRest(m) == mout[m] = <<>> /\ owed[m] = <<>>

\* What a master does in a clock: end its cycle, nothing (or hold what it asks),
\* or ask a slave.  With as much outstanding as can be counted it asks no other
\* slave.
End == -1
Wait == 0

Asks(m) ==
    LET asked == owed[m] \o mout[m]
    IN  {s \in 1 .. Nobody : /\ ~Held(m) /\ issued[m] < MaxIssued[m]
                             /\ Len(asked) >= MaxPending => \A k \in DOMAIN asked : asked[k].s = s}
Does(m) ==
    IF mcyc[m] /\ ans[m].err THEN {End}
    ELSE {Wait} \union Asks(m) \union (IF mcyc[m] THEN {End} ELSE {})

MasterDoes(i, m) ==
    IF i.reset \/ i.does[m] = End
    THEN [cyc |-> FALSE, out |-> <<>>, owed |-> <<>>]
    ELSE [cyc  |-> mcyc[m] \/ i.does[m] # Wait,
          out  |-> IF i.does[m] # Wait THEN <<[m |-> m, s |-> i.does[m], n |-> issued[m] + 1]>>
                   ELSE IF Held(m) THEN mout[m] ELSE <<>>,
          owed |-> (IF ans[m].ack /\ owed[m] # <<>> THEN Tail(owed[m]) ELSE owed[m])
                   \o (IF Held(m) THEN <<>> ELSE mout[m])]

MastersStep(i) ==
    /\ mcyc' = [m \in Masters |-> MasterDoes(i, m).cyc]
    /\ mout' = [m \in Masters |-> MasterDoes(i, m).out]
    /\ owed' = [m \in Masters |-> MasterDoes(i, m).owed]
    /\ issued' = [m \in Masters |-> issued[m] + IF i.does[m] > Wait /\ ~i.reset THEN 1 ELSE 0]

(* The slaves: they take requests, and answer them in order in any later   *)
(* clock of the same cycle.                                                *)
SlaveDoes(i, s) ==
    IF ~scyc[s] THEN <<>>
    ELSE (IF i.answer[s] = "none" THEN got[s] ELSE Tail(got[s]))
         \o (IF i.stall[s] THEN <<>> ELSE out[s])

Stalls(s) == IF out[s] = <<>> THEN {FALSE} ELSE BOOLEAN
Says(s) == IF ~scyc[s] \/ got[s] = <<>> THEN {"none"}
           ELSE {"none", "ack"} \union (IF s \in Faulty THEN {"err"} ELSE {})

Inputs ==
    [reset : BOOLEAN,
     stall : {f \in [Slaves -> BOOLEAN] : \A s \in Slaves : f[s] \in Stalls(s)},
     answer : {f \in [Slaves -> {"none", "ack", "err"}] : \A s \in Slaves : f[s] \in Says(s)},
     does : {f \in [Masters -> End .. Nobody] : \A m \in Masters : f[m] \in Does(m)}]

XbarClock(i) ==
    /\ Xbar(i) /\ MastersStep(i)
    /\ got' = [s \in Slaves |-> SlaveDoes(i, s)]

XbarInit ==
    /\ skid = [m \in Masters |-> <<>>] /\ dcd = skid /\ ans = [m \in Masters |-> NoAnswer]
    /\ grant = [m \in Masters |-> 0] /\ count = [m \in Masters |-> Empty]
    /\ mindex \in [Masters -> 1 .. Nobody] /\ sindex \in [Slaves -> Masters]
    /\ sgrant = [s \in Slaves |-> FALSE] /\ scyc = sgrant /\ out = [s \in Slaves |-> <<>>]
    /\ mcyc = [m \in Masters |-> FALSE] /\ mout = skid /\ owed = skid
    /\ issued = [m \in Masters |-> 0] /\ got = out

XbarNext == \E i \in Inputs : XbarClock(i)
XbarSpec == XbarInit /\ [][XbarNext]_xbarVars

-----------------------------------------------------------------------------
(* The registers have their widths and the flags of a count are its own.   *)
XbarTypeOK ==
    /\ \A m \in Masters :
          /\ Len(skid[m]) <= 1 /\ Len(dcd[m]) <= 1 /\ grant[m] \in 0 .. Nobody
          /\ count[m].pending \in 0 .. MaxPending
          /\ count[m].full <=> count[m].pending = MaxPending
          /\ count[m].empty <=> count[m].pending = 0
          /\ count[m].nearfull <=> count[m].pending >= MaxPending - 1
    /\ \A s \in Slaves : sindex[s] \in Masters /\ Len(out[s]) <= 1

\* What master m has asked and not been answered, from the answer on its way
\* back to the request it asked last
Returning(m) == IF ans[m].ack THEN ans[m].of ELSE <<>>
AtSlave(m) == IF grant[m] \in Slaves /\ scyc[grant[m]] THEN got[grant[m]] \o out[grant[m]] ELSE <<>>
InFlight(m) == Returning(m) \o AtSlave(m) \o dcd[m] \o skid[m]

\* A slave has one master, and both know of it
GrantsAgree ==
    /\ \A m \in Masters : grant[m] \in Slaves => /\ sgrant[grant[m]] /\ sindex[grant[m]] = m
                                                 /\ mindex[m] = grant[m]
    /\ \A s \in Slaves : sgrant[s] => grant[sindex[s]] = s

(* A master gets the answers to its own requests, in order, each once, from *)
(* the slaves it addressed: what it has asked is on its way there or back,  *)
(* through any change of its channel and after a cycle that was cut short,  *)
(* and an error comes from the request it is answered for.                  *)
AnswersReachTheirMaster ==
    /\ GrantsAgree
    /\ \A m \in Masters : mcyc[m] =>
          IF ans[m].err THEN owed[m] # <<>> /\ Head(owed[m]).s \in Faulty \union {Nobody}
          ELSE InFlight(m) = owed[m]
    /\ \A s \in Slaves : scyc[s] => \A k \in DOMAIN got[s] : got[s][k].s = s /\ got[s][k].m = sindex[s]
=============================================================================
