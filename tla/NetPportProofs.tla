---------------------------- MODULE NetPportProofs ----------------------------
(***************************************************************************)
(* Proofs about NetPport, for any chunk, buffer size, number of rounds and *)
(* length of the clients' and the FPGA's work: the buffer is never         *)
(* enlarged (BufInv), each client's bytes reach the FPGA in order          *)
(* (InOrder), and while one client sends both get exactly what the FPGA    *)
(* sends them (Intact).                                                    *)
(*                                                                         *)
(* OfChannel is defined by recursion on a sequence.  What it does for      *)
(* every sequence is proved by taking the least length of a                *)
(* counterexample (LeastElement), which needs no induction rule.           *)
(***************************************************************************)
EXTENDS NetPport, FiniteSetTheorems, WellFoundedInduction, SequenceTheorems, TLAPS

\* A set of numbers that is not empty has a least element
LEMMA LeastElement ==
    ASSUME NEW S, S \subseteq Nat, S # {}
    PROVE  \E n \in S : \A m \in S : n <= m
<1> DEFINE below == {1 .. n : n \in S}
<1>1. below \subseteq FiniteSubsetsOf(Nat) /\ below # {}
  <2>1. \A n \in S : IsFiniteSet(1 .. n) /\ 1 .. n \subseteq Nat
    BY FS_Interval
  <2> QED BY <2>1 DEF FiniteSubsetsOf
<1>2. PICK low \in below : \A b \in below : ~(<<b, low>> \in StrictSubsetOrdering(Nat))
    BY <1>1, FS_StrictSubsetOrderingWellFounded, WFMin
<1>3. PICK n \in S : low = 1 .. n
    OBVIOUS
<1>4. ASSUME NEW m \in S, m < n
      PROVE  FALSE
  <2>1. 1 .. m \in below
    OBVIOUS
  <2>2. 1 .. m \in SUBSET Nat /\ low \in SUBSET Nat /\ 1 .. m \subseteq low /\ 1 .. m # low
    BY <1>3, <1>4
  <2>3. <<1 .. m, low>> \in StrictSubsetOrdering(Nat)
    BY <2>2 DEF StrictSubsetOrdering
  <2> QED BY <1>2, <2>1, <2>3
<1> QED BY <1>4

-----------------------------------------------------------------------------
(* The bytes of one channel among those of both.                           *)

\* What OfChannel builds up, from its first n bytes
IsChannelFcn(f, s, ch) ==
    f = [n \in 0 .. Len(s) |->
            IF n = 0 THEN <<>>
            ELSE IF s[n].ch = ch THEN Append(f[n - 1], s[n]) ELSE f[n - 1]]

\* The equations have a solution ...
LEMMA ChannelFcnExists ==
    ASSUME NEW S, NEW s \in Seq(S), NEW ch
    PROVE  \E f : IsChannelFcn(f, s, ch)
<1> DEFINE Part(f, k) == f = [n \in 0 .. k |->
                               IF n = 0 THEN <<>>
                               ELSE IF s[n].ch = ch THEN Append(f[n - 1], s[n]) ELSE f[n - 1]]
           missing == {k \in Nat : ~ \E f : Part(f, k)}
<1>1. missing = {}
  <2>1. SUFFICES ASSUME missing # {} PROVE FALSE
    OBVIOUS
  <2>2. PICK k \in missing : \A j \in missing : k <= j
    <3>1. missing \subseteq Nat
      OBVIOUS
    <3> QED BY <2>1, <3>1, LeastElement
  <2>3. k # 0
    <3>1. Part([n \in 0 .. 0 |-> <<>>], 0)
      OBVIOUS
    <3> QED BY <3>1
  <2>4. k - 1 \in Nat /\ k - 1 \notin missing
    <3>1. k \in Nat /\ k - 1 \in Nat
      BY <2>3
    <3> HIDE DEF missing
    <3>2. k - 1 \in missing => k <= k - 1
      BY <2>2
    <3> QED BY <3>1, <3>2
  <2>5. PICK g : Part(g, k - 1)
    BY <2>4
  <2> DEFINE f == [n \in 0 .. k |-> IF n < k THEN g[n]
                                    ELSE IF s[k].ch = ch THEN Append(g[k - 1], s[k]) ELSE g[k - 1]]
  <2>6. \A n \in 0 .. k : f[n] = IF n = 0 THEN <<>>
                                 ELSE IF s[n].ch = ch THEN Append(f[n - 1], s[n]) ELSE f[n - 1]
    <3> TAKE n \in 0 .. k
    <3>1. CASE n = 0
      BY <3>1, <2>3, <2>4, <2>5
    <3>2. CASE n # 0 /\ n < k
      <4>1. n \in 0 .. k - 1 /\ n - 1 \in 0 .. k - 1 /\ n - 1 \in 0 .. k
        BY <3>2, <2>4
      <4>2. g[n] = IF s[n].ch = ch THEN Append(g[n - 1], s[n]) ELSE g[n - 1]
        BY <2>5, <4>1, <3>2
      <4> QED BY <4>1, <4>2, <3>2
    <3>3. CASE n = k
      BY <3>3, <2>3, <2>4
    <3> QED BY <3>1, <3>2, <3>3
  <2>7. Part(f, k)
    BY <2>6
  <2> QED BY <2>7, <2>2
<1>2. Len(s) \in Nat
    OBVIOUS
<1> QED BY <1>1, <1>2 DEF IsChannelFcn

\* ... and only one, so far as they agree on the bytes
LEMMA ChannelFcnUnique ==
    ASSUME NEW S, NEW s \in Seq(S), NEW t \in Seq(S), NEW ch, NEW f, NEW g, NEW k \in Nat,
           k <= Len(s), k <= Len(t), \A n \in 1 .. k : s[n] = t[n],
           IsChannelFcn(f, s, ch), IsChannelFcn(g, t, ch)
    PROVE  f[k] = g[k]
<1> DEFINE apart == {n \in 0 .. k : f[n] # g[n]}
<1>1. SUFFICES ASSUME apart # {} PROVE FALSE
    OBVIOUS
<1>2. PICK n \in apart : \A m \in apart : n <= m
  <2>1. apart \subseteq Nat
    OBVIOUS
  <2> QED BY <1>1, <2>1, LeastElement
<1> USE DEF IsChannelFcn
<1> HIDE DEF apart
<1>0. Len(s) \in Nat /\ Len(t) \in Nat /\ n \in 0 .. Len(s) /\ n \in 0 .. Len(t) /\ n \in 0 .. k
    BY DEF apart
<1>3. n # 0
  <2>1. f[0] = <<>> /\ g[0] = <<>>
    BY <1>0
  <2> QED BY <2>1 DEF apart
<1>4. n - 1 \in 0 .. k /\ n - 1 \notin apart
    BY <1>0, <1>2, <1>3
<1>5. s[n] = t[n] /\ f[n - 1] = g[n - 1]
    BY <1>0, <1>3, <1>4 DEF apart
<1>6. f[n] = (IF s[n].ch = ch THEN Append(f[n - 1], s[n]) ELSE f[n - 1])
    BY <1>0, <1>3
<1>7. g[n] = (IF t[n].ch = ch THEN Append(g[n - 1], t[n]) ELSE g[n - 1])
    BY <1>0, <1>3
<1> QED BY <1>5, <1>6, <1>7 DEF apart

LEMMA OfChannelIs ==
    ASSUME NEW S, NEW s \in Seq(S), NEW ch
    PROVE  \E f : IsChannelFcn(f, s, ch) /\ OfChannel(s, ch) = f[Len(s)]
<1> DEFINE f == CHOOSE g : IsChannelFcn(g, s, ch)
<1>1. IsChannelFcn(f, s, ch)
    BY ChannelFcnExists
<1>2. OfChannel(s, ch) = f[Len(s)]
    BY DEF OfChannel, IsChannelFcn
<1> QED BY <1>1, <1>2

LEMMA OfChannelEmpty ==
    ASSUME NEW ch
    PROVE  OfChannel(<<>>, ch) = <<>>
<1>1. PICK f : IsChannelFcn(f, <<>>, ch) /\ OfChannel(<<>>, ch) = f[Len(<<>>)]
    BY OfChannelIs, EmptySeq
<1> QED BY <1>1 DEF IsChannelFcn

LEMMA OfChannelAppend ==
    ASSUME NEW S, NEW s \in Seq(S), NEW e \in S, NEW ch
    PROVE  OfChannel(Append(s, e), ch)
               = IF e.ch = ch THEN Append(OfChannel(s, ch), e) ELSE OfChannel(s, ch)
<1> DEFINE t == Append(s, e)
           k == Len(s)
<1>1. t \in Seq(S) /\ Len(t) = k + 1 /\ t[k + 1] = e /\ k \in Nat
       /\ \A n \in 1 .. k : s[n] = t[n]
    BY AppendProperties
<1> HIDE DEF t
<1>2. PICK f : IsChannelFcn(f, s, ch) /\ OfChannel(s, ch) = f[k]
    BY OfChannelIs
<1>3. PICK g : IsChannelFcn(g, t, ch) /\ OfChannel(t, ch) = g[k + 1]
    BY OfChannelIs, <1>1
<1>4. f[k] = g[k]
    BY ChannelFcnUnique, <1>1, <1>2, <1>3
<1>5. g[k + 1] = IF t[k + 1].ch = ch THEN Append(g[k], t[k + 1]) ELSE g[k]
  <2>1. k + 1 \in 1 .. Len(t) /\ k + 1 - 1 = k
    BY <1>1
  <2>2. \A n \in 1 .. Len(t) : g[n] = IF t[n].ch = ch THEN Append(g[n - 1], t[n]) ELSE g[n - 1]
    <3>1. Len(t) \in Nat
      BY <1>1
    <3>2. IsChannelFcn(g, t, ch)
      BY <1>3
    <3>3. 1 .. Len(t) \subseteq 0 .. Len(t) /\ \A n \in 1 .. Len(t) : n # 0
      BY <3>1
    <3> QED BY <3>2, <3>3 DEF IsChannelFcn
  <2> QED BY <2>1, <2>2
<1> QED BY <1>1, <1>2, <1>3, <1>4, <1>5 DEF t

\* The same with concatenations in place of Append
LEMMA OfChannelOneMore ==
    ASSUME NEW S, NEW s \in Seq(S), NEW e \in S, NEW ch, OfChannel(s, ch) \in Seq(S)
    PROVE  /\ OfChannel(s \o <<e>>, ch)
                 = IF e.ch = ch THEN OfChannel(s, ch) \o <<e>> ELSE OfChannel(s, ch)
           /\ OfChannel(s \o <<e>>, ch) \in Seq(S)
<1>1. Append(s, e) = s \o <<e>>
    BY AppendIsConcat
<1>2. Append(OfChannel(s, ch), e) = OfChannel(s, ch) \o <<e>> /\ Append(OfChannel(s, ch), e) \in Seq(S)
    BY AppendIsConcat, AppendProperties
<1>3. OfChannel(Append(s, e), ch) = IF e.ch = ch THEN Append(OfChannel(s, ch), e) ELSE OfChannel(s, ch)
    BY OfChannelAppend
<1> QED BY <1>1, <1>2, <1>3

\* A sequence that is not empty has a last element
LEMMA HasLast ==
    ASSUME NEW S, NEW t \in Seq(S), t # <<>>
    PROVE  \E u \in Seq(S), e \in S :
             /\ t = u \o <<e>> /\ Len(t) = Len(u) + 1 /\ Len(u) \in Nat /\ t[Len(u) + 1] = e
             /\ \A i \in 1 .. Len(u) : t[i] = u[i]
<1>1. PICK u \in Seq(S), e \in S : t = Append(u, e)
    BY SequenceEmptyOrAppend
<1>2. /\ Len(u) \in Nat /\ Len(t) = Len(u) + 1 /\ t[Len(u) + 1] = e
      /\ \A i \in 1 .. Len(u) : t[i] = u[i]
    BY <1>1, AppendProperties, LenProperties
<1> QED BY <1>1, <1>2, AppendIsConcat

\* Three joined, the last of one element
LEMMA JoinsOfOne ==
    ASSUME NEW S, NEW s \in Seq(S), NEW u \in Seq(S), NEW e \in S
    PROVE  (s \o u) \o <<e>> = s \o (u \o <<e>>)
<1> DEFINE All == Seq(S)
           d == <<e>>
<1>1. \A a, b, c \in All : (a \o b) \o c = a \o (b \o c)
  <2> TAKE a, b, c \in All
  <2>1. a \in Seq(S) /\ b \in Seq(S) /\ c \in Seq(S)
    OBVIOUS
  <2> QED BY <2>1, ConcatAssociative
<1>2. s \in All /\ u \in All /\ d \in All
    OBVIOUS
<1> HIDE DEF All, d
<1>3. (s \o u) \o d = s \o (u \o d)
    BY <1>1, <1>2
<1> QED BY <1>3 DEF d

\* OfChannel takes a concatenation apart
LEMMA OfChannelConcat ==
    ASSUME NEW S, NEW ch
    PROVE  \A s, t \in Seq(S) :
             /\ OfChannel(s, ch) \in Seq(S)
             /\ OfChannel(s \o t, ch) = OfChannel(s, ch) \o OfChannel(t, ch)
<1> DEFINE Typed(t) == OfChannel(t, ch) \in Seq(S)
           Splits(t) == \A s \in Seq(S) : Typed(s) => OfChannel(s \o t, ch) = OfChannel(s, ch) \o OfChannel(t, ch)
           bad == {Len(t) : t \in {u \in Seq(S) : ~(Typed(u) /\ Splits(u))}}
<1>1. SUFFICES bad = {}
  <2>1. \A t \in Seq(S) : Len(t) \notin bad => Typed(t) /\ Splits(t)
    OBVIOUS
  <2> QED BY <2>1
<1>2. SUFFICES ASSUME bad # {} PROVE FALSE
    OBVIOUS
<1>3. PICK k \in bad : \A j \in bad : k <= j
  <2>1. bad \subseteq Nat
    BY LenProperties
  <2> QED BY <1>2, <2>1, LeastElement
<1>4. PICK t \in Seq(S) : Len(t) = k /\ ~(Typed(t) /\ Splits(t))
    BY <1>3
<1>5. CASE t = <<>>
  <2>1. OfChannel(t, ch) = <<>> /\ Typed(t)
    BY <1>5, OfChannelEmpty
  <2>2. \A s \in Seq(S) : s \o t = s /\ (Typed(s) => OfChannel(s, ch) \o <<>> = OfChannel(s, ch))
    BY <1>5, ConcatEmptySeq
  <2> QED BY <1>4, <2>1, <2>2
<1>6. CASE t # <<>>
  <2>1. PICK u \in Seq(S), e \in S :
          /\ t = u \o <<e>> /\ Len(t) = Len(u) + 1 /\ Len(u) \in Nat /\ t[Len(u) + 1] = e
          /\ \A i \in 1 .. Len(u) : t[i] = u[i]
    BY <1>6, HasLast
  <2>2. Typed(u) /\ Splits(u)
    <3>1. Len(u) \notin bad
      <4> HIDE DEF bad
      <4> QED BY <1>3, <1>4, <2>1
    <3> QED BY <3>1
  <2> HIDE DEF bad
  <2>3. <<e>> \in Seq(S)
    OBVIOUS
  <2>4. /\ OfChannel(t, ch) = IF e.ch = ch THEN OfChannel(u, ch) \o <<e>> ELSE OfChannel(u, ch)
        /\ Typed(t)
    BY <2>1, <2>2, OfChannelOneMore
  <2>5. ASSUME NEW s \in Seq(S), Typed(s)
        PROVE  OfChannel(s \o t, ch) = OfChannel(s, ch) \o OfChannel(t, ch)
    <3> DEFINE w == s \o u
               a == OfChannel(s, ch)
               b == OfChannel(u, ch)
    <3>0. (s \o u) \o <<e>> = s \o (u \o <<e>>)
      BY <2>1, JoinsOfOne
    <3>1. s \o t = w \o <<e>> /\ w \in Seq(S)
      BY <2>1, <3>0, ConcatProperties
    <3>2. OfChannel(w, ch) = a \o b
      BY <2>2, <2>5
    <3>3. a \in Seq(S) /\ b \in Seq(S) /\ a \o b \in Seq(S)
      BY <2>2, <2>5, ConcatProperties
    <3>4. (a \o b) \o <<e>> = a \o (b \o <<e>>)
      <4>1. a \in Seq(S) /\ b \in Seq(S) /\ e \in S
        BY <2>1, <3>3
      <4> HIDE DEF a, b
      <4> QED BY <4>1, JoinsOfOne
    <3>5. OfChannel(w \o <<e>>, ch) = IF e.ch = ch THEN OfChannel(w, ch) \o <<e>> ELSE OfChannel(w, ch)
      <4>1. OfChannel(w, ch) \in Seq(S) /\ w \in Seq(S)
        BY <3>1, <3>2, <3>3
      <4> HIDE DEF w, a, b, Typed, Splits
      <4> QED BY <4>1, OfChannelOneMore
    <3> HIDE DEF w, Typed, Splits
    <3> QED BY <2>4, <3>1, <3>2, <3>4, <3>5
  <2> QED BY <1>4, <2>4, <2>5
<1> QED BY <1>5, <1>6

\* The same of sequences of bytes, whose set the provers need not look into
Streams == Seq(Bytes)

LEMMA JoinsOfStreams ==
    \A a, b, c \in Streams : a \o b \in Streams /\ (a \o b) \o c = a \o (b \o c)
BY ConcatAssociative, ConcatProperties DEF Streams

LEMMA ChannelsOfStreams ==
    ASSUME NEW ch
    PROVE  \A s, t \in Streams :
             /\ OfChannel(s, ch) \in Streams
             /\ OfChannel(s \o t, ch) = OfChannel(s, ch) \o OfChannel(t, ch)
<1> TAKE s, t \in Streams
<1>1. s \in Seq(Bytes) /\ t \in Seq(Bytes)
    BY DEF Streams
<1>2. /\ OfChannel(s, ch) \in Seq(Bytes)
      /\ OfChannel(s \o t, ch) = OfChannel(s, ch) \o OfChannel(t, ch)
    BY <1>1, OfChannelConcat, ZenonT(60)
<1> QED BY <1>2 DEF Streams

\* Cutting a sequence in two
LEMMA TakeAndDrop ==
    ASSUME NEW S, NEW s \in Seq(S), NEW k \in 0 .. Len(s)
    PROVE  /\ Take(s, k) \in Seq(S) /\ Drop(s, k) \in Seq(S)
           /\ Len(Take(s, k)) = k /\ Len(Drop(s, k)) = Len(s) - k
           /\ \A i \in 1 .. k : Take(s, k)[i] = s[i]
           /\ \A i \in 1 .. Len(s) - k : Drop(s, k)[i] = s[k + i]
           /\ Take(s, k) \o Drop(s, k) = s
<1>1. Len(s) \in Nat /\ Least(k, Len(s)) = k
    BY LenProperties DEF Least
<1>2. \A i \in 1 .. Len(s) : s[i] \in S
    BY ElementOfSeq
<1>3. /\ Take(s, k) \in Seq(S) /\ Len(Take(s, k)) = k
      /\ \A i \in 1 .. k : Take(s, k)[i] = s[i]
  <2>1. \A i \in 1 .. k : s[i] \in S
    BY <1>1, <1>2
  <2>2. 1 \in Int /\ k \in Int /\ k - 1 + 1 = k
    BY <1>1
  <2> QED BY <1>1, <2>1, <2>2, SubSeqProperties DEF Take
<1>4. /\ Drop(s, k) \in Seq(S) /\ Len(Drop(s, k)) = Len(s) - k
      /\ \A i \in 1 .. Len(s) - k : Drop(s, k)[i] = s[k + i]
  <2>1. \A i \in k + 1 .. Len(s) : s[i] \in S
    BY <1>1, <1>2
  <2>2. k + 1 \in Int /\ Len(s) \in Int
    BY <1>1
  <2>3. /\ SubSeq(s, k + 1, Len(s)) \in Seq(S)
        /\ Len(SubSeq(s, k + 1, Len(s))) = IF k + 1 <= Len(s) THEN Len(s) - (k + 1) + 1 ELSE 0
        /\ \A i \in 1 .. Len(s) - (k + 1) + 1 : SubSeq(s, k + 1, Len(s))[i] = s[k + 1 + i - 1]
    BY <2>1, <2>2, SubSeqProperties
  <2> QED BY <1>1, <2>3 DEF Drop
<1>5. Take(s, k) \o Drop(s, k) = s
  <2>1. 1 \in 1 .. Len(s) + 1 /\ k \in 1 - 1 .. Len(s) /\ Len(s) \in k .. Len(s)
    BY <1>1
  <2>2. SubSeq(s, 1, k) \o SubSeq(s, k + 1, Len(s)) = SubSeq(s, 1, Len(s))
    BY <2>1, ConcatAdjacentSubSeq
  <2> QED BY <1>1, <2>2, SubSeqFull DEF Take, Drop
<1> QED BY <1>3, <1>4, <1>5

\* What is left of a sequence is a sequence, however much is dropped
LEMMA DropType ==
    ASSUME NEW S, NEW s \in Seq(S), NEW k \in Nat
    PROVE  Drop(s, k) \in Seq(S)
<1>1. Len(s) \in Nat /\ \A i \in 1 .. Len(s) : s[i] \in S
    BY LenProperties, ElementOfSeq
<1>2. \A i \in k + 1 .. Len(s) : s[i] \in S
    BY <1>1
<1>3. k + 1 \in Int /\ Len(s) \in Int
    BY <1>1
<1> QED BY <1>2, <1>3, SubSeqProperties DEF Drop

\* A concatenation is cut where it was joined
LEMMA TakeAndDropConcat ==
    ASSUME NEW S, NEW a \in Seq(S), NEW b \in Seq(S)
    PROVE  Take(a \o b, Len(a)) = a /\ Drop(a \o b, Len(a)) = b
<1> DEFINE s == a \o b
           k == Len(a)
<1>0. s \in Seq(S) /\ k \in Nat /\ Len(b) \in Nat /\ Len(s) = k + Len(b)
    BY ConcatProperties, LenProperties
<1>1. s \in Seq(S) /\ k \in 0 .. Len(s) /\ Len(b) \in Nat /\ Len(s) = k + Len(b) /\ k \in Nat
       /\ \A i \in 1 .. k + Len(b) : s[i] = IF i <= k THEN a[i] ELSE b[i - k]
    BY <1>0, ConcatProperties
<1> HIDE DEF s, k
<1>2. Take(s, k) = a
  <2>1. Take(s, k) \in Seq(S) /\ Len(Take(s, k)) = k /\ \A i \in 1 .. k : Take(s, k)[i] = s[i]
    BY <1>1, TakeAndDrop
  <2>2. \A i \in 1 .. k : Take(s, k)[i] = a[i]
    BY <1>1, <2>1
  <2> QED BY <2>1, <2>2, SeqEqual DEF k
<1>3. Drop(s, k) = b
  <2>0. Len(s) - k = Len(b)
    BY <1>1
  <2>1. /\ Drop(s, k) \in Seq(S) /\ Len(Drop(s, k)) = Len(s) - k
        /\ \A i \in 1 .. Len(s) - k : Drop(s, k)[i] = s[k + i]
    BY <1>1, TakeAndDrop
  <2>2. ASSUME NEW i \in 1 .. Len(b)
        PROVE  Drop(s, k)[i] = b[i]
    <3>1. Drop(s, k)[i] = s[k + i]
      BY <2>0, <2>1
    <3>2. k + i \in 1 .. k + Len(b) /\ ~(k + i <= k) /\ (k + i) - k = i
      BY <1>1
    <3> QED BY <1>1, <3>1, <3>2
  <2> QED BY <2>0, <2>1, <2>2, SeqEqual
<1> QED BY <1>2, <1>3 DEF s, k

\* OfChannel keeps all of a sequence of its channel and nothing of another's
LEMMA OfChannelOne ==
    ASSUME NEW ch, NEW c
    PROVE  \A s \in Seq(Bytes) : (\A i \in 1 .. Len(s) : s[i].ch = c)
                                   => OfChannel(s, ch) = IF ch = c THEN s ELSE <<>>
<1> DEFINE Of(s) == (\A i \in 1 .. Len(s) : s[i].ch = c)
                      => OfChannel(s, ch) = IF ch = c THEN s ELSE <<>>
           bad == {Len(t) : t \in {u \in Seq(Bytes) : ~Of(u)}}
<1>1. SUFFICES bad = {}
  <2>1. \A t \in Seq(Bytes) : Len(t) \notin bad => Of(t)
    OBVIOUS
  <2> QED BY <2>1
<1>2. SUFFICES ASSUME bad # {} PROVE FALSE
    OBVIOUS
<1>3. PICK k \in bad : \A j \in bad : k <= j
  <2>1. bad \subseteq Nat
    BY LenProperties
  <2> QED BY <1>2, <2>1, LeastElement
<1>4. PICK t \in Seq(Bytes) : Len(t) = k /\ ~Of(t)
    BY <1>3
<1>5. t # <<>>
    BY <1>4, OfChannelEmpty
<1>6. PICK u \in Seq(Bytes), e \in Bytes :
         /\ t = u \o <<e>> /\ Len(t) = Len(u) + 1 /\ Len(u) \in Nat /\ t[Len(u) + 1] = e
         /\ \A i \in 1 .. Len(u) : t[i] = u[i]
    BY <1>5, HasLast
<1>8. Of(u)
  <2>1. Len(u) \notin bad
    <3> HIDE DEF bad
    <3> QED BY <1>3, <1>4, <1>6
  <2> QED BY <2>1
<1>7. (\A i \in 1 .. Len(u) : u[i].ch = c) /\ e.ch = c
    BY <1>4, <1>6
<1>9. OfChannel(t, ch) = IF e.ch = ch THEN OfChannel(u, ch) \o <<e>> ELSE OfChannel(u, ch)
  <2>1. OfChannel(u, ch) \in Seq(Bytes)
    BY OfChannelConcat
  <2> QED BY <1>6, <2>1, OfChannelOneMore
<1> QED BY <1>4, <1>6, <1>7, <1>8, <1>9

-----------------------------------------------------------------------------
(* The inductive invariants.                                               *)

\* Every variable has its type, those TypeOK leaves out too
Typing ==
    /\ m_rd_buf \in [0 .. BufSize - 1 -> Bytes]
    /\ m_rd_pos \in Nat /\ m_rd_fill \in Nat
    /\ iterations \in 0 .. MaxIter
    /\ pc \in {"poll", "forward", "cmd", "con", "exit"}
    /\ revents \in [Channels -> {"none", "read", "accept"}]
    /\ m_connected \in [Channels -> BOOLEAN]
    /\ client \in [Channels -> {"none", "waiting", "open", "closed"}]
    /\ c2n \in [Channels -> Seq(Bytes)]
    /\ nsent \in [Channels -> Nat] /\ fsent \in [Channels -> Nat]
    /\ fpga_out \in Seq(Bytes) /\ fpga_in \in Seq(Bytes)
    /\ due \in [Channels -> Seq(Bytes)]
    /\ corrupt \in BOOLEAN

\* What m_rd_buf holds in each phase of the loop: two writes put in two
\* chunks at most, two rounds of forwarding take them out, and what is left
\* begins at the front whenever something is put in.
Phases ==
    /\ m_rd_pos + m_rd_fill <= 2 * Chunk
    /\ pc = "poll" => m_rd_pos = 0
    /\ pc = "forward" =>
          /\ iterations < MaxIter
          /\ iterations = 0 => m_rd_pos = 0
          /\ iterations = 1 => m_rd_fill <= Chunk
          /\ iterations > 1 => m_rd_fill = 0
          /\ m_rd_fill = 0 => m_rd_pos = 0
    /\ pc = "cmd" => m_rd_fill = 0 /\ m_rd_pos = 0
    /\ pc = "con" => m_rd_fill <= Chunk /\ m_rd_pos = 0

BufInv == Typing /\ Phases

\* A client's bytes are at the FPGA or in its socket, in order
InOrder ==
    \A ch \in Channels :
        OfChannel(fpga_in, ch) \o c2n[ch] = [i \in 1 .. nsent[ch] |-> [ch |-> ch, id |-> i]]

\* What the FPGA has sent and no client has got yet
Coming == Buffered \o fpga_out

\* With one client sending, nothing waits in m_rd_buf when a write begins,
\* and DeliveredIntact holds
OneSender == \E ch \in Channels : Senders \subseteq {ch}
Intact ==
    /\ \A ch \in Channels : ch \notin Senders => c2n[ch] = <<>>
    /\ pc = "con" /\ "cmd" \notin Senders => m_rd_fill = 0
    /\ DeliveredIntact

-----------------------------------------------------------------------------
(* The buffer: BufInv is inductive.                                        *)

LEMMA Constants ==
    /\ Chunk \in Nat \ {0} /\ BufSize \in Nat \ {0} /\ MaxIter \in Nat \ {0}
    /\ BufSize >= 3 * Chunk /\ MaxIter >= 2
    /\ Senders \subseteq Channels
BY NetPportAssumption

\* Clocks of the port bring no more bytes than clocks, and than there are
LEMMA FetchedBounds ==
    ASSUME Typing, NEW n \in Nat, NEW k \in Fetched(n)
    PROVE  k \in Nat /\ k <= n /\ k \in 0 .. Len(fpga_out)
<1>1. Len(fpga_out) \in Nat
    BY LenProperties DEF Typing
<1> QED BY <1>1 DEF Fetched, Least

\* What a write does while there is room: nothing moves
LEMMA WriteInRoom ==
    ASSUME Typing, m_rd_pos = 0, m_rd_fill <= Chunk,
           NEW bytes \in Seq(Bytes), Len(bytes) <= Chunk, NEW k, Write(bytes, k)
    PROVE  /\ k \in 0 .. Len(fpga_out) /\ k <= Len(bytes)
           /\ m_rd_pos' = 0 /\ m_rd_fill' = m_rd_fill + k
           /\ m_rd_buf' = [i \in 0 .. BufSize - 1 |-> IF i \in 0 .. k - 1 THEN fpga_out[i + 1] ELSE m_rd_buf[i]]
           /\ m_rd_buf' \in [0 .. BufSize - 1 -> Bytes]
           /\ fpga_out' = Drop(fpga_out, k) /\ fpga_out' \in Seq(Bytes)
           /\ fpga_in' = fpga_in \o bytes /\ fpga_in' \in Seq(Bytes)
<1>1. Len(bytes) \in Nat /\ Len(fpga_out) \in Nat /\ m_rd_fill \in Nat
    BY LenProperties DEF Typing
<1>2. ~(Len(bytes) > BufSize - m_rd_fill - m_rd_pos)
    BY <1>1, Constants
<1>3. /\ k \in Fetched(Len(bytes))
      /\ m_rd_pos' = m_rd_pos
      /\ m_rd_buf' = [i \in 0 .. BufSize - 1 |->
                        IF i \in m_rd_pos .. m_rd_pos + k - 1 THEN fpga_out[i - m_rd_pos + 1] ELSE m_rd_buf[i]]
      /\ m_rd_fill' = m_rd_fill + k
      /\ fpga_out' = Drop(fpga_out, k)
      /\ fpga_in' = fpga_in \o bytes
    BY <1>2 DEF Write
<1>4. k \in Nat /\ k <= Len(bytes) /\ k \in 0 .. Len(fpga_out)
    BY <1>1, <1>3, FetchedBounds
<1>5. m_rd_buf' = [i \in 0 .. BufSize - 1 |-> IF i \in 0 .. k - 1 THEN fpga_out[i + 1] ELSE m_rd_buf[i]]
    BY <1>3, <1>4
<1>6. m_rd_buf' \in [0 .. BufSize - 1 -> Bytes]
  <2>1. \A i \in 0 .. k - 1 : fpga_out[i + 1] \in Bytes
    <3>1. \A i \in 0 .. k - 1 : i + 1 \in 1 .. Len(fpga_out)
      BY <1>1, <1>4
    <3> QED BY <3>1, ElementOfSeq DEF Typing
  <2> QED BY <1>5, <2>1 DEF Typing
<1>7. fpga_out' \in Seq(Bytes)
    BY <1>3, <1>4, TakeAndDrop DEF Typing
<1>8. fpga_in' \in Seq(Bytes)
    BY <1>3, ConcatProperties DEF Typing
<1> QED BY <1>3, <1>4, <1>5, <1>6, <1>7, <1>8

\* Buffered is a sequence of bytes
LEMMA BufferedType ==
    ASSUME Typing, Phases
    PROVE  /\ Buffered \in Seq(Bytes) /\ Len(Buffered) = m_rd_fill
           /\ \A i \in 1 .. m_rd_fill : Buffered[i] = m_rd_buf[m_rd_pos + i - 1]
<1>1. m_rd_pos \in Nat /\ m_rd_fill \in Nat /\ m_rd_pos + m_rd_fill <= BufSize
    BY Constants DEF Typing, Phases
<1>2. \A i \in 1 .. m_rd_fill : m_rd_pos + i - 1 \in 0 .. BufSize - 1
    BY <1>1, Constants
<1>3. \A i \in 1 .. m_rd_fill : m_rd_buf[m_rd_pos + i - 1] \in Bytes
    BY <1>2 DEF Typing
<1> QED BY <1>1, <1>3 DEF Buffered

LEMMA BufInit == Init => BufInv
<1> SUFFICES ASSUME Init PROVE BufInv
    OBVIOUS
<1> USE Constants DEF Init
<1>1. Junk \in Bytes
    BY DEF Junk, Bytes, Channels
<1>2. <<>> \in Seq(Bytes)
    OBVIOUS
<1>3. Typing
  <2>1. m_rd_buf \in [0 .. BufSize - 1 -> Bytes]
    BY <1>1
  <2>2. c2n \in [Channels -> Seq(Bytes)] /\ due \in [Channels -> Seq(Bytes)]
    BY <1>2
  <2>3. /\ revents \in [Channels -> {"none", "read", "accept"}]
        /\ m_connected \in [Channels -> BOOLEAN]
        /\ client \in [Channels -> {"none", "waiting", "open", "closed"}]
        /\ nsent \in [Channels -> Nat] /\ fsent \in [Channels -> Nat]
    OBVIOUS
  <2>4. /\ m_rd_pos \in Nat /\ m_rd_fill \in Nat /\ iterations \in 0 .. MaxIter
        /\ pc \in {"poll", "forward", "cmd", "con", "exit"}
    OBVIOUS
  <2>6. corrupt \in BOOLEAN
    OBVIOUS
  <2>5. fpga_out \in Seq(Bytes) /\ fpga_in \in Seq(Bytes)
    BY <1>2
  <2> HIDE DEF Init
  <2> QED BY <2>1, <2>2, <2>3, <2>4, <2>5, <2>6 DEF Typing
<1>4. Phases
    BY DEF Phases
<1> QED BY <1>3, <1>4 DEF BufInv

\* What one read of the port does to the buffer, and the bytes it returns
LEMMA ReadStep ==
    ASSUME BufInv, NEW k \in 0 .. Len(fpga_out), NEW raw, ReadPort(k, raw)
    PROVE  LET ln == Least(Chunk, m_rd_fill)
           IN  /\ ln \in Nat /\ ln <= m_rd_fill /\ ln <= Chunk
               /\ ln = IF Chunk < m_rd_fill THEN Chunk ELSE m_rd_fill
               /\ k <= Chunk - ln /\ k \in 0 .. Len(fpga_out)
               /\ m_rd_fill' = m_rd_fill - ln
               /\ m_rd_pos' = IF m_rd_fill - ln = 0 THEN 0 ELSE m_rd_pos + ln
               /\ m_rd_buf' = m_rd_buf
               /\ raw = Take(Buffered, ln) \o Take(fpga_out, k)
               /\ raw \in Seq(Bytes) /\ Len(raw) = ln + k
               /\ fpga_out' = Drop(fpga_out, k) /\ fpga_out' \in Seq(Bytes)
<1> DEFINE ln == Least(Chunk, m_rd_fill)
<1>1. Chunk \in Nat /\ m_rd_fill \in Nat /\ Len(fpga_out) \in Nat
    BY Constants, LenProperties DEF BufInv, Typing
<1>2. ln \in Nat /\ ln <= m_rd_fill /\ ln <= Chunk /\ ln = IF Chunk < m_rd_fill THEN Chunk ELSE m_rd_fill
    BY <1>1 DEF Least
<1>3. k \in Fetched(Chunk - ln)
    BY DEF ReadPort
<1> HIDE DEF ln
<1>4. k <= Chunk - ln
  <2>1. Chunk - ln \in Nat
    BY <1>1, <1>2
  <2> QED BY <1>3, <2>1, FetchedBounds DEF BufInv
<1>5. /\ Take(Buffered, ln) \in Seq(Bytes) /\ Len(Take(Buffered, ln)) = ln
      /\ Take(fpga_out, k) \in Seq(Bytes) /\ Len(Take(fpga_out, k)) = k
      /\ Drop(fpga_out, k) \in Seq(Bytes)
  <2>1. Buffered \in Seq(Bytes) /\ ln \in 0 .. Len(Buffered)
    BY <1>1, <1>2, BufferedType DEF BufInv
  <2> QED BY <2>1, TakeAndDrop DEF BufInv, Typing
<1>6. /\ m_rd_fill' = m_rd_fill - ln /\ m_rd_buf' = m_rd_buf /\ fpga_out' = Drop(fpga_out, k)
      /\ m_rd_pos' = IF m_rd_fill - ln = 0 THEN 0 ELSE m_rd_pos + ln
      /\ raw = Take(Buffered, ln) \o Take(fpga_out, k)
    BY DEF ReadPort, ln
<1>7. raw \in Seq(Bytes) /\ Len(raw) = ln + k
    BY <1>5, <1>6, ConcatProperties
<1> QED BY <1>2, <1>4, <1>5, <1>6, <1>7 DEF ln

\* What Forward does, with the bytes it has read named
LEMMA ForwardStep ==
    ASSUME BufInv, Forward
    PROVE  \E k \in 0 .. Len(fpga_out), raw \in Seq(Bytes) :
             /\ ReadPort(k, raw)
             /\ due' = [ch \in Channels |-> Deliver(ch, OfChannel(raw, ch)).left]
             /\ corrupt' = (corrupt \/ \E ch \in Channels : Deliver(ch, OfChannel(raw, ch)).wrong)
             /\ \/ raw = <<>> /\ pc' = "cmd" /\ iterations' = iterations
                \/ /\ raw # <<>> /\ iterations' = iterations + 1
                   /\ pc' = IF iterations' < MaxIter THEN "forward" ELSE "cmd"
                \/ raw # <<>> /\ pc' = "exit" /\ iterations' = iterations
             /\ UNCHANGED <<m_connected, revents, clients, m_rd_buf, fsent, fpga_in>>
<1>1. PICK k \in 0 .. Len(fpga_out) :
        LET raw == Take(Buffered, Least(Chunk, m_rd_fill)) \o Take(fpga_out, k)
        IN  /\ ReadPort(k, raw)
            /\ due' = [ch \in Channels |-> Deliver(ch, OfChannel(raw, ch)).left]
            /\ corrupt' = (corrupt \/ \E ch \in Channels : Deliver(ch, OfChannel(raw, ch)).wrong)
            /\ \/ raw = <<>> /\ pc' = "cmd" /\ iterations' = iterations
               \/ /\ raw # <<>> /\ iterations' = iterations + 1
                  /\ pc' = IF iterations' < MaxIter THEN "forward" ELSE "cmd"
               \/ raw # <<>> /\ pc' = "exit" /\ iterations' = iterations
    BY DEF Forward, MoreRounds
<1> DEFINE raw == Take(Buffered, Least(Chunk, m_rd_fill)) \o Take(fpga_out, k)
<1>2. ReadPort(k, raw)
    BY <1>1
<1>3. raw \in Seq(Bytes)
  <2> HIDE DEF raw
  <2> QED BY <1>2, ReadStep
<1>4. UNCHANGED <<m_connected, revents, clients, m_rd_buf, fsent, fpga_in>>
    BY <1>2 DEF Forward, ReadPort
<1> QED BY <1>1, <1>3, <1>4

LEMMA BufForward ==
    ASSUME BufInv, Forward
    PROVE  BufInv'
<1>1. PICK k \in 0 .. Len(fpga_out), raw \in Seq(Bytes) :
         /\ ReadPort(k, raw)
         /\ due' = [ch \in Channels |-> Deliver(ch, OfChannel(raw, ch)).left]
         /\ corrupt' = (corrupt \/ \E ch \in Channels : Deliver(ch, OfChannel(raw, ch)).wrong)
         /\ \/ raw = <<>> /\ pc' = "cmd" /\ iterations' = iterations
            \/ /\ raw # <<>> /\ iterations' = iterations + 1
               /\ pc' = IF iterations' < MaxIter THEN "forward" ELSE "cmd"
            \/ raw # <<>> /\ pc' = "exit" /\ iterations' = iterations
         /\ UNCHANGED <<m_connected, revents, clients, m_rd_buf, fsent, fpga_in>>
    BY ForwardStep
<1> DEFINE ln == Least(Chunk, m_rd_fill)
<1>2. /\ ln \in Nat /\ ln <= m_rd_fill /\ ln <= Chunk
      /\ ln = IF Chunk < m_rd_fill THEN Chunk ELSE m_rd_fill
      /\ k <= Chunk - ln /\ k \in 0 .. Len(fpga_out)
      /\ m_rd_fill' = m_rd_fill - ln
      /\ m_rd_pos' = IF m_rd_fill - ln = 0 THEN 0 ELSE m_rd_pos + ln
      /\ m_rd_buf' = m_rd_buf
      /\ raw = Take(Buffered, ln) \o Take(fpga_out, k)
      /\ raw \in Seq(Bytes) /\ Len(raw) = ln + k
      /\ fpga_out' = Drop(fpga_out, k) /\ fpga_out' \in Seq(Bytes)
    BY <1>1, ReadStep
<1> HIDE DEF ln
<1>3. raw = <<>> <=> ln + k = 0
    BY <1>2, EmptySeq
<1>4. pc = "forward"
    BY DEF Forward
<1>5. /\ m_rd_pos \in Nat /\ m_rd_fill \in Nat /\ iterations \in Nat /\ k \in Nat
      /\ m_rd_pos + m_rd_fill <= 2 * Chunk /\ iterations < MaxIter
      /\ iterations = 0 => m_rd_pos = 0
      /\ iterations = 1 => m_rd_fill <= Chunk
      /\ iterations > 1 => m_rd_fill = 0
      /\ Chunk \in Nat /\ MaxIter \in Nat /\ Chunk > 0 /\ MaxIter >= 2
    BY <1>2, <1>4, Constants DEF BufInv, Typing, Phases
<1>6. /\ m_rd_pos' \in Nat /\ m_rd_fill' \in Nat
      /\ m_rd_pos' + m_rd_fill' <= 2 * Chunk
      /\ m_rd_fill' = 0 => m_rd_pos' = 0
      /\ iterations >= 1 => m_rd_fill' = 0
      /\ m_rd_fill' <= Chunk
    BY <1>2, <1>5
<1>7. iterations' \in 0 .. MaxIter /\ pc' \in {"forward", "cmd", "exit"}
    BY <1>1, <1>5
<1>8. due' \in [Channels -> Seq(Bytes)]
  <2>1. ASSUME NEW ch \in Channels
        PROVE  Deliver(ch, OfChannel(raw, ch)).left \in Seq(Bytes)
    <3>1. due[ch] \in Seq(Bytes) /\ OfChannel(raw, ch) \in Seq(Bytes)
      BY <1>2, OfChannelConcat DEF BufInv, Typing
    <3>2. Drop(due[ch], Len(OfChannel(raw, ch))) \in Seq(Bytes)
      BY <3>1, DropType, LenProperties
    <3> QED BY <3>1, <3>2 DEF Deliver
  <2> QED BY <1>1, <2>1
<1>9. corrupt' \in BOOLEAN
    BY <1>1
<1>10. Typing'
    BY <1>1, <1>2, <1>6, <1>7, <1>8, <1>9 DEF BufInv, Typing, clients
<1>11. Phases'
  <2>1. pc' = "forward" =>
          /\ iterations' < MaxIter
          /\ iterations' = 0 => m_rd_pos' = 0
          /\ iterations' = 1 => m_rd_fill' <= Chunk
          /\ iterations' > 1 => m_rd_fill' = 0
          /\ m_rd_fill' = 0 => m_rd_pos' = 0
    BY <1>1, <1>5, <1>6
  <2>2. pc' = "cmd" => m_rd_fill' = 0 /\ m_rd_pos' = 0
    <3>1. CASE raw = <<>>
      <4>0. /\ ln \in Nat /\ k \in Nat /\ ln + k = 0
            /\ m_rd_fill' = m_rd_fill - ln
            /\ m_rd_pos' = IF m_rd_fill - ln = 0 THEN 0 ELSE m_rd_pos + ln
            /\ ln = IF Chunk < m_rd_fill THEN Chunk ELSE m_rd_fill
        BY <1>2, <1>3, <1>5, <3>1
      <4>1. ln = 0
        BY <4>0
      <4>2. m_rd_fill = 0
        BY <1>5, <4>0, <4>1
      <4>3. m_rd_fill - ln = 0
        BY <4>1, <4>2
      <4>4. m_rd_fill' = 0 /\ m_rd_pos' = 0
        BY <4>0, <4>3
      <4> QED BY <4>4
    <3>2. CASE raw # <<>>
      <4>1. pc' = "cmd" => iterations >= 1
        BY <1>1, <1>5, <3>2
      <4> QED BY <1>6, <4>1
    <3> QED BY <3>1, <3>2
  <2> QED BY <1>6, <1>7, <2>1, <2>2 DEF Phases
<1> QED BY <1>10, <1>11 DEF BufInv

\* A turn of Serve, its alternatives named
LEMMA ServeStep ==
    ASSUME NEW ch, NEW next, Serve(ch, next)
    PROVE  /\ pc = ch /\ pc' = next
           /\ UNCHANGED <<revents, iterations, nsent, corrupt>>
           /\ \/ /\ UNCHANGED <<muxd, m_connected, client, c2n, fpga, due>>
              \/ /\ m_connected' = [m_connected EXCEPT ![ch] = TRUE]
                 /\ client' = [client EXCEPT ![ch] = IF @ = "waiting" THEN "open" ELSE @]
                 /\ due' = [due EXCEPT ![ch] = OfChannel(Buffered \o fpga_out, ch)]
                 /\ UNCHANGED <<muxd, c2n, fpga>>
              \/ /\ c2n[ch] = <<>>
                 /\ m_connected' = [m_connected EXCEPT ![ch] = FALSE]
                 /\ client' = [client EXCEPT ![ch] = "none"]
                 /\ due' = [due EXCEPT ![ch] = <<>>]
                 /\ UNCHANGED <<muxd, c2n, fpga>>
              \/ \E n \in 1 .. Least(Chunk, Len(c2n[ch])), k \in 0 .. Len(fpga_out) :
                    /\ c2n[ch] # <<>>
                    /\ Write(Take(c2n[ch], n), k)
                    /\ c2n' = [c2n EXCEPT ![ch] = Drop(@, n)]
                    /\ UNCHANGED <<m_connected, client, fsent, due>>
BY DEF Serve

\* The bytes a turn takes from a socket: at most a chunk
LEMMA TakenFromSocket ==
    ASSUME Typing, NEW ch \in Channels, NEW n \in 1 .. Least(Chunk, Len(c2n[ch]))
    PROVE  /\ n \in 0 .. Len(c2n[ch]) /\ n <= Chunk
           /\ Take(c2n[ch], n) \in Seq(Bytes) /\ Len(Take(c2n[ch], n)) = n
           /\ Drop(c2n[ch], n) \in Seq(Bytes)
           /\ Take(c2n[ch], n) \o Drop(c2n[ch], n) = c2n[ch]
<1>1. c2n[ch] \in Seq(Bytes) /\ Len(c2n[ch]) \in Nat
    BY LenProperties DEF Typing
<1>2. n \in 0 .. Len(c2n[ch]) /\ n <= Chunk
    BY <1>1, Constants DEF Least
<1> QED BY <1>1, <1>2, TakeAndDrop

LEMMA BufServe ==
    ASSUME BufInv, NEW ch \in Channels, NEW next, Serve(ch, next),
           \/ ch = "cmd" /\ next = "con"
           \/ ch = "con" /\ next = "poll"
    PROVE  BufInv'
<1>1. pc = ch /\ pc' = next /\ UNCHANGED <<revents, iterations, nsent, corrupt>>
    BY ServeStep
<1>2. /\ m_rd_pos = 0 /\ m_rd_fill <= Chunk /\ m_rd_fill \in Nat
      /\ ch = "cmd" => m_rd_fill = 0
      /\ Chunk \in Nat
    BY <1>1, Constants DEF BufInv, Typing, Phases
<1>3. ASSUME UNCHANGED muxd, UNCHANGED c2n, UNCHANGED fpga,
             m_connected' \in [Channels -> BOOLEAN],
             client' \in [Channels -> {"none", "waiting", "open", "closed"}],
             due' \in [Channels -> Seq(Bytes)]
      PROVE  BufInv'
  <2>1. Typing'
    BY <1>1, <1>3 DEF BufInv, Typing, muxd, fpga
  <2>2. Phases'
    BY <1>1, <1>2, <1>3 DEF Phases, muxd
  <2> QED BY <2>1, <2>2 DEF BufInv
<1>4. CASE UNCHANGED <<muxd, m_connected, client, c2n, fpga, due>>
    BY <1>3, <1>4 DEF BufInv, Typing
<1>5. CASE /\ m_connected' = [m_connected EXCEPT ![ch] = TRUE]
           /\ client' = [client EXCEPT ![ch] = IF @ = "waiting" THEN "open" ELSE @]
           /\ due' = [due EXCEPT ![ch] = OfChannel(Buffered \o fpga_out, ch)]
           /\ UNCHANGED <<muxd, c2n, fpga>>
  <2>1. OfChannel(Buffered \o fpga_out, ch) \in Seq(Bytes)
    <3>1. Buffered \o fpga_out \in Seq(Bytes)
      BY BufferedType, ConcatProperties DEF BufInv, Typing
    <3> QED BY <3>1, OfChannelConcat
  <2>2. due' \in [Channels -> Seq(Bytes)]
    BY <1>5, <2>1 DEF BufInv, Typing
  <2>3. m_connected' \in [Channels -> BOOLEAN]
    BY <1>5 DEF BufInv, Typing
  <2>4. client' \in [Channels -> {"none", "waiting", "open", "closed"}]
    BY <1>5 DEF BufInv, Typing
  <2> QED BY <1>3, <1>5, <2>2, <2>3, <2>4
<1>6. CASE /\ m_connected' = [m_connected EXCEPT ![ch] = FALSE]
           /\ client' = [client EXCEPT ![ch] = "none"]
           /\ due' = [due EXCEPT ![ch] = <<>>]
           /\ UNCHANGED <<muxd, c2n, fpga>>
  <2>1. <<>> \in Seq(Bytes)
    OBVIOUS
  <2>2. due' \in [Channels -> Seq(Bytes)]
    BY <1>6, <2>1 DEF BufInv, Typing
  <2>3. m_connected' \in [Channels -> BOOLEAN]
    BY <1>6 DEF BufInv, Typing
  <2>4. client' \in [Channels -> {"none", "waiting", "open", "closed"}]
    BY <1>6 DEF BufInv, Typing
  <2> QED BY <1>3, <1>6, <2>2, <2>3, <2>4
<1>7. ASSUME NEW n \in 1 .. Least(Chunk, Len(c2n[ch])), NEW k \in 0 .. Len(fpga_out),
             Write(Take(c2n[ch], n), k),
             c2n' = [c2n EXCEPT ![ch] = Drop(@, n)],
             UNCHANGED <<m_connected, client, fsent, due>>
      PROVE  BufInv'
  <2>1. /\ n <= Chunk /\ n \in Nat
        /\ Take(c2n[ch], n) \in Seq(Bytes) /\ Len(Take(c2n[ch], n)) = n
        /\ Drop(c2n[ch], n) \in Seq(Bytes)
    BY TakenFromSocket DEF BufInv
  <2> DEFINE bytes == Take(c2n[ch], n)
  <2>2. /\ k <= n /\ m_rd_pos' = 0 /\ m_rd_fill' = m_rd_fill + k /\ k \in Nat
        /\ m_rd_buf' \in [0 .. BufSize - 1 -> Bytes]
        /\ fpga_out' \in Seq(Bytes) /\ fpga_in' \in Seq(Bytes)
    <3>1. bytes \in Seq(Bytes) /\ Len(bytes) = n /\ Write(bytes, k)
      BY <1>7, <2>1
    <3> HIDE DEF bytes
    <3> QED BY <1>2, <2>1, <3>1, WriteInRoom DEF BufInv
  <2>3. c2n' \in [Channels -> Seq(Bytes)]
    BY <1>7, <2>1 DEF BufInv, Typing
  <2>4. Typing'
    <3>1. m_rd_fill' \in Nat /\ m_rd_pos' \in Nat /\ pc' \in {"con", "poll"}
      BY <1>1, <1>2, <2>2
    <3> QED BY <1>1, <1>7, <2>2, <2>3, <3>1 DEF BufInv, Typing
  <2>5. Phases'
    BY <1>1, <1>2, <2>1, <2>2 DEF Phases
  <2> QED BY <2>4, <2>5 DEF BufInv
<1> QED BY <1>4, <1>5, <1>6, <1>7, ServeStep

LEMMA BufNext ==
    ASSUME BufInv, [Next]_vars
    PROVE  BufInv'
<1>1. CASE Poll
  <2>1. revents' \in [Channels -> {"none", "read", "accept"}]
    BY <1>1 DEF Poll
  <2>2. Typing'
    <3>1. iterations' = 0 /\ pc' = "forward" /\ MaxIter \in Nat
      BY <1>1, Constants DEF Poll
    <3> QED BY <1>1, <2>1, <3>1 DEF Poll, BufInv, Typing, muxd, clients, fpga
  <2>3. Phases'
    BY <1>1, Constants DEF Poll, BufInv, Typing, Phases, muxd
  <2> QED BY <2>2, <2>3 DEF BufInv
<1>2. CASE Forward
    BY <1>2, BufForward
<1>3. CASE ServeCmd
    BY <1>3, BufServe DEF ServeCmd, Channels
<1>4. CASE ServeCon
    BY <1>4, BufServe DEF ServeCon, Channels
<1>5. ASSUME NEW ch \in Channels, Connect(ch)
      PROVE  BufInv'
    BY <1>5 DEF Connect, BufInv, Typing, Phases, muxd, loop, fpga
<1>6. ASSUME NEW ch \in Channels, ClientSend(ch)
      PROVE  BufInv'
  <2>1. nsent' \in [Channels -> Nat] /\ [ch |-> ch, id |-> nsent'[ch]] \in Bytes
    BY <1>6 DEF ClientSend, BufInv, Typing, Bytes
  <2>2. c2n[ch] \in Seq(Bytes)
    BY DEF BufInv, Typing
  <2>3. Append(c2n[ch], [ch |-> ch, id |-> nsent'[ch]]) \in Seq(Bytes)
    BY <2>1, <2>2, AppendProperties
  <2>4. c2n' \in [Channels -> Seq(Bytes)]
    BY <1>6, <2>3 DEF ClientSend, BufInv, Typing
  <2> QED BY <1>6, <2>1, <2>4 DEF ClientSend, BufInv, Typing, Phases, muxd, loop, fpga
<1>7. ASSUME NEW ch \in Channels, ClientClose(ch)
      PROVE  BufInv'
    BY <1>7 DEF ClientClose, BufInv, Typing, Phases, muxd, loop, fpga
<1>8. ASSUME NEW ch \in Channels, FpgaSend(ch)
      PROVE  BufInv'
  <2> DEFINE e == [ch |-> ch, id |-> fsent'[ch]]
  <2>1. fsent' \in [Channels -> Nat] /\ e \in Bytes
    BY <1>8 DEF FpgaSend, BufInv, Typing, Bytes
  <2>2. fpga_out \in Seq(Bytes) /\ due[ch] \in Seq(Bytes)
    BY DEF BufInv, Typing
  <2>3. fpga_out' = Append(fpga_out, e) /\ (due' = due \/ due' = [due EXCEPT ![ch] = Append(@, e)])
    BY <1>8 DEF FpgaSend
  <2> HIDE DEF e
  <2>4. Append(fpga_out, e) \in Seq(Bytes) /\ Append(due[ch], e) \in Seq(Bytes)
    BY <2>1, <2>2, AppendProperties
  <2>5. fpga_out' \in Seq(Bytes) /\ due' \in [Channels -> Seq(Bytes)]
    BY <2>3, <2>4 DEF BufInv, Typing
  <2> QED BY <1>8, <2>1, <2>5 DEF FpgaSend, BufInv, Typing, Phases, muxd, loop, clients
<1>9. CASE UNCHANGED vars
    BY <1>9 DEF vars, BufInv, Typing, Phases, muxd, loop, clients, fpga
<1> QED BY <1>1, <1>2, <1>3, <1>4, <1>5, <1>6, <1>7, <1>8, <1>9 DEF Next

THEOREM BufferInvariant == Spec => []BufInv
<1>1. Init => BufInv
    BY BufInit
<1>2. BufInv /\ [Next]_vars => BufInv'
    BY BufNext
<1> QED BY <1>1, <1>2, PTL DEF Spec

\* The buffer of MUXDCOMMS is never enlarged: however fast both clients and
\* the FPGA send, what waits in it stays within the 8192 bytes the
\* constructor allocated, so the path of write() that forgets to update
\* m_rd_size is never taken.
THEOREM BufferNeverOverflows == Spec => []BufferFits
<1>1. BufInv => BufferFits
    BY Constants DEF BufInv, Typing, Phases, BufferFits, TypeOK
<1> QED BY <1>1, BufferInvariant, PTL

-----------------------------------------------------------------------------
(* What the clients send: InOrder is inductive.                            *)

\* The bytes a client numbers from 1 on
Numbered(n, ch) == [i \in 1 .. n |-> [ch |-> ch, id |-> i]]

LEMMA NumberedIs ==
    ASSUME NEW n \in Nat, NEW ch \in Channels
    PROVE  /\ Numbered(n, ch) \in Seq(Bytes) /\ Len(Numbered(n, ch)) = n
           /\ \A i \in 1 .. n : Numbered(n, ch)[i] = [ch |-> ch, id |-> i]
           /\ Append(Numbered(n, ch), [ch |-> ch, id |-> n + 1]) = Numbered(n + 1, ch)
<1>1. \A i \in 1 .. n + 1 : [ch |-> ch, id |-> i] \in Bytes
    BY DEF Bytes
<1>2. /\ Numbered(n, ch) \in Seq(Bytes) /\ Len(Numbered(n, ch)) = n
      /\ \A i \in 1 .. n : Numbered(n, ch)[i] = [ch |-> ch, id |-> i]
    BY <1>1 DEF Numbered
<1>3. /\ Numbered(n + 1, ch) \in Seq(Bytes) /\ Len(Numbered(n + 1, ch)) = n + 1
      /\ \A i \in 1 .. n + 1 : Numbered(n + 1, ch)[i] = [ch |-> ch, id |-> i]
    BY <1>1 DEF Numbered
<1> DEFINE e == [ch |-> ch, id |-> n + 1]
           t == Append(Numbered(n, ch), e)
<1>4. e \in Bytes
    BY <1>1
<1> HIDE DEF e
<1>5. /\ t \in Seq(Bytes) /\ Len(t) = n + 1
      /\ \A i \in 1 .. n : t[i] = Numbered(n, ch)[i] /\ t[n + 1] = e
    BY <1>2, <1>4, AppendProperties
<1>6. t[n + 1] = e
    BY <1>2, <1>4, AppendProperties
<1> HIDE DEF t
<1>7. \A i \in 1 .. n + 1 : t[i] = Numbered(n + 1, ch)[i]
  <2>1. t[n + 1] = Numbered(n + 1, ch)[n + 1]
    BY <1>3, <1>6 DEF e
  <2>2. ASSUME NEW i \in 1 .. n
        PROVE  t[i] = Numbered(n + 1, ch)[i]
    <3>1. t[i] = Numbered(n, ch)[i] /\ Numbered(n, ch)[i] = [ch |-> ch, id |-> i]
      BY <1>2, <1>5
    <3>2. Numbered(n + 1, ch)[i] = [ch |-> ch, id |-> i]
      BY <1>3
    <3> QED BY <3>1, <3>2
  <2>3. \A i \in 1 .. n + 1 : i \in 1 .. n \/ i = n + 1
    OBVIOUS
  <2> QED BY <2>1, <2>2, <2>3
<1>8. t = Numbered(n + 1, ch)
    BY <1>3, <1>5, <1>7, SeqEqual
<1> QED BY <1>2, <1>8 DEF t, e

\* What lies in a socket is its client's
LEMMA SocketIsItsChannels ==
    ASSUME Typing, InOrder, NEW ch \in Channels
    PROVE  /\ \A i \in 1 .. Len(c2n[ch]) : c2n[ch][i].ch = ch
           /\ \A i \in 1 .. Len(OfChannel(fpga_in, ch)) : OfChannel(fpga_in, ch)[i].id = i
<1> DEFINE a == OfChannel(fpga_in, ch)
           b == c2n[ch]
           n == nsent[ch]
<1>1. a \in Seq(Bytes) /\ b \in Seq(Bytes) /\ n \in Nat
    BY OfChannelConcat DEF Typing
<1>2. a \o b = Numbered(n, ch)
    BY DEF InOrder, Numbered
<1> HIDE DEF a, b, n
<1>3. /\ Len(a) \in Nat /\ Len(b) \in Nat /\ Len(a \o b) = Len(a) + Len(b)
      /\ \A i \in 1 .. Len(a) + Len(b) : (a \o b)[i] = IF i <= Len(a) THEN a[i] ELSE b[i - Len(a)]
    BY <1>1, LenProperties, ConcatProperties
<1>4. /\ n = Len(a) + Len(b)
      /\ \A i \in 1 .. n : (a \o b)[i] = [ch |-> ch, id |-> i]
  <2>1. /\ Len(Numbered(n, ch)) = n
        /\ \A i \in 1 .. n : Numbered(n, ch)[i] = [ch |-> ch, id |-> i]
    BY <1>1, NumberedIs
  <2> QED BY <1>2, <1>3, <2>1
<1>5. ASSUME NEW i \in 1 .. Len(b)
      PROVE  b[i].ch = ch
  <2>1. /\ Len(a) + i \in 1 .. n /\ Len(a) + i \in 1 .. Len(a) + Len(b)
        /\ ~(Len(a) + i <= Len(a)) /\ (Len(a) + i) - Len(a) = i
    BY <1>3, <1>4
  <2>2. (a \o b)[Len(a) + i] = b[i]
    BY <1>3, <2>1
  <2>3. (a \o b)[Len(a) + i] = [ch |-> ch, id |-> Len(a) + i]
    BY <1>4, <2>1
  <2> QED BY <2>2, <2>3
<1>6. ASSUME NEW i \in 1 .. Len(a)
      PROVE  a[i].id = i
  <2>1. i \in 1 .. n /\ i <= Len(a) /\ i \in 1 .. Len(a) + Len(b)
    BY <1>3, <1>4
  <2>2. (a \o b)[i] = a[i]
    BY <1>3, <2>1
  <2>3. (a \o b)[i] = [ch |-> ch, id |-> i]
    BY <1>4, <2>1
  <2> QED BY <2>2, <2>3
<1> QED BY <1>5, <1>6 DEF a, b

LEMMA OrderServe ==
    ASSUME BufInv, InOrder, NEW c \in Channels, NEW next, Serve(c, next),
           \/ c = "cmd" /\ next = "con"
           \/ c = "con" /\ next = "poll"
    PROVE  InOrder'
<1>1. pc = c /\ UNCHANGED nsent
    BY ServeStep
<1>2. CASE UNCHANGED <<c2n, fpga_in>>
    BY <1>1, <1>2 DEF InOrder
<1>3. ASSUME NEW n \in 1 .. Least(Chunk, Len(c2n[c])), NEW k \in 0 .. Len(fpga_out),
             Write(Take(c2n[c], n), k),
             c2n' = [c2n EXCEPT ![c] = Drop(@, n)]
      PROVE  InOrder'
  <2> DEFINE bytes == Take(c2n[c], n)
             rest  == Drop(c2n[c], n)
  <2>1. /\ n \in 0 .. Len(c2n[c]) /\ bytes \in Seq(Bytes) /\ Len(bytes) = n
        /\ rest \in Seq(Bytes) /\ bytes \o rest = c2n[c]
    BY TakenFromSocket DEF BufInv
  <2>2. \A i \in 1 .. Len(bytes) : bytes[i].ch = c
    <3>0. c2n[c] \in Seq(Bytes)
      BY DEF BufInv, Typing
    <3>1. \A i \in 1 .. n : bytes[i] = c2n[c][i]
      BY <2>1, <3>0, TakeAndDrop
    <3>2. \A i \in 1 .. n : i \in 1 .. Len(c2n[c])
      BY <2>1, LenProperties DEF BufInv, Typing
    <3> QED BY <2>1, <3>1, <3>2, SocketIsItsChannels DEF BufInv
  <2>3. fpga_in' = fpga_in \o bytes
    BY <1>3 DEF Write
  <2>4. fpga_in \in Seq(Bytes) /\ \A ch \in Channels : c2n[ch] \in Seq(Bytes)
    BY DEF BufInv, Typing
  <2>5. \A ch \in Channels : c2n'[ch] = IF ch = c THEN rest ELSE c2n[ch]
    BY <1>3 DEF BufInv, Typing
  <2> HIDE DEF bytes, rest
  <2>6. ASSUME NEW ch \in Channels
        PROVE  OfChannel(fpga_in', ch) \o c2n'[ch] = OfChannel(fpga_in, ch) \o c2n[ch]
    <3> DEFINE a == OfChannel(fpga_in, ch)
    <3>1. a \in Seq(Bytes) /\ OfChannel(fpga_in \o bytes, ch) = a \o OfChannel(bytes, ch)
      <4>1. fpga_in \in Streams /\ bytes \in Streams
        BY <2>1, <2>4 DEF Streams
      <4>2. a \in Streams /\ OfChannel(fpga_in \o bytes, ch) = a \o OfChannel(bytes, ch)
        BY <4>1, ChannelsOfStreams
      <4> QED BY <4>2 DEF Streams
    <3>2. OfChannel(bytes, ch) = IF ch = c THEN bytes ELSE <<>>
      BY <2>1, <2>2, OfChannelOne
    <3> HIDE DEF a
    <3>3. CASE ch = c
      <4>0. a \in Seq(Bytes) /\ bytes \in Seq(Bytes) /\ rest \in Seq(Bytes)
        BY <2>1, <3>1
      <4>1. (a \o bytes) \o rest = a \o (bytes \o rest)
        <5>1. a \in Streams /\ bytes \in Streams /\ rest \in Streams
          BY <4>0 DEF Streams
        <5> QED BY <5>1, JoinsOfStreams
      <4> QED BY <2>1, <2>3, <2>5, <3>1, <3>2, <3>3, <4>1 DEF a
    <3>4. CASE ch # c
      <4>1. a \o <<>> = a
        BY <3>1, ConcatEmptySeq
      <4> QED BY <2>3, <2>5, <3>1, <3>2, <3>4, <4>1 DEF a
    <3> QED BY <3>3, <3>4
  <2> QED BY <1>1, <2>6 DEF InOrder
<1> QED BY <1>2, <1>3, ServeStep DEF fpga, muxd

LEMMA OrderSend ==
    ASSUME BufInv, InOrder, NEW c \in Channels, ClientSend(c)
    PROVE  InOrder'
<1> DEFINE n == nsent[c]
           e == [ch |-> c, id |-> n + 1]
<1>1. /\ n \in Nat /\ nsent' = [nsent EXCEPT ![c] = n + 1] /\ nsent'[c] = n + 1
      /\ c2n' = [c2n EXCEPT ![c] = Append(@, e)] /\ c2n'[c] = Append(c2n[c], e)
      /\ UNCHANGED fpga_in
    BY DEF ClientSend, BufInv, Typing, fpga
<1>2. e \in Bytes
    BY <1>1 DEF Bytes
<1>3. OfChannel(fpga_in, c) \o c2n[c] = Numbered(n, c)
    BY DEF InOrder, Numbered
<1>4. OfChannel(fpga_in, c) \in Seq(Bytes) /\ c2n[c] \in Seq(Bytes)
    BY OfChannelConcat DEF BufInv, Typing
<1>5. Append(Numbered(n, c), e) = Numbered(n + 1, c)
    BY <1>1, NumberedIs
<1> HIDE DEF n, e
<1>6. OfChannel(fpga_in, c) \o Append(c2n[c], e) = Append(OfChannel(fpga_in, c) \o c2n[c], e)
  <2> DEFINE a == OfChannel(fpga_in, c)
             b == c2n[c]
  <2>0. a \in Seq(Bytes) /\ b \in Seq(Bytes)
    BY <1>4
  <2> HIDE DEF a, b
  <2>1. Append(b, e) = b \o <<e>> /\ <<e>> \in Seq(Bytes)
    BY <1>2, <2>0, AppendIsConcat
  <2>2. a \o b \in Seq(Bytes) /\ Append(a \o b, e) = (a \o b) \o <<e>>
    BY <1>2, <2>0, ConcatProperties, AppendIsConcat
  <2>3. (a \o b) \o <<e>> = a \o (b \o <<e>>)
    <3> DEFINE d == <<e>>
    <3>1. a \in Streams /\ b \in Streams /\ d \in Streams
      BY <2>0, <2>1 DEF Streams
    <3> HIDE DEF d
    <3>2. (a \o b) \o d = a \o (b \o d)
      BY <3>1, JoinsOfStreams
    <3> QED BY <3>2 DEF d
  <2> QED BY <2>1, <2>2, <2>3 DEF a, b
<1>7. OfChannel(fpga_in', c) \o c2n'[c] = Numbered(nsent'[c], c)
    BY <1>1, <1>3, <1>5, <1>6
<1>8. \A ch \in Channels : ch # c => c2n'[ch] = c2n[ch] /\ nsent'[ch] = nsent[ch]
    BY <1>1 DEF BufInv, Typing
<1>9. ASSUME NEW ch \in Channels
      PROVE  OfChannel(fpga_in', ch) \o c2n'[ch] = Numbered(nsent'[ch], ch)
  <2>1. CASE ch = c
    BY <1>7, <2>1
  <2>2. CASE ch # c
    <3>1. OfChannel(fpga_in, ch) \o c2n[ch] = Numbered(nsent[ch], ch)
      BY DEF InOrder, Numbered
    <3> QED BY <1>1, <1>8, <2>2, <3>1
  <2> QED BY <2>1, <2>2
<1> QED BY <1>9 DEF InOrder, Numbered

THEOREM InOrderInvariant == Spec => []InOrder
<1>1. Init => InOrder
  <2> SUFFICES ASSUME Init, NEW ch \in Channels
               PROVE  OfChannel(fpga_in, ch) \o c2n[ch] = Numbered(nsent[ch], ch)
    BY DEF InOrder, Numbered
  <2>1. OfChannel(fpga_in, ch) = <<>> /\ c2n[ch] = <<>> /\ nsent[ch] = 0
    BY OfChannelEmpty DEF Init
  <2>2. <<>> \o <<>> = <<>> /\ Numbered(0, ch) = <<>>
    BY DEF Numbered
  <2> QED BY <2>1, <2>2
<1>2. BufInv /\ InOrder /\ [Next]_vars => InOrder'
  <2> SUFFICES ASSUME BufInv, InOrder, [Next]_vars
               PROVE  InOrder'
    OBVIOUS
  <2>1. CASE UNCHANGED <<c2n, nsent, fpga_in>>
    BY <2>1 DEF InOrder
  <2>2. CASE Forward
    BY <2>1, <2>2 DEF Forward, ReadPort, clients
  <2>3. CASE ServeCmd
    BY <2>3, OrderServe DEF ServeCmd, Channels
  <2>4. CASE ServeCon
    BY <2>4, OrderServe DEF ServeCon, Channels
  <2>5. ASSUME NEW ch \in Channels, ClientSend(ch)
        PROVE  InOrder'
    BY <2>5, OrderSend
  <2>6. ASSUME NEW ch \in Channels, Connect(ch) \/ ClientClose(ch) \/ FpgaSend(ch)
        PROVE  InOrder'
    BY <2>1, <2>6 DEF Connect, ClientClose, FpgaSend, fpga, clients
  <2>7. CASE Poll \/ UNCHANGED vars
    BY <2>1, <2>7 DEF Poll, vars, fpga, clients
  <2> QED BY <2>2, <2>3, <2>4, <2>5, <2>6, <2>7 DEF Next
<1> QED BY <1>1, <1>2, BufferInvariant, PTL DEF Spec

\* The FPGA gets each client's bytes in the order the client sent them, none
\* missing and none twice, whatever the other client and the FPGA do.
THEOREM ForwardingKeepsOrder == Spec => []ForwardedInOrder
<1>1. BufInv /\ InOrder => ForwardedInOrder
    BY SocketIsItsChannels DEF BufInv, ForwardedInOrder
<1> QED BY <1>1, BufferInvariant, InOrderInvariant, PTL

-----------------------------------------------------------------------------
(* What the FPGA sends: Intact is inductive when one client sends.         *)

LEMMA ComingType ==
    ASSUME BufInv
    PROVE  Buffered \in Seq(Bytes) /\ fpga_out \in Seq(Bytes) /\ Coming \in Seq(Bytes)
BY BufferedType, ConcatProperties DEF BufInv, Typing, Coming

\* A read of the port takes the first bytes of what is coming: it fetches
\* new ones only when it has taken all that waited
LEMMA ReadTakesTheFirst ==
    ASSUME BufInv, BufInv', NEW k \in 0 .. Len(fpga_out), NEW raw \in Seq(Bytes), ReadPort(k, raw)
    PROVE  Coming = raw \o Coming'
<1> DEFINE ln == Least(Chunk, m_rd_fill)
           b  == Buffered
           o  == fpga_out
           b1 == Buffered'
           o1 == fpga_out'
<1>1. /\ ln \in Nat /\ ln <= m_rd_fill /\ ln <= Chunk
      /\ ln = IF Chunk < m_rd_fill THEN Chunk ELSE m_rd_fill
      /\ k <= Chunk - ln /\ k \in 0 .. Len(o)
      /\ m_rd_fill' = m_rd_fill - ln
      /\ m_rd_pos' = IF m_rd_fill - ln = 0 THEN 0 ELSE m_rd_pos + ln
      /\ m_rd_buf' = m_rd_buf
      /\ raw = Take(b, ln) \o Take(o, k)
      /\ o1 = Drop(o, k)
    BY ReadStep
<1>2. /\ b \in Seq(Bytes) /\ o \in Seq(Bytes) /\ b1 \in Seq(Bytes) /\ o1 \in Seq(Bytes)
      /\ Len(b) = m_rd_fill /\ Len(b1) = m_rd_fill'
      /\ \A i \in 1 .. m_rd_fill : b[i] = m_rd_buf[m_rd_pos + i - 1]
      /\ \A i \in 1 .. m_rd_fill' : b1[i] = m_rd_buf'[m_rd_pos' + i - 1]
  <2>1. Buffered \in Seq(Bytes) /\ Len(Buffered) = m_rd_fill
        /\ \A i \in 1 .. m_rd_fill : Buffered[i] = m_rd_buf[m_rd_pos + i - 1]
    BY BufferedType DEF BufInv
  <2>2. (Typing /\ Phases => /\ Buffered \in Seq(Bytes) /\ Len(Buffered) = m_rd_fill
                              /\ \A i \in 1 .. m_rd_fill : Buffered[i] = m_rd_buf[m_rd_pos + i - 1])'
    BY BufferedType, PTL
  <2> QED BY <2>1, <2>2 DEF BufInv, Typing
<1>3. m_rd_pos \in Nat /\ m_rd_fill \in Nat /\ Chunk \in Nat
    BY Constants DEF BufInv, Typing
<1>4. ln \in 0 .. Len(b)
    BY <1>1, <1>2, <1>3
<1> HIDE DEF ln, b, o, b1, o1
<1>5. /\ Take(b, ln) \in Seq(Bytes) /\ Drop(b, ln) \in Seq(Bytes) /\ Take(b, ln) \o Drop(b, ln) = b
      /\ Len(Drop(b, ln)) = Len(b) - ln
      /\ \A i \in 1 .. Len(b) - ln : Drop(b, ln)[i] = b[ln + i]
    BY <1>2, <1>4, TakeAndDrop
<1>6. /\ Take(o, k) \in Seq(Bytes) /\ Drop(o, k) \in Seq(Bytes) /\ Take(o, k) \o Drop(o, k) = o
    BY <1>1, <1>2, TakeAndDrop
<1>7. b1 = Drop(b, ln)
  <2>1. Len(b1) = Len(Drop(b, ln))
    BY <1>1, <1>2, <1>5
  <2>2. ASSUME NEW i \in 1 .. Len(b1)
        PROVE  b1[i] = Drop(b, ln)[i]
    <3>1. i \in 1 .. m_rd_fill - ln /\ m_rd_fill - ln # 0 /\ ln + i \in 1 .. m_rd_fill /\ i \in Nat
      BY <1>1, <1>2, <1>3
    <3>2. b1[i] = m_rd_buf[(m_rd_pos + ln) + i - 1]
      BY <1>1, <1>2, <3>1
    <3>3. Drop(b, ln)[i] = m_rd_buf[m_rd_pos + (ln + i) - 1]
      BY <1>2, <1>5, <3>1
    <3>4. (m_rd_pos + ln) + i - 1 = m_rd_pos + (ln + i) - 1
      BY <1>1, <1>3, <3>1
    <3> QED BY <3>2, <3>3, <3>4
  <2> QED BY <1>2, <1>5, <2>1, <2>2, SeqEqual
<1> DEFINE ta == Take(b, ln)
           da == Drop(b, ln)
           tb == Take(o, k)
           db == Drop(o, k)
<1>8. /\ ta \in Seq(Bytes) /\ da \in Seq(Bytes) /\ tb \in Seq(Bytes) /\ db \in Seq(Bytes)
      /\ ta \o da = b /\ tb \o db = o
    BY <1>5, <1>6
<1>9. tb = <<>> \/ da = <<>>
  <2>1. CASE k = 0
    <3>1. Len(tb) = 0
      BY <1>1, <1>2, <2>1, TakeAndDrop
    <3> QED BY <1>8, <3>1, EmptySeq
  <2>2. CASE k # 0
    <3>1. ln = m_rd_fill
      BY <1>1, <1>3, <2>2
    <3>2. Len(da) = 0
      BY <1>2, <1>3, <1>5, <3>1
    <3> QED BY <1>8, <3>2, EmptySeq
  <2> QED BY <2>1, <2>2
<1> HIDE DEF ta, da, tb, db
<1>10. b \o o = (ta \o tb) \o (da \o db)
  <2>1. CASE tb = <<>>
    <3>1. ta \o tb = ta /\ tb \o db = db
      BY <1>8, <2>1, ConcatEmptySeq
    <3>2. (ta \o da) \o db = ta \o (da \o db)
      <4>1. ta \in Streams /\ da \in Streams /\ db \in Streams
        BY <1>8 DEF Streams
      <4> QED BY <4>1, JoinsOfStreams
    <3> QED BY <1>8, <3>1, <3>2
  <2>2. CASE da = <<>>
    <3>1. ta \o da = ta /\ da \o db = db
      BY <1>8, <2>2, ConcatEmptySeq
    <3>2. (ta \o tb) \o db = ta \o (tb \o db)
      <4>1. ta \in Streams /\ tb \in Streams /\ db \in Streams
        BY <1>8 DEF Streams
      <4> QED BY <4>1, JoinsOfStreams
    <3> QED BY <1>8, <3>1, <3>2
  <2> QED BY <1>9, <2>1, <2>2
<1>11. Coming = b \o o /\ Coming' = b1 \o o1
    BY DEF Coming, b, o, b1, o1
<1> QED BY <1>1, <1>7, <1>10, <1>11 DEF ta, da, tb, db

\* A write into the empty buffer moves bytes from the port to the buffer
LEMMA WriteKeepsComing ==
    ASSUME BufInv, BufInv', m_rd_pos = 0, m_rd_fill = 0,
           NEW bytes \in Seq(Bytes), Len(bytes) <= Chunk, NEW k, Write(bytes, k)
    PROVE  Coming' = Coming
<1> DEFINE o == fpga_out
           b1 == Buffered'
<1>1. /\ k \in 0 .. Len(o) /\ m_rd_pos' = 0 /\ m_rd_fill' = k
      /\ m_rd_buf' = [i \in 0 .. BufSize - 1 |-> IF i \in 0 .. k - 1 THEN o[i + 1] ELSE m_rd_buf[i]]
      /\ fpga_out' = Drop(o, k)
  <2>1. m_rd_fill <= Chunk /\ Typing
    BY Constants DEF BufInv
  <2> QED BY <2>1, WriteInRoom
<1>2. /\ b1 \in Seq(Bytes) /\ Len(b1) = k /\ o \in Seq(Bytes)
      /\ \A i \in 1 .. k : b1[i] = m_rd_buf'[0 + i - 1]
  <2>1. (Typing /\ Phases => /\ Buffered \in Seq(Bytes) /\ Len(Buffered) = m_rd_fill
                              /\ \A i \in 1 .. m_rd_fill : Buffered[i] = m_rd_buf[m_rd_pos + i - 1])'
    BY BufferedType, PTL
  <2> QED BY <1>1, <2>1 DEF BufInv, Typing
<1>3. k \in Nat /\ k <= 2 * Chunk /\ k <= BufSize
    BY <1>1, Constants DEF BufInv, Phases
<1> HIDE DEF o, b1
<1>4. /\ Take(o, k) \in Seq(Bytes) /\ Len(Take(o, k)) = k /\ Take(o, k) \o Drop(o, k) = o
      /\ \A i \in 1 .. k : Take(o, k)[i] = o[i]
  <2>1. o \in Seq(Bytes) /\ k \in 0 .. Len(o)
    BY <1>1, <1>2
  <2> QED BY <2>1, TakeAndDrop
<1>5. ASSUME NEW i \in 1 .. k
      PROVE  b1[i] = Take(o, k)[i]
  <2>1. i - 1 \in 0 .. BufSize - 1 /\ i - 1 \in 0 .. k - 1 /\ (i - 1) + 1 = i /\ 0 + i - 1 = i - 1
    BY <1>3, Constants
  <2>2. m_rd_buf'[i - 1] = o[i]
    BY <1>1, <2>1
  <2> QED BY <1>2, <1>4, <2>1, <2>2
<1>6. b1 = Take(o, k)
    BY <1>2, <1>4, <1>5, SeqEqual
<1>7. Buffered = <<>>
  <2>1. Buffered \in Seq(Bytes) /\ Len(Buffered) = 0
    BY BufferedType DEF BufInv
  <2> QED BY <2>1, EmptySeq
<1>8. Coming = o /\ Coming' = b1 \o Drop(o, k)
  <2>1. <<>> \o o = o
    BY <1>2, ConcatEmptySeq
  <2> QED BY <1>1, <1>7, <2>1 DEF Coming, o, b1
<1> QED BY <1>4, <1>6, <1>8

LEMMA IntactForward ==
    ASSUME BufInv, BufInv', Intact, Forward
    PROVE  Intact'
<1>1. PICK k \in 0 .. Len(fpga_out), raw \in Seq(Bytes) :
         /\ ReadPort(k, raw)
         /\ due' = [ch \in Channels |-> Deliver(ch, OfChannel(raw, ch)).left]
         /\ corrupt' = (corrupt \/ \E ch \in Channels : Deliver(ch, OfChannel(raw, ch)).wrong)
         /\ \/ raw = <<>> /\ pc' = "cmd" /\ iterations' = iterations
            \/ /\ raw # <<>> /\ iterations' = iterations + 1
               /\ pc' = IF iterations' < MaxIter THEN "forward" ELSE "cmd"
            \/ raw # <<>> /\ pc' = "exit" /\ iterations' = iterations
         /\ UNCHANGED <<m_connected, revents, clients, m_rd_buf, fsent, fpga_in>>
    BY ForwardStep
<1>2. Coming = raw \o Coming' /\ Coming' \in Seq(Bytes)
  <2>1. (BufInv => Coming \in Seq(Bytes))'
    BY ComingType, PTL
  <2>2. Coming = raw \o Coming'
    BY <1>1, ReadTakesTheFirst
  <2> QED BY <2>1, <2>2
<1>3. ASSUME NEW ch \in Channels, m_connected[ch]
      PROVE  /\ ~Deliver(ch, OfChannel(raw, ch)).wrong
             /\ Deliver(ch, OfChannel(raw, ch)).left = OfChannel(Coming', ch)
  <2> DEFINE a == OfChannel(raw, ch)
             b == OfChannel(Coming', ch)
  <2>1. a \in Seq(Bytes) /\ b \in Seq(Bytes) /\ OfChannel(raw \o Coming', ch) = a \o b
    <3>1. raw \in Streams /\ Coming' \in Streams
      BY <1>2 DEF Streams
    <3>2. a \in Streams /\ b \in Streams /\ OfChannel(raw \o Coming', ch) = a \o b
      BY <3>1, ChannelsOfStreams
    <3> QED BY <3>2 DEF Streams
  <2>2. due[ch] = a \o b
    BY <1>2, <1>3, <2>1 DEF Intact, DeliveredIntact, Coming
  <2> HIDE DEF a, b
  <2>3. Take(a \o b, Len(a)) = a /\ Drop(a \o b, Len(a)) = b
    BY <2>1, TakeAndDropConcat
  <2>4. ~Deliver(ch, a).wrong /\ Deliver(ch, a).left = b
    BY <1>3, <2>2, <2>3 DEF Deliver
  <2> QED BY <2>4 DEF a, b
<1>4. ASSUME NEW ch \in Channels, m_connected'[ch]
      PROVE  due'[ch] = OfChannel(Coming', ch)
  <2>1. m_connected[ch]
    BY <1>1, <1>4
  <2> QED BY <1>1, <1>3, <2>1
<1>5. \A ch \in Channels : ~Deliver(ch, OfChannel(raw, ch)).wrong
  <2> SUFFICES ASSUME NEW ch \in Channels PROVE ~Deliver(ch, OfChannel(raw, ch)).wrong
    OBVIOUS
  <2>1. CASE m_connected[ch]
    BY <1>3, <2>1
  <2>2. CASE ~m_connected[ch]
    BY <2>2 DEF Deliver
  <2> QED BY <2>1, <2>2
<1>6. ~corrupt'
    BY <1>1, <1>5 DEF Intact, DeliveredIntact
<1>7. DeliveredIntact'
    BY <1>4, <1>6 DEF DeliveredIntact, Coming
<1>8. pc' # "con" /\ c2n' = c2n
    BY <1>1 DEF clients
<1> QED BY <1>7, <1>8 DEF Intact

LEMMA IntactServe ==
    ASSUME BufInv, BufInv', InOrder, Intact, OneSender, NEW c \in Channels, NEW next, Serve(c, next),
           \/ c = "cmd" /\ next = "con"
           \/ c = "con" /\ next = "poll"
    PROVE  Intact'
<1>1. pc = c /\ pc' = next /\ UNCHANGED corrupt
    BY ServeStep
<1>2. c = "cmd" => m_rd_fill = 0 /\ m_rd_pos = 0
    BY <1>1 DEF BufInv, Phases
<1>3. CASE /\ UNCHANGED <<muxd, c2n, fpga>>
           /\ \A ch \in Channels : m_connected'[ch] =>
                 (due'[ch] = due[ch] /\ m_connected[ch]) \/ due'[ch] = OfChannel(Coming, ch)
  <2>1. Coming' = Coming
    BY <1>3 DEF Coming, Buffered, muxd, fpga
  <2>2. \A ch \in Channels : m_connected'[ch] => due'[ch] = OfChannel(Coming, ch)
    BY <1>3 DEF Intact, DeliveredIntact, Coming
  <2>3. DeliveredIntact'
    BY <1>1, <2>1, <2>2 DEF Intact, DeliveredIntact, Coming
  <2>4. pc' = "con" => m_rd_fill' = 0
    BY <1>1, <1>2, <1>3 DEF muxd
  <2> QED BY <1>3, <2>3, <2>4 DEF Intact
<1>4. CASE UNCHANGED <<muxd, m_connected, client, c2n, fpga, due>>
    BY <1>3, <1>4
<1>5. CASE /\ m_connected' = [m_connected EXCEPT ![c] = TRUE]
           /\ due' = [due EXCEPT ![c] = OfChannel(Buffered \o fpga_out, c)]
           /\ UNCHANGED <<muxd, c2n, fpga>>
    BY <1>3, <1>5 DEF Coming, BufInv, Typing
<1>6. CASE /\ m_connected' = [m_connected EXCEPT ![c] = FALSE]
           /\ due' = [due EXCEPT ![c] = <<>>]
           /\ UNCHANGED <<muxd, c2n, fpga>>
    BY <1>3, <1>6 DEF BufInv, Typing
<1>7. ASSUME NEW n \in 1 .. Least(Chunk, Len(c2n[c])), NEW k \in 0 .. Len(fpga_out),
             c2n[c] # <<>>,
             Write(Take(c2n[c], n), k),
             c2n' = [c2n EXCEPT ![c] = Drop(@, n)],
             UNCHANGED <<m_connected, client, fsent, due>>
      PROVE  Intact'
  <2>1. c \in Senders
    BY <1>7 DEF Intact
  <2>2. Senders = {c}
    BY <2>1 DEF OneSender
  <2>3. m_rd_fill = 0 /\ m_rd_pos = 0
    <3>1. CASE c = "cmd"
      BY <1>2, <3>1
    <3>2. CASE c = "con"
      BY <1>1, <2>2, <3>2 DEF Intact, BufInv, Phases
    <3> QED BY <3>1, <3>2
  <2> DEFINE bytes == Take(c2n[c], n)
  <2>4. bytes \in Seq(Bytes) /\ Len(bytes) <= Chunk /\ Write(bytes, k)
    BY <1>7, TakenFromSocket DEF BufInv
  <2> HIDE DEF bytes
  <2>5. Coming' = Coming
    BY <2>3, <2>4, WriteKeepsComing
  <2>6. DeliveredIntact'
    BY <1>1, <1>7, <2>5 DEF Intact, DeliveredIntact, Coming
  <2>7. \A ch \in Channels : ch \notin Senders => c2n'[ch] = <<>>
    BY <1>7, <2>2 DEF Intact, BufInv, Typing
  <2>8. pc' = "con" => "cmd" \in Senders
    BY <1>1, <2>1
  <2> QED BY <2>6, <2>7, <2>8 DEF Intact
<1> QED BY <1>4, <1>5, <1>6, <1>7, ServeStep

LEMMA IntactFpgaSend ==
    ASSUME BufInv, Intact, NEW c \in Channels, FpgaSend(c)
    PROVE  Intact'
<1> DEFINE e == [ch |-> c, id |-> fsent[c] + 1]
<1>1. /\ fpga_out' = Append(fpga_out, e) /\ e \in Bytes /\ e.ch = c
      /\ due' = IF m_connected[c] THEN [due EXCEPT ![c] = Append(@, e)] ELSE due
      /\ UNCHANGED <<muxd, m_connected, loop, clients, corrupt>>
  <2>1. fsent[c] \in Nat /\ fsent'[c] = fsent[c] + 1
    BY DEF FpgaSend, BufInv, Typing
  <2>2. e \in Bytes /\ e.ch = c
    BY <2>1 DEF Bytes
  <2>3. e = [ch |-> c, id |-> fsent'[c]]
    BY <2>1
  <2> HIDE DEF e
  <2>4. /\ fpga_out' = Append(fpga_out, e)
        /\ due' = IF m_connected[c] THEN [due EXCEPT ![c] = Append(@, e)] ELSE due
    BY <2>3 DEF FpgaSend
  <2>5. UNCHANGED <<muxd, m_connected, loop, clients, corrupt>>
    BY DEF FpgaSend
  <2> QED BY <2>2, <2>4, <2>5
<1> HIDE DEF e
<1>2. Coming' = Append(Coming, e)
  <2> DEFINE b == Buffered
             o == fpga_out
  <2>1. b \in Seq(Bytes) /\ o \in Seq(Bytes) /\ <<e>> \in Seq(Bytes)
    BY <1>1, ComingType
  <2>2. Buffered' = Buffered
    BY <1>1 DEF muxd, Buffered
  <2> HIDE DEF b, o
  <2>3. (b \o o) \o <<e>> = b \o (o \o <<e>>)
    <3> DEFINE d == <<e>>
    <3>1. b \in Streams /\ o \in Streams /\ d \in Streams
      BY <2>1 DEF Streams
    <3> HIDE DEF d
    <3>2. (b \o o) \o d = b \o (o \o d)
      BY <3>1, JoinsOfStreams
    <3> QED BY <3>2 DEF d
  <2>4. Append(o, e) = o \o <<e>>
    BY <1>1, <2>1, AppendIsConcat
  <2>5. b \o o \in Seq(Bytes)
    BY <2>1, ConcatProperties
  <2>6. Append(b \o o, e) = (b \o o) \o <<e>>
    BY <1>1, <2>5, AppendIsConcat
  <2>7. Coming = b \o o /\ Coming' = b \o Append(o, e)
    BY <1>1, <2>2 DEF Coming, b, o
  <2> QED BY <2>3, <2>4, <2>6, <2>7
<1>3. ASSUME NEW ch \in Channels, m_connected[ch]
      PROVE  due'[ch] = OfChannel(Coming', ch)
  <2>1. OfChannel(Append(Coming, e), ch)
           = IF e.ch = ch THEN Append(OfChannel(Coming, ch), e) ELSE OfChannel(Coming, ch)
    <3>1. Coming \in Seq(Bytes)
      BY ComingType
    <3> QED BY <1>1, <3>1, OfChannelAppend
  <2>2. due[ch] = OfChannel(Coming, ch)
    BY <1>3 DEF Intact, DeliveredIntact, Coming
  <2>3. due'[ch] = IF ch = c THEN Append(due[ch], e) ELSE due[ch]
    BY <1>1, <1>3 DEF BufInv, Typing
  <2> QED BY <1>1, <1>2, <2>1, <2>2, <2>3
<1>4. DeliveredIntact'
    BY <1>1, <1>3 DEF Intact, DeliveredIntact, Coming
<1> QED BY <1>1, <1>4 DEF Intact, muxd, loop, clients

THEOREM IntactInvariant ==
    ASSUME OneSender
    PROVE  Spec => []Intact
<1>1. Init => Intact
    BY DEF Init, Intact, DeliveredIntact
<1>2. BufInv /\ BufInv' /\ InOrder /\ Intact /\ [Next]_vars => Intact'
  <2> SUFFICES ASSUME BufInv, BufInv', InOrder, Intact, [Next]_vars
               PROVE  Intact'
    OBVIOUS
  <2>1. CASE /\ UNCHANGED <<muxd, m_connected, c2n, fpga_out, due, corrupt>>
             /\ pc' = pc \/ pc' # "con"
    BY <2>1 DEF Intact, DeliveredIntact, Buffered, muxd
  <2>2. CASE Forward
    BY <2>2, IntactForward
  <2>3. CASE ServeCmd
    BY <2>3, IntactServe DEF ServeCmd, Channels
  <2>4. CASE ServeCon
    BY <2>4, IntactServe DEF ServeCon, Channels
  <2>5. ASSUME NEW ch \in Channels, ClientSend(ch)
        PROVE  Intact'
    <3>1. ch \in Senders /\ \A c \in Channels : c # ch => c2n'[c] = c2n[c]
      BY <2>5 DEF ClientSend, BufInv, Typing
    <3>2. UNCHANGED <<muxd, m_connected, pc, fpga_out, due, corrupt>>
      BY <2>5 DEF ClientSend, loop, fpga
    <3> QED BY <3>1, <3>2 DEF Intact, DeliveredIntact, Buffered, muxd
  <2>6. ASSUME NEW ch \in Channels, Connect(ch) \/ ClientClose(ch)
        PROVE  Intact'
    BY <2>1, <2>6 DEF Connect, ClientClose, fpga, loop
  <2>7. ASSUME NEW ch \in Channels, FpgaSend(ch)
        PROVE  Intact'
    BY <2>7, IntactFpgaSend
  <2>8. CASE Poll \/ UNCHANGED vars
    BY <2>1, <2>8 DEF Poll, vars, fpga, clients, loop
  <2> QED BY <2>2, <2>3, <2>4, <2>5, <2>6, <2>7, <2>8 DEF Next
<1> QED BY <1>1, <1>2, BufferInvariant, InOrderInvariant, PTL DEF Spec

\* While only one of the clients sends, a connected client gets exactly what
\* the FPGA sends on its channel from the moment it is accepted: each byte
\* once, in order, whatever the fetches, the writes and the rounds of
\* forwarding do between.  (With both sending it is not so: see the buffer:
\* the second write of a round stores over what the first brought back.)
THEOREM DeliveryIsIntact ==
    ASSUME OneSender
    PROVE  Spec => []DeliveredIntact
<1>1. Intact => DeliveredIntact
    BY DEF Intact
<1> QED BY <1>1, IntactInvariant, PTL
=============================================================================
