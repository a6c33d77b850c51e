-------------------------- MODULE LinAdapterProofs --------------------------
(***************************************************************************)
(* Proofs about LinAdapter, for any options, depths and identifiers: the   *)
(* numbers of the messages tell what was dropped, and the Block policy     *)
(* drops nothing.                                                          *)
(***************************************************************************)
EXTENDS LinAdapter, SequenceTheorems, TLAPS

-----------------------------------------------------------------------------
(* What a subscription is made of, and what holds of it at every moment.   *)

ChecksumTypes == {"classic", "enhanced"}

Frames == [id : 0..MaxID, ct : ChecksumTypes, stamp : 1..MaxHeaders]

Messages == [id : 0..MaxID, ct : ChecksumTypes, seq : Nat, stamp : 1..MaxHeaders]

Threads == [at : {"recv", "offer", "done"}, seq : Nat, msg : Messages \cup {NoMessage}]

OutChannels == [items : Seq(Messages), policy : {"DropNewest", "DropOldest", "Block"},
                depth : Nat \ {0}, closed : BOOLEAN]

Structure ==
    /\ Len(out) \in 0..MaxSubs
    /\ DOMAIN responses \subseteq 0..MaxID
    /\ \A i \in DOMAIN responses : responses[i] \in ChecksumTypes
    /\ busClosed \in BOOLEAN /\ sent \in 0..MaxHeaders /\ ended \subseteq Subs
    /\ frameCh \in Seq(Seq(Frames)) /\ entered \in Seq(Seq(Frames))
    /\ pump \in Seq(Threads) /\ out \in Seq(OutChannels) /\ got \in Seq(Seq(Messages))
    /\ Len(frameCh) = Len(out) /\ Len(entered) = Len(out)
    /\ Len(pump) = Len(out) /\ Len(got) = Len(out)

(* Message m carries frame m.seq of the frames e. *)
Carries(m, e) ==
    m.seq \in DOMAIN e /\ [id |-> m.id, ct |-> m.ct, stamp |-> m.stamp] = e[m.seq]

(* The thread p has taken the first p.seq frames of e, the others wait in  *)
(* the bus's channel q, and the message it holds carries the last it took. *)
FirstHop(q, p, e) ==
    /\ p.seq + Len(q) = Len(e)
    /\ \A i \in 1..Len(q) : q[i] = e[p.seq + i]
    /\ p.at = "offer" => p.msg \in Messages /\ p.msg.seq = p.seq /\ Carries(p.msg, e)

(* The number of the last message that was offered to the second channel. *)
Offered(p) == IF p.at = "offer" THEN p.seq - 1 ELSE p.seq

(* The messages g were read and q wait, of the first n that were offered. *)
SecondHop(g, q, e, n) ==
    /\ \A i \in 1..Len(g) : Carries(g[i], e) /\ g[i].seq <= n
    /\ \A j \in 1..Len(q) : Carries(q[j], e) /\ q[j].seq <= n
    /\ \A i, j \in 1..Len(g) : i < j => g[i].seq < g[j].seq
    /\ \A i, j \in 1..Len(q) : i < j => q[i].seq < q[j].seq
    /\ \A i \in 1..Len(g), j \in 1..Len(q) : g[i].seq < q[j].seq

(* None of them was dropped. *)
Whole(g, q, n) ==
    /\ \A i \in 1..Len(g) : g[i].seq = i
    /\ \A j \in 1..Len(q) : q[j].seq = Len(g) + j
    /\ Len(g) + Len(q) = n

(* A thread ends with nothing left to forward, and closes its channel; a   *)
(* consumer is told of the end with nothing left to read.                  *)
Ends(s) ==
    /\ pump[s].at = "done" => busClosed /\ frameCh[s] = << >>
    /\ out[s].closed => pump[s].at = "done" \/ s \in SelfClosers
    /\ s \in ended => out[s].closed /\ out[s].items = << >>

SubInv(s) ==
    /\ Len(frameCh[s]) <= InnerDepth /\ Len(out[s].items) <= out[s].depth
    /\ FirstHop(frameCh[s], pump[s], entered[s])
    /\ SecondHop(got[s], out[s].items, entered[s], Offered(pump[s]))
    /\ out[s].policy = "Block" /\ s \notin SelfClosers =>
           Whole(got[s], out[s].items, Offered(pump[s]))
    /\ Ends(s)

IInv == Structure /\ \A s \in Subs : SubInv(s)

-----------------------------------------------------------------------------
(* Lemmas about the two hops.                                              *)

LEMMA SeqOfMessages ==
    ASSUME NEW g \in Seq(Messages)
    PROVE  /\ Len(g) \in Nat
           /\ \A i \in 1..Len(g) : g[i] \in Messages /\ g[i].seq \in Nat
<1>1. \A i \in 1..Len(g) : g[i] \in Messages
  BY ElementOfSeq
<1> QED BY <1>1, LenProperties DEF Messages

(* A frame that enters the first channel. *)
LEMMA EnterFirst ==
    ASSUME NEW q \in Seq(Frames), NEW e \in Seq(Frames), NEW p \in Threads, NEW f \in Frames,
           FirstHop(q, p, e)
    PROVE  FirstHop(Append(q, f), p, Append(e, f))
<1>1. /\ Len(q) \in Nat /\ Len(e) \in Nat /\ p.seq \in Nat
      /\ DOMAIN e = 1..Len(e) /\ DOMAIN Append(e, f) = 1..Len(e) + 1
      /\ Len(Append(q, f)) = Len(q) + 1 /\ Append(q, f)[Len(q) + 1] = f
      /\ Len(Append(e, f)) = Len(e) + 1 /\ Append(e, f)[Len(e) + 1] = f
      /\ \A i \in 1..Len(q) : Append(q, f)[i] = q[i]
      /\ \A i \in 1..Len(e) : Append(e, f)[i] = e[i]
  BY AppendProperties, LenProperties DEF Threads
<1>2. p.seq + Len(Append(q, f)) = Len(Append(e, f))
  BY <1>1 DEF FirstHop
<1>3. ASSUME NEW i \in 1..Len(Append(q, f)) PROVE Append(q, f)[i] = Append(e, f)[p.seq + i]
  <2>1. CASE i = Len(q) + 1
    <3>1. p.seq + i = Len(e) + 1
      <4>1. p.seq + Len(q) = Len(e)
        BY DEF FirstHop
      <4> QED BY <1>1, <2>1, <4>1
    <3> QED BY <1>1, <2>1, <3>1
  <2>2. CASE i # Len(q) + 1
    <3>1. i \in 1..Len(q) /\ p.seq + i \in 1..Len(e)
      BY <1>1, <2>2 DEF FirstHop
    <3> QED BY <1>1, <3>1 DEF FirstHop
  <2> QED BY <2>1, <2>2
<1>4. ASSUME p.at = "offer"
      PROVE  p.msg \in Messages /\ p.msg.seq = p.seq /\ Carries(p.msg, Append(e, f))
  BY <1>1, <1>4 DEF FirstHop, Carries
<1> QED BY <1>2, <1>3, <1>4 DEF FirstHop

(* The thread takes the next frame and numbers it. *)
LEMMA TakeFirst ==
    ASSUME NEW q \in Seq(Frames), NEW e \in Seq(Frames), NEW p \in Threads,
           FirstHop(q, p, e), q # << >>, p.at = "recv"
    PROVE  LET f == Head(q)
               n == p.seq + 1
               r == [at |-> "offer", seq |-> n,
                     msg |-> [id |-> f.id, ct |-> f.ct, seq |-> n, stamp |-> f.stamp]]
           IN  /\ FirstHop(Tail(q), r, e) /\ r \in Threads /\ Tail(q) \in Seq(Frames)
               /\ Offered(r) = Offered(p) /\ Len(Tail(q)) <= Len(q)
<1> DEFINE f == Head(q)
           n == p.seq + 1
           m == [id |-> f.id, ct |-> f.ct, seq |-> n, stamp |-> f.stamp]
           r == [at |-> "offer", seq |-> n, msg |-> m]
           t == Tail(q)
<1>1. /\ Len(q) \in Nat /\ Len(e) \in Nat /\ p.seq \in Nat /\ n \in Nat
      /\ f \in Frames /\ DOMAIN e = 1..Len(e)
  BY HeadTailProperties, LenProperties DEF Threads
<1>2. t \in Seq(Frames) /\ Len(t) = Len(q) - 1 /\ \A i \in 1..Len(t) : t[i] = q[i + 1]
  BY HeadTailProperties
<1>3. Len(q) \in Nat \ {0} /\ f = q[1]
  BY EmptySeq
<1>4. m \in Messages /\ m.seq = n /\ f = [id |-> m.id, ct |-> m.ct, stamp |-> m.stamp]
  BY <1>1 DEF Messages, Frames
<1>5. r \in Threads /\ r.at = "offer" /\ r.seq = n /\ r.msg = m
  BY <1>1, <1>4 DEF Threads
<1> HIDE DEF f, m, r, t
<1>6. n \in 1..Len(e) /\ e[n] = f
  BY <1>1, <1>3 DEF FirstHop
<1>7. Carries(m, e)
  BY <1>1, <1>4, <1>6 DEF Carries
<1>8. n + Len(t) = Len(e)
  BY <1>1, <1>2 DEF FirstHop
<1>9. ASSUME NEW i \in 1..Len(t) PROVE t[i] = e[n + i]
  <2>1. i \in Nat /\ i >= 1 /\ i <= Len(q) - 1
    BY <1>1, <1>2
  <2>2. i + 1 \in 1..Len(q) /\ p.seq + (i + 1) = n + i
    BY <1>1, <2>1
  <2> QED BY <1>2, <2>2 DEF FirstHop
<1>10. FirstHop(t, r, e)
  BY <1>4, <1>5, <1>7, <1>8, <1>9 DEF FirstHop
<1>11. Offered(r) = Offered(p)
  BY <1>1, <1>5 DEF Offered
<1> QED BY <1>1, <1>2, <1>5, <1>10, <1>11 DEF f, m, r, t

(* What was offered before is carried by more frames, and is below more.   *)
LEMMA LaterSecond ==
    ASSUME NEW g \in Seq(Messages), NEW q \in Seq(Messages), NEW e \in Seq(Frames),
           NEW n \in Int, NEW k \in Int, n <= k, SecondHop(g, q, e, n)
    PROVE  SecondHop(g, q, e, k)
<1>1. \A i \in 1..Len(g) : g[i].seq \in Nat
  BY SeqOfMessages
<1>2. \A i \in 1..Len(q) : q[i].seq \in Nat
  BY SeqOfMessages
<1> QED BY <1>1, <1>2 DEF SecondHop

LEMMA EnterSecond ==
    ASSUME NEW g \in Seq(Messages), NEW q \in Seq(Messages), NEW e \in Seq(Frames),
           NEW n, NEW f \in Frames, SecondHop(g, q, e, n)
    PROVE  SecondHop(g, q, Append(e, f), n)
<1>1. /\ DOMAIN e = 1..Len(e) /\ DOMAIN Append(e, f) = 1..Len(e) + 1 /\ Len(e) \in Nat
      /\ \A i \in 1..Len(e) : Append(e, f)[i] = e[i]
  BY AppendProperties, LenProperties
<1>2. \A m : Carries(m, e) => Carries(m, Append(e, f))
  BY <1>1 DEF Carries
<1> QED BY <1>2 DEF SecondHop

(* The next message is put into the second channel. *)
LEMMA PushSecond ==
    ASSUME NEW g \in Seq(Messages), NEW q \in Seq(Messages), NEW e \in Seq(Frames),
           NEW n \in Nat, NEW m \in Messages, Carries(m, e), m.seq = n + 1,
           SecondHop(g, q, e, n)
    PROVE  SecondHop(g, Append(q, m), e, n + 1)
<1> DEFINE u == Append(q, m)
<1>1. /\ Len(q) \in Nat /\ Len(u) = Len(q) + 1 /\ u[Len(q) + 1] = m
      /\ \A i \in 1..Len(q) : u[i] = q[i]
  BY AppendProperties, LenProperties
<1>2. \A i \in 1..Len(g) : g[i].seq \in Nat
  BY SeqOfMessages
<1>3. \A i \in 1..Len(q) : q[i].seq \in Nat
  BY SeqOfMessages
<1> HIDE DEF u
<1>4. \A i \in 1..Len(u) : i = Len(q) + 1 \/ i \in 1..Len(q)
  BY <1>1
<1>5. \A i \in 1..Len(g) : g[i].seq <= n + 1 /\ g[i].seq < m.seq
  BY <1>2 DEF SecondHop
<1>6. \A i \in 1..Len(u) : u[i].seq <= n + 1 /\ Carries(u[i], e)
  BY <1>1, <1>3, <1>4 DEF SecondHop
<1>7. ASSUME NEW i \in 1..Len(u), NEW j \in 1..Len(u), i < j PROVE u[i].seq < u[j].seq
  <2>1. i \in 1..Len(q)
    BY <1>1, <1>7
  <2>2. CASE j = Len(q) + 1
    BY <1>1, <1>3, <2>1, <2>2 DEF SecondHop
  <2>3. CASE j \in 1..Len(q)
    BY <1>1, <1>7, <2>1, <2>3 DEF SecondHop
  <2> QED BY <1>4, <2>2, <2>3
<1>8. \A i \in 1..Len(g), j \in 1..Len(u) : g[i].seq < u[j].seq
  BY <1>1, <1>4, <1>5 DEF SecondHop
<1> QED BY <1>5, <1>6, <1>7, <1>8 DEF SecondHop, u

(* The oldest message is evicted. *)
LEMMA TailSecond ==
    ASSUME NEW g \in Seq(Messages), NEW q \in Seq(Messages), NEW e \in Seq(Frames),
           NEW n, q # << >>, SecondHop(g, q, e, n)
    PROVE  SecondHop(g, Tail(q), e, n)
<1>1. /\ Len(q) \in Nat /\ Len(Tail(q)) = Len(q) - 1
      /\ \A i \in 1..Len(Tail(q)) : Tail(q)[i] = q[i + 1]
  BY HeadTailProperties, LenProperties
<1>2. \A i \in 1..Len(Tail(q)) : i + 1 \in 1..Len(q)
  BY <1>1
<1>3. \A i, j \in 1..Len(Tail(q)) : i < j => i + 1 < j + 1
  BY <1>1
<1> QED BY <1>1, <1>2, <1>3 DEF SecondHop

(* The consumer reads the oldest message. *)
LEMMA ReadSecond ==
    ASSUME NEW g \in Seq(Messages), NEW q \in Seq(Messages), NEW e \in Seq(Frames),
           NEW n, q # << >>, SecondHop(g, q, e, n)
    PROVE  SecondHop(Append(g, Head(q)), Tail(q), e, n)
<1> DEFINE h == Append(g, Head(q))
           t == Tail(q)
<1>1. /\ Len(q) \in Nat \ {0} /\ Len(t) = Len(q) - 1 /\ Head(q) = q[1]
      /\ \A i \in 1..Len(t) : t[i] = q[i + 1]
  BY HeadTailProperties, LenProperties, EmptySeq
<1>2. /\ Len(g) \in Nat /\ Len(h) = Len(g) + 1 /\ h[Len(g) + 1] = q[1]
      /\ \A i \in 1..Len(g) : h[i] = g[i]
  BY <1>1, HeadTailProperties, AppendProperties, LenProperties
<1> HIDE DEF h, t
<1>3. \A i \in 1..Len(h) : i = Len(g) + 1 \/ i \in 1..Len(g)
  BY <1>2
<1>4. 1 \in 1..Len(q) /\ \A i \in 1..Len(t) : i + 1 \in 1..Len(q) /\ 1 < i + 1
  BY <1>1
<1>5. \A i \in 1..Len(h) : Carries(h[i], e) /\ h[i].seq <= n
  BY <1>2, <1>3, <1>4 DEF SecondHop
<1>6. \A i \in 1..Len(t) : Carries(t[i], e) /\ t[i].seq <= n
  BY <1>1, <1>4 DEF SecondHop
<1>7. ASSUME NEW i \in 1..Len(h), NEW j \in 1..Len(h), i < j PROVE h[i].seq < h[j].seq
  <2>1. i \in 1..Len(g)
    BY <1>2, <1>7
  <2> QED BY <1>2, <1>3, <1>4, <1>7, <2>1 DEF SecondHop
<1>8. ASSUME NEW i \in 1..Len(t), NEW j \in 1..Len(t), i < j PROVE t[i].seq < t[j].seq
  <2>1. i + 1 < j + 1
    BY <1>1, <1>8
  <2> QED BY <1>1, <1>4, <2>1 DEF SecondHop
<1>9. \A i \in 1..Len(h), j \in 1..Len(t) : h[i].seq < t[j].seq
  BY <1>1, <1>2, <1>3, <1>4 DEF SecondHop
<1> QED BY <1>5, <1>6, <1>7, <1>8, <1>9 DEF SecondHop, h, t

(* The same without drops. *)
LEMMA PushWhole ==
    ASSUME NEW g \in Seq(Messages), NEW q \in Seq(Messages), NEW n \in Nat,
           NEW m \in Messages, m.seq = n + 1, Whole(g, q, n)
    PROVE  Whole(g, Append(q, m), n + 1)
<1>1. /\ Len(g) \in Nat /\ Len(q) \in Nat
      /\ Len(Append(q, m)) = Len(q) + 1 /\ Append(q, m)[Len(q) + 1] = m
      /\ \A i \in 1..Len(q) : Append(q, m)[i] = q[i]
  BY AppendProperties, LenProperties
<1>2. Len(g) + Len(q) = n
  BY DEF Whole
<1>3. Len(g) + (Len(q) + 1) = n + 1
  BY <1>1, <1>2
<1>4. ASSUME NEW i \in 1..Len(Append(q, m)) PROVE Append(q, m)[i].seq = Len(g) + i
  <2>1. CASE i = Len(q) + 1
    BY <1>1, <1>3, <2>1
  <2>2. CASE i \in 1..Len(q)
    BY <1>1, <2>2 DEF Whole
  <2> QED BY <1>1, <2>1, <2>2
<1> QED BY <1>1, <1>3, <1>4 DEF Whole

LEMMA ReadWhole ==
    ASSUME NEW g \in Seq(Messages), NEW q \in Seq(Messages), NEW n \in Int, q # << >>,
           Whole(g, q, n)
    PROVE  Whole(Append(g, Head(q)), Tail(q), n)
<1> DEFINE h == Append(g, Head(q))
           t == Tail(q)
<1>1. /\ Len(q) \in Nat \ {0} /\ Len(t) = Len(q) - 1 /\ Head(q) = q[1]
      /\ \A i \in 1..Len(t) : t[i] = q[i + 1]
  BY HeadTailProperties, LenProperties, EmptySeq
<1>2. /\ Len(g) \in Nat /\ Len(h) = Len(g) + 1 /\ h[Len(g) + 1] = q[1]
      /\ \A i \in 1..Len(g) : h[i] = g[i]
  BY <1>1, HeadTailProperties, AppendProperties, LenProperties
<1> HIDE DEF h, t
<1>3. \A i \in 1..Len(h) : i = Len(g) + 1 \/ i \in 1..Len(g)
  BY <1>2
<1>4. \A i \in 1..Len(h) : h[i].seq = i
  BY <1>1, <1>2, <1>3 DEF Whole
<1>5. \A i \in 1..Len(t) : t[i].seq = Len(h) + i
  <2>1. \A i \in 1..Len(t) : i + 1 \in 1..Len(q) /\ Len(g) + (i + 1) = Len(h) + i
    BY <1>1, <1>2
  <2> QED BY <1>1, <2>1 DEF Whole
<1>6. Len(h) + Len(t) = n
  <2>1. Len(g) + Len(q) = n
    BY DEF Whole
  <2>2. PICK a \in Nat, b \in Nat : a = Len(g) /\ b = Len(q)
    BY <1>1, <1>2
  <2>3. (a + 1) + (b - 1) = a + b
    OBVIOUS
  <2>4. Len(h) = a + 1 /\ Len(t) = b - 1 /\ n = a + b
    BY <1>1, <1>2, <2>1, <2>2
  <2> QED BY <2>3, <2>4
<1> QED BY <1>4, <1>5, <1>6 DEF Whole, h, t

-----------------------------------------------------------------------------
(* The steps.                                                              *)

(* Every subscription has its parts. *)
LEMMA Parts ==
    ASSUME Structure
    PROVE  /\ Subs = 1..Len(out) /\ Len(out) \in Nat
           /\ DOMAIN frameCh = Subs /\ DOMAIN pump = Subs /\ DOMAIN got = Subs
           /\ DOMAIN entered = Subs
           /\ \A s \in Subs : /\ frameCh[s] \in Seq(Frames) /\ entered[s] \in Seq(Frames)
                              /\ pump[s] \in Threads /\ out[s] \in OutChannels
                              /\ got[s] \in Seq(Messages) /\ out[s].items \in Seq(Messages)
                              /\ s \in Nat
<1>1. /\ Subs = 1..Len(out) /\ Len(out) \in Nat
      /\ DOMAIN frameCh = 1..Len(out) /\ DOMAIN pump = 1..Len(out)
      /\ DOMAIN got = 1..Len(out) /\ DOMAIN entered = 1..Len(out)
  BY LenProperties DEF Structure, Subs
<1>2. ASSUME NEW s \in Subs
      PROVE  /\ frameCh[s] \in Seq(Frames) /\ entered[s] \in Seq(Frames)
             /\ pump[s] \in Threads /\ out[s] \in OutChannels /\ got[s] \in Seq(Messages)
  BY <1>1, ElementOfSeq DEF Structure
<1> QED BY <1>1, <1>2 DEF OutChannels

(* A subscription that the step leaves alone. *)
LEMMA SubStays ==
    ASSUME NEW s, SubInv(s), frameCh'[s] = frameCh[s], pump'[s] = pump[s], out'[s] = out[s],
           got'[s] = got[s], entered'[s] = entered[s], s \in ended' <=> s \in ended,
           busClosed => busClosed'
    PROVE  SubInv(s)'
BY DEF SubInv, Ends

(* A step of one subscription. *)
LEMMA OthersStay ==
    ASSUME IInv, NEW t \in Subs, DOMAIN out' = DOMAIN out, Structure',
           \A s \in Subs \ {t} : /\ frameCh'[s] = frameCh[s] /\ pump'[s] = pump[s]
                                 /\ out'[s] = out[s] /\ got'[s] = got[s]
                                 /\ entered'[s] = entered[s] /\ (s \in ended' <=> s \in ended),
           UNCHANGED busClosed, SubInv(t)'
    PROVE  IInv'
<1>1. \A s \in Subs \ {t} : SubInv(s)'
  BY SubStays DEF IInv
<1> QED BY <1>1 DEF IInv, Subs

LEMMA InitInv == Init => IInv
<1> SUFFICES ASSUME Init PROVE IInv
  OBVIOUS
<1>1. /\ DOMAIN << >> = {} /\ Len(<< >>) = 0 /\ \A S : << >> \in Seq(S)
  BY EmptySeq
<1>2. MaxSubs \in Nat /\ MaxHeaders \in Nat
  BY AdapterAssumption
<1>3. Structure
  <2>1. /\ << >> \in Seq(Seq(Frames)) /\ << >> \in Seq(Threads)
        /\ << >> \in Seq(OutChannels) /\ << >> \in Seq(Seq(Messages))
    BY EmptySeq
  <2>2. 0 \in 0..MaxSubs /\ 0 \in 0..MaxHeaders
    BY <1>2
  <2> QED BY <1>1, <2>1, <2>2 DEF Init, Structure, Subs
<1>4. Subs = {}
  BY <1>1 DEF Init, Subs
<1> QED BY <1>3, <1>4 DEF IInv

LEMMA SendInv ==
    ASSUME IInv, NEW id \in Texts, NEW meta \in ChecksumMeta, NEW empty \in BOOLEAN,
           Send(id, meta, empty)
    PROVE  IInv'
<1>1. id \in 0..MaxID
  BY AdapterAssumption DEF Send, Converts
<1>2. ChecksumOf(id, meta) \in ChecksumTypes
  BY DEF ChecksumOf, ChecksumTypes
<1>3. /\ DOMAIN responses' \subseteq 0..MaxID
      /\ \A i \in DOMAIN responses' : responses'[i] \in ChecksumTypes
  BY <1>1, <1>2 DEF Send, Register, Deregister, IInv, Structure
<1>4. UNCHANGED <<busClosed, frameCh, pump, out, got, ended, sent, entered>>
  BY DEF Send
<1>5. Structure'
  BY <1>3, <1>4 DEF IInv, Structure, Subs
<1> QED BY <1>4, <1>5, SubStays DEF IInv, Subs

LEMMA CloseInv == IInv /\ Close => IInv'
<1> SUFFICES ASSUME IInv, Close PROVE IInv'
  OBVIOUS
<1>1. /\ UNCHANGED <<responses, frameCh, pump, out, got, ended, sent, entered>>
      /\ busClosed' = TRUE
  BY DEF Close
<1>2. Structure'
  BY <1>1 DEF IInv, Structure, Subs
<1> QED BY <1>1, <1>2, SubStays DEF IInv, Subs

(* What the options say is a policy and a depth. *)
LEMMA OptionsType ==
    ASSUME NEW opts \in Requests, NEW cfg \in apply_options(opts)
    PROVE  /\ cfg.policy \in {"DropNewest", "DropOldest", "Block"}
           /\ effective_depth(cfg, DefaultDepth) \in Nat \ {0}
<1> DEFINE Policies == [policy : {"DropNewest", "DropOldest", "Block"}]
           Depths == [depth : Int]
<1>1. opts \in Seq(Policies \cup Depths) /\ DefaultDepth \in Nat \ {0}
  BY AdapterAssumption
<1>2. \A i \in DOMAIN opts : opts[i] \in Policies \cup Depths
  BY <1>1, ElementOfSeq, LenProperties
<1>3. \A i \in DOMAIN opts : "policy" \in DOMAIN opts[i] => opts[i].policy \in
                                 {"DropNewest", "DropOldest", "Block"}
  BY <1>2
<1>4. \A i \in DOMAIN opts : "depth" \in DOMAIN opts[i] => opts[i].depth \in Int
  BY <1>2
<1>5. /\ cfg.policy \in Said(opts, "policy", "DropNewest")
      /\ cfg.depth \in Said(opts, "depth", 0)
  BY DEF apply_options
<1>6. cfg.policy \in {"DropNewest", "DropOldest", "Block"}
  BY <1>3, <1>5 DEF Said
<1>7. cfg.depth \in Int
  BY <1>4, <1>5 DEF Said
<1> QED BY <1>1, <1>6, <1>7 DEF effective_depth

LEMMA SubscribeInv == ASSUME IInv, NEW opts \in Requests, Subscribe(opts) PROVE IInv'
<1>1. PICK cfg \in apply_options(opts) :
          out' = Append(out, [items |-> << >>, policy |-> cfg.policy,
                              depth |-> effective_depth(cfg, DefaultDepth),
                              closed |-> FALSE])
  BY DEF Subscribe
<1>2. PICK o : o = [items |-> << >>, policy |-> cfg.policy,
                    depth |-> effective_depth(cfg, DefaultDepth), closed |-> FALSE]
  OBVIOUS
<1>3. PICK p : p = [at |-> "recv", seq |-> 0, msg |-> NoMessage]
  OBVIOUS
<1>4. o \in OutChannels /\ p \in Threads /\ o.items = << >> /\ ~o.closed /\ p.at = "recv"
      /\ p.seq = 0 /\ o.depth \in Nat
  BY <1>2, <1>3, OptionsType, EmptySeq DEF OutChannels, Threads
<1>5. PICK n \in Nat : n = Len(out)
  BY Parts DEF IInv, Structure
<1>6. /\ n < MaxSubs /\ Subs = 1..n /\ ended \subseteq 1..n
      /\ out \in Seq(OutChannels) /\ pump \in Seq(Threads) /\ got \in Seq(Seq(Messages))
      /\ frameCh \in Seq(Seq(Frames)) /\ entered \in Seq(Seq(Frames))
      /\ Len(pump) = n /\ Len(got) = n /\ Len(frameCh) = n /\ Len(entered) = n
  BY <1>5, Parts DEF IInv, Structure, Subscribe
<1>7. /\ out' \in Seq(OutChannels) /\ Len(out') = n + 1 /\ out'[n + 1] = o
      /\ \A s \in 1..n : out'[s] = out[s]
  BY <1>1, <1>2, <1>4, <1>5, <1>6, AppendProperties
<1>8. /\ pump' \in Seq(Threads) /\ Len(pump') = n + 1 /\ pump'[n + 1] = p
      /\ \A s \in 1..n : pump'[s] = pump[s]
  BY <1>3, <1>4, <1>6, AppendProperties DEF Subscribe
<1>9. /\ got' \in Seq(Seq(Messages)) /\ Len(got') = n + 1 /\ got'[n + 1] = << >>
      /\ \A s \in 1..n : got'[s] = got[s]
  <2>1. << >> \in Seq(Messages)
    BY EmptySeq
  <2> QED BY <1>6, <2>1, AppendProperties DEF Subscribe
<1>10. << >> \in Seq(Frames)
  BY EmptySeq
<1>11. /\ frameCh' \in Seq(Seq(Frames)) /\ Len(frameCh') = n + 1 /\ frameCh'[n + 1] = << >>
       /\ \A s \in 1..n : frameCh'[s] = frameCh[s]
  BY <1>6, <1>10, AppendProperties DEF Subscribe
<1>12. /\ entered' \in Seq(Seq(Frames)) /\ Len(entered') = n + 1 /\ entered'[n + 1] = << >>
       /\ \A s \in 1..n : entered'[s] = entered[s]
  BY <1>6, <1>10, AppendProperties DEF Subscribe
<1>13. UNCHANGED <<responses, busClosed, ended, sent>>
  BY DEF Subscribe
<1>14. Subs' = 1..n + 1
  BY <1>7, LenProperties DEF Subs
<1>15. Structure'
  <2>1. n + 1 \in 0..MaxSubs /\ ended' \subseteq Subs'
    BY <1>5, <1>6, <1>13, <1>14, AdapterAssumption
  <2> QED BY <1>6, <1>7, <1>8, <1>9, <1>11, <1>12, <1>13, <2>1 DEF IInv, Structure
<1>16. \A s \in 1..n : SubInv(s)'
  BY <1>6, <1>7, <1>8, <1>9, <1>11, <1>12, <1>13, SubStays DEF IInv
<1>17. SubInv(n + 1)'
  <2>1. PICK s \in Nat : s = n + 1
    OBVIOUS
  <2>2. s \notin ended'
    BY <1>6, <1>13, <2>1
  <2>3. /\ frameCh'[s] = << >> /\ entered'[s] = << >> /\ got'[s] = << >>
        /\ out'[s] = o /\ pump'[s] = p /\ Len(<< >>) = 0 /\ InnerDepth \in Nat
    BY <1>7, <1>8, <1>9, <1>11, <1>12, <2>1, AdapterAssumption
  <2>4. FirstHop(<< >>, p, << >>) /\ Offered(p) = 0
    BY <1>4, <2>3 DEF FirstHop, Offered
  <2>5. SecondHop(<< >>, << >>, << >>, 0) /\ Whole(<< >>, << >>, 0)
    BY <2>3 DEF SecondHop, Whole
  <2>6. SubInv(s)'
    BY <1>4, <2>2, <2>3, <2>4, <2>5 DEF SubInv, Ends
  <2> QED BY <2>1, <2>6
<1>18. \A s \in 1..n + 1 : s \in 1..n \/ s = n + 1
  OBVIOUS
<1> QED BY <1>14, <1>15, <1>16, <1>17, <1>18 DEF IInv

(* A header puts the same frame into every channel that has room. *)
LEMMA SendHeaderInv == ASSUME IInv, NEW id \in 0..MaxID, SendHeader(id) PROVE IInv'
<1>1. PICK f \in Frames :
        /\ frameCh' = [s \in Subs |-> IF Len(frameCh[s]) < InnerDepth
                                      THEN Append(frameCh[s], f) ELSE frameCh[s]]
        /\ entered' = [s \in Subs |-> IF Len(frameCh[s]) < InnerDepth
                                      THEN Append(entered[s], f) ELSE entered[s]]
  <2> DEFINE f == [id |-> id, ct |-> responses[id], stamp |-> sent + 1]
  <2>1. f \in Frames
    BY AdapterAssumption DEF SendHeader, IInv, Structure, Frames
  <2>2. /\ frameCh' = [s \in Subs |-> IF Len(frameCh[s]) < InnerDepth
                                      THEN Append(frameCh[s], f) ELSE frameCh[s]]
        /\ entered' = [s \in Subs |-> IF Len(frameCh[s]) < InnerDepth
                                      THEN Append(entered[s], f) ELSE entered[s]]
    BY DEF SendHeader
  <2> HIDE DEF f
  <2> QED BY <2>1, <2>2
<1>2. /\ UNCHANGED <<responses, busClosed, pump, out, got, ended>> /\ ~busClosed
      /\ sent' \in 0..MaxHeaders
  BY AdapterAssumption DEF SendHeader, IInv, Structure
<1>3. /\ Subs = 1..Len(out) /\ Len(out) \in Nat
      /\ \A s \in Subs : /\ frameCh[s] \in Seq(Frames) /\ entered[s] \in Seq(Frames)
                         /\ pump[s] \in Threads /\ got[s] \in Seq(Messages)
                         /\ out[s].items \in Seq(Messages)
  BY Parts DEF IInv
<1>4. \A s \in Subs : /\ Append(frameCh[s], f) \in Seq(Frames)
                      /\ Append(entered[s], f) \in Seq(Frames)
                      /\ Len(Append(frameCh[s], f)) = Len(frameCh[s]) + 1
                      /\ Len(frameCh[s]) \in Nat
  BY <1>3, AppendProperties, LenProperties
<1>5. /\ frameCh' \in Seq(Seq(Frames)) /\ Len(frameCh') = Len(out)
      /\ entered' \in Seq(Seq(Frames)) /\ Len(entered') = Len(out)
  <2>1. /\ frameCh' \in [1..Len(out) -> Seq(Frames)]
        /\ entered' \in [1..Len(out) -> Seq(Frames)]
    BY <1>1, <1>3, <1>4
  <2>2. frameCh' \in Seq(Seq(Frames)) /\ entered' \in Seq(Seq(Frames))
    <3>1. PICK n \in Nat : n = Len(out)
      BY <1>3, Parts DEF IInv, Structure
    <3> QED BY <2>1, <3>1, SeqDef
  <2>3. /\ DOMAIN frameCh' = 1..Len(out) /\ DOMAIN entered' = 1..Len(out)
    BY <2>1
  <2>4. out \in Seq(OutChannels)
    BY DEF IInv, Structure
  <2> QED BY <1>3, <2>2, <2>3, <2>4, LenProperties
<1>6. Structure'
  BY <1>2, <1>5 DEF IInv, Structure, Subs
<1>7. ASSUME NEW s \in Subs PROVE SubInv(s)'
  <2>1. CASE Len(frameCh[s]) < InnerDepth
    <3>1. frameCh'[s] = Append(frameCh[s], f) /\ entered'[s] = Append(entered[s], f)
      BY <1>1, <2>1
    <3>2. FirstHop(Append(frameCh[s], f), pump[s], Append(entered[s], f))
      BY <1>3, EnterFirst DEF IInv, SubInv
    <3>3. SecondHop(got[s], out[s].items, Append(entered[s], f), Offered(pump[s]))
      BY <1>3, EnterSecond DEF IInv, SubInv
    <3>4. Len(Append(frameCh[s], f)) <= InnerDepth
      BY <1>4, <2>1, AdapterAssumption
    <3>5. pump[s].at # "done"
      BY <1>2 DEF IInv, SubInv, Ends
    <3> QED BY <1>2, <3>1, <3>2, <3>3, <3>4, <3>5 DEF IInv, SubInv, Ends
  <2>2. CASE ~(Len(frameCh[s]) < InnerDepth)
    <3>1. frameCh'[s] = frameCh[s] /\ entered'[s] = entered[s]
      BY <1>1, <2>2
    <3> QED BY <1>2, <3>1, SubStays DEF IInv
  <2> QED BY <2>1, <2>2
<1> QED BY <1>2, <1>6, <1>7 DEF IInv, Subs

(* The thread of a subscription. *)
LEMMA PumpRecvInv == ASSUME IInv, NEW t \in Subs, PumpRecv(t) PROVE IInv'
<1>1. PICK r, q : /\ q = Tail(frameCh[t])
                  /\ r = [at |-> "offer", seq |-> pump[t].seq + 1,
                          msg |-> [id |-> Head(frameCh[t]).id, ct |-> Head(frameCh[t]).ct,
                                   seq |-> pump[t].seq + 1, stamp |-> Head(frameCh[t]).stamp]]
  OBVIOUS
<1>2. /\ pump' = [pump EXCEPT ![t] = r] /\ frameCh' = [frameCh EXCEPT ![t] = q]
      /\ pump[t].at = "recv" /\ frameCh[t] # << >>
      /\ UNCHANGED <<responses, busClosed, out, got, ended, sent, entered>>
  BY <1>1 DEF PumpRecv
<1>3. /\ frameCh[t] \in Seq(Frames) /\ entered[t] \in Seq(Frames) /\ pump[t] \in Threads
      /\ FirstHop(frameCh[t], pump[t], entered[t])
  BY Parts DEF IInv, SubInv
<1>4. /\ FirstHop(q, r, entered[t]) /\ r \in Threads /\ q \in Seq(Frames)
      /\ Offered(r) = Offered(pump[t]) /\ Len(q) <= Len(frameCh[t])
  BY <1>1, <1>2, <1>3, TakeFirst
<1>5. /\ frameCh' \in Seq(Seq(Frames)) /\ Len(frameCh') = Len(frameCh)
      /\ pump' \in Seq(Threads) /\ Len(pump') = Len(pump)
      /\ frameCh'[t] = q /\ pump'[t] = r
      /\ \A s \in Subs \ {t} : frameCh'[s] = frameCh[s] /\ pump'[s] = pump[s]
  <2>1. /\ Subs = 1..Len(frameCh) /\ Subs = 1..Len(pump)
    BY Parts DEF IInv, Structure
  <2> QED BY <1>2, <1>4, <2>1, ExceptSeq DEF IInv, Structure
<1>6. Structure'
  BY <1>2, <1>5 DEF IInv, Structure, Subs
<1>7. Len(q) \in Nat /\ Len(frameCh[t]) \in Nat /\ InnerDepth \in Nat
  BY <1>3, <1>4, LenProperties, AdapterAssumption
<1>8. r.at # "done"
  BY <1>1
<1>9. SubInv(t)'
  BY <1>2, <1>4, <1>5, <1>7, <1>8 DEF IInv, SubInv, Ends
<1> QED BY <1>2, <1>5, <1>6, <1>9, OthersStay

LEMMA PumpEndInv == ASSUME IInv, NEW t \in Subs, PumpEnd(t) PROVE IInv'
<1>1. PICK p, o : p = [pump[t] EXCEPT !.at = "done"] /\ o = [out[t] EXCEPT !.closed = TRUE]
  OBVIOUS
<1>2. /\ Subs = 1..Len(out) /\ Subs = 1..Len(pump)
      /\ pump[t] \in Threads /\ out[t] \in OutChannels
      /\ pump[t].at = "recv" /\ frameCh[t] = << >> /\ busClosed
      /\ UNCHANGED <<responses, busClosed, frameCh, got, ended, sent, entered>>
  BY Parts DEF PumpEnd, IInv, Structure
<1>3. /\ p \in Threads /\ p.at = "done" /\ p.seq = pump[t].seq /\ p.msg = pump[t].msg
      /\ o \in OutChannels /\ o.items = out[t].items /\ o.closed = TRUE
      /\ o.policy = out[t].policy /\ o.depth = out[t].depth
  BY <1>1, <1>2 DEF Threads, OutChannels
<1>4. pump' = [pump EXCEPT ![t] = p] /\ out' = [out EXCEPT ![t] = o]
  BY <1>1, <1>2 DEF PumpEnd
<1>5. /\ pump' \in Seq(Threads) /\ Len(pump') = Len(pump)
      /\ out' \in Seq(OutChannels) /\ Len(out') = Len(out)
      /\ pump'[t] = p /\ out'[t] = o
      /\ \A s \in Subs \ {t} : pump'[s] = pump[s] /\ out'[s] = out[s]
  BY <1>2, <1>3, <1>4, ExceptSeq DEF IInv, Structure
<1>6. DOMAIN out' = DOMAIN out
  BY <1>4
<1>7. Structure'
  BY <1>2, <1>5, <1>6 DEF IInv, Structure, Subs
<1>8. FirstHop(frameCh[t], p, entered[t]) /\ Offered(p) = Offered(pump[t])
  BY <1>2, <1>3 DEF IInv, SubInv, FirstHop, Offered
<1>9. SubInv(t)'
  BY <1>2, <1>3, <1>5, <1>8 DEF IInv, SubInv, Ends
<1> QED BY <1>2, <1>5, <1>6, <1>7, <1>9, OthersStay

LEMMA PumpOfferInv == ASSUME IInv, NEW t \in Subs, PumpOffer(t) PROVE IInv'
<1>1. PICK p, m, n, q, u :
          /\ p = [pump[t] EXCEPT !.at = "recv", !.msg = NoMessage]
          /\ m = pump[t].msg /\ n = Offered(pump[t])
          /\ q = out[t].items /\ u = out'[t].items
  OBVIOUS
<1>2. /\ Subs = 1..Len(out) /\ Subs = 1..Len(pump) /\ DOMAIN pump = Subs
      /\ pump[t] \in Threads /\ out[t] \in OutChannels
      /\ pump[t].at = "offer" /\ got[t] \in Seq(Messages) /\ q \in Seq(Messages)
      /\ entered[t] \in Seq(Frames)
      /\ UNCHANGED <<responses, busClosed, frameCh, got, ended, sent, entered>>
  BY <1>1, Parts DEF PumpOffer, IInv, Structure
<1>3. p \in Threads /\ p.at = "recv" /\ p.seq = pump[t].seq
  BY <1>1, <1>2 DEF Threads
<1>4. pump' = [pump EXCEPT ![t] = p]
  BY <1>1, <1>2 DEF PumpOffer
<1>5. /\ FirstHop(frameCh[t], pump[t], entered[t]) /\ SecondHop(got[t], q, entered[t], n)
      /\ out[t].policy = "Block" /\ t \notin SelfClosers => Whole(got[t], q, n)
      /\ Ends(t) /\ Len(q) <= out[t].depth
  BY <1>1 DEF IInv, SubInv
<1>6. m \in Messages /\ m.seq = n + 1 /\ Carries(m, entered[t]) /\ Offered(p) = n + 1
      /\ n \in Nat
  <2>1. m \in Messages /\ m.seq = pump[t].seq /\ Carries(m, entered[t])
    BY <1>1, <1>2, <1>5 DEF FirstHop
  <2>2. pump[t].seq \in Nat /\ pump[t].seq \in DOMAIN entered[t]
    BY <1>2, <2>1 DEF Threads, Carries
  <2>3. pump[t].seq \in 1..Len(entered[t]) /\ Len(entered[t]) \in Nat
    BY <1>2, <2>2, LenProperties
  <2> QED BY <1>1, <1>2, <1>3, <2>1, <2>3 DEF Offered
<1>7. FirstHop(frameCh[t], p, entered[t])
  BY <1>3, <1>5 DEF FirstHop
<1>8. /\ Append(q, m) \in Seq(Messages) /\ Len(Append(q, m)) = Len(q) + 1
      /\ Len(q) \in Nat /\ out[t].depth \in Nat \ {0}
  BY <1>2, <1>6, AppendProperties, LenProperties DEF OutChannels
<1>9. /\ DOMAIN out' = DOMAIN out /\ \A s \in Subs \ {t} : out'[s] = out[s]
      /\ out'[t].depth = out[t].depth /\ out'[t].policy = out[t].policy
      /\ out'[t].closed = out[t].closed
      /\ \/ out'[t].closed /\ out' = out
         \/ ~out[t].closed /\ HasRoom(t) /\ u = Append(q, m)
         \/ ~out[t].closed /\ out[t].policy = "DropNewest" /\ out' = out
         \/ ~out[t].closed /\ ~HasRoom(t) /\ out[t].policy = "DropOldest"
            /\ u = Append(Tail(q), m)
  BY <1>1, <1>2 DEF PumpOffer, Push, OutChannels, Subs
<1>10. /\ u \in Seq(Messages) /\ Len(u) <= out[t].depth
       /\ SecondHop(got[t], u, entered[t], n + 1)
       /\ out[t].policy = "Block" /\ t \notin SelfClosers => Whole(got[t], u, n + 1)
       /\ out[t].closed => u = q
  <2>1. CASE out' = out /\ (out[t].closed \/ out[t].policy = "DropNewest")
    <3>1. u = q
      BY <1>1, <2>1
    <3>2. SecondHop(got[t], q, entered[t], n + 1)
      BY <1>2, <1>5, <1>6, LaterSecond
    <3>3. ~(out[t].policy = "Block" /\ t \notin SelfClosers)
      BY <1>2, <1>5, <2>1 DEF Ends
    <3> QED BY <1>2, <1>5, <3>1, <3>2, <3>3
  <2>2. CASE ~out[t].closed /\ HasRoom(t) /\ u = Append(q, m)
    <3>1. Len(q) < out[t].depth
      BY <1>1, <2>2 DEF HasRoom
    <3>2. SecondHop(got[t], u, entered[t], n + 1)
      BY <1>2, <1>5, <1>6, <2>2, PushSecond
    <3>3. out[t].policy = "Block" /\ t \notin SelfClosers => Whole(got[t], u, n + 1)
      BY <1>2, <1>5, <1>6, <2>2, PushWhole
    <3> QED BY <1>8, <2>2, <3>1, <3>2, <3>3
  <2>3. CASE ~out[t].closed /\ ~HasRoom(t) /\ out[t].policy = "DropOldest"
             /\ u = Append(Tail(q), m)
    <3>1. Len(q) = out[t].depth /\ q # << >>
      <4>1. ~(Len(q) < out[t].depth)
        BY <1>1, <2>3 DEF HasRoom
      <4> QED BY <1>5, <1>8, <4>1, EmptySeq
    <3>2. Tail(q) \in Seq(Messages) /\ Len(Tail(q)) = Len(q) - 1
      BY <1>2, <3>1, HeadTailProperties
    <3>3. u \in Seq(Messages) /\ Len(u) = Len(Tail(q)) + 1
      BY <1>6, <2>3, <3>2, AppendProperties
    <3>4. SecondHop(got[t], Tail(q), entered[t], n)
      BY <1>2, <1>5, <3>1, TailSecond
    <3>5. SecondHop(got[t], u, entered[t], n + 1)
      BY <1>2, <1>6, <2>3, <3>2, <3>4, PushSecond
    <3>6. Len(u) <= out[t].depth
      BY <1>8, <3>1, <3>2, <3>3
    <3> QED BY <2>3, <3>3, <3>5, <3>6
  <2> QED BY <1>9, <2>1, <2>2, <2>3
<1>11. out'[t] \in OutChannels
  <2>1. t \in DOMAIN out
    BY Parts DEF IInv, Structure, Subs
  <2>2. out' = out \/ \E v : out' = [out EXCEPT ![t] = [out[t] EXCEPT !.items = v]]
    BY <1>1 DEF PumpOffer, Push
  <2>3. CASE out' = out
    BY <1>2, <2>3
  <2>4. ASSUME NEW v, out' = [out EXCEPT ![t] = [out[t] EXCEPT !.items = v]]
        PROVE  out'[t] \in OutChannels
    <3>1. out'[t] = [out[t] EXCEPT !.items = v]
      BY <2>1, <2>4
    <3>2. v \in Seq(Messages)
      <4>1. out'[t].items = v
        BY <1>2, <3>1 DEF OutChannels
      <4>2. u \in Seq(Messages)
        BY <1>10
      <4>3. u = v
        BY <1>1, <4>1
      <4> QED BY <4>2, <4>3
    <3> QED BY <1>2, <3>1, <3>2 DEF OutChannels
  <2> QED BY <2>2, <2>3, <2>4
<1>12. /\ pump' \in Seq(Threads) /\ Len(pump') = Len(pump) /\ pump'[t] = p
       /\ \A s \in Subs \ {t} : pump'[s] = pump[s]
  BY <1>2, <1>3, <1>4, ExceptSeq DEF IInv, Structure
<1>13. out' \in Seq(OutChannels) /\ Len(out') = Len(out)
  <2>1. out \in Seq(OutChannels) /\ out \in [1..Len(out) -> OutChannels]
    BY LenProperties DEF IInv, Structure
  <2>2. PICK x : x = out'[t]
    OBVIOUS
  <2>3. out' = [out EXCEPT ![t] = x]
    <3>1. \/ out' = out
          \/ out' = [out EXCEPT ![t].items = Append(@, pump[t].msg)]
          \/ out' = [out EXCEPT ![t].items = Append(Tail(@), pump[t].msg)]
      BY DEF PumpOffer, Push
    <3> QED BY <1>2, <2>1, <2>2, <3>1
  <2> QED BY <1>2, <1>11, <2>1, <2>2, <2>3, ExceptSeq
<1>14. Structure'
  BY <1>2, <1>9, <1>12, <1>13 DEF IInv, Structure, Subs
<1>15. Ends(t)'
  <2>1. t \in ended => out'[t].items = << >>
    BY <1>1, <1>5, <1>10 DEF Ends
  <2> QED BY <1>2, <1>3, <1>5, <1>9, <1>12, <2>1 DEF Ends
<1>16. SubInv(t)'
  BY <1>1, <1>2, <1>6, <1>7, <1>9, <1>10, <1>12, <1>15 DEF IInv, SubInv
<1> QED BY <1>2, <1>9, <1>12, <1>14, <1>16, OthersStay

(* The consumer of a subscription. *)
LEMMA RecvInv == ASSUME IInv, NEW t \in Subs, Recv(t) PROVE IInv'
<1>1. PICK o, g, q : /\ o = [out[t] EXCEPT !.items = Tail(@)] /\ q = out[t].items
                     /\ g = Append(got[t], Head(q))
  OBVIOUS
<1>2. /\ Subs = 1..Len(out) /\ Subs = 1..Len(got)
      /\ pump[t] \in Threads /\ out[t] \in OutChannels
      /\ got[t] \in Seq(Messages) /\ q \in Seq(Messages) /\ entered[t] \in Seq(Frames)
      /\ q # << >>
      /\ UNCHANGED <<responses, busClosed, frameCh, pump, ended, sent, entered>>
  BY <1>1, Parts DEF Recv, IInv, Structure
<1>3. /\ Tail(q) \in Seq(Messages) /\ Len(Tail(q)) = Len(q) - 1 /\ Head(q) \in Messages
      /\ Len(q) \in Nat /\ g \in Seq(Messages)
  BY <1>1, <1>2, HeadTailProperties, LenProperties, AppendProperties
<1>4. /\ o \in OutChannels /\ o.items = Tail(q) /\ o.closed = out[t].closed
      /\ o.policy = out[t].policy /\ o.depth = out[t].depth
  BY <1>1, <1>2, <1>3 DEF OutChannels
<1>5. out' = [out EXCEPT ![t] = o] /\ got' = [got EXCEPT ![t] = g]
  BY <1>1, <1>2 DEF Recv
<1>6. /\ out' \in Seq(OutChannels) /\ Len(out') = Len(out)
      /\ got' \in Seq(Seq(Messages)) /\ Len(got') = Len(got)
      /\ got'[t] = g /\ out'[t] = o
      /\ \A s \in Subs \ {t} : got'[s] = got[s] /\ out'[s] = out[s]
  BY <1>2, <1>3, <1>4, <1>5, ExceptSeq DEF IInv, Structure
<1>7. DOMAIN out' = DOMAIN out
  BY <1>5
<1>8. Structure'
  BY <1>2, <1>6, <1>7 DEF IInv, Structure, Subs
<1>9. SecondHop(g, Tail(q), entered[t], Offered(pump[t]))
  BY <1>1, <1>2, ReadSecond DEF IInv, SubInv
<1>10. Offered(pump[t]) \in Int
  BY <1>2 DEF Offered, Threads
<1>11. out[t].policy = "Block" /\ t \notin SelfClosers => Whole(g, Tail(q), Offered(pump[t]))
  BY <1>1, <1>2, <1>10, ReadWhole DEF IInv, SubInv
<1>12. t \notin ended
  BY <1>1, <1>2 DEF IInv, SubInv, Ends
<1>13. Len(Tail(q)) <= out[t].depth
  BY <1>1, <1>2, <1>3 DEF IInv, SubInv, OutChannels
<1>14. SubInv(t)'
  BY <1>2, <1>4, <1>6, <1>9, <1>11, <1>12, <1>13 DEF IInv, SubInv, Ends
<1> QED BY <1>2, <1>6, <1>7, <1>8, <1>14, OthersStay

LEMMA RecvEndInv == ASSUME IInv, NEW t \in Subs, RecvEnd(t) PROVE IInv'
<1>1. /\ UNCHANGED <<responses, busClosed, frameCh, pump, out, got, sent, entered>>
      /\ out[t].items = << >> /\ out[t].closed /\ ended' = ended \cup {t}
  BY DEF RecvEnd
<1>2. Structure'
  BY <1>1 DEF IInv, Structure, Subs
<1>3. SubInv(t)'
  BY <1>1 DEF IInv, SubInv, Ends
<1> QED BY <1>1, <1>2, <1>3, OthersStay

LEMMA SelfCloseInv == ASSUME IInv, NEW t \in Subs, SelfClose(t) PROVE IInv'
<1>1. PICK o : o = [out[t] EXCEPT !.closed = TRUE]
  OBVIOUS
<1>2. /\ Subs = 1..Len(out) /\ out[t] \in OutChannels /\ t \in SelfClosers
      /\ ~out[t].closed
      /\ UNCHANGED <<responses, busClosed, frameCh, pump, got, ended, sent, entered>>
  BY Parts DEF SelfClose, IInv
<1>3. /\ o \in OutChannels /\ o.items = out[t].items /\ o.closed = TRUE
      /\ o.policy = out[t].policy /\ o.depth = out[t].depth
  BY <1>1, <1>2 DEF OutChannels
<1>4. out' = [out EXCEPT ![t] = o]
  BY <1>1, <1>2 DEF SelfClose
<1>5. /\ out' \in Seq(OutChannels) /\ Len(out') = Len(out) /\ out'[t] = o
      /\ \A s \in Subs \ {t} : out'[s] = out[s]
  BY <1>2, <1>3, <1>4, ExceptSeq DEF IInv, Structure
<1>6. DOMAIN out' = DOMAIN out
  BY <1>4
<1>7. Structure'
  BY <1>2, <1>5, <1>6 DEF IInv, Structure, Subs
<1>8. SubInv(t)'
  BY <1>2, <1>3, <1>5 DEF IInv, SubInv, Ends
<1> QED BY <1>2, <1>5, <1>6, <1>7, <1>8, OthersStay

(* Every step keeps the invariant. *)
LEMMA NextInv == IInv /\ [Next]_vars => IInv'
<1> SUFFICES ASSUME IInv, [Next]_vars PROVE IInv'
  OBVIOUS
<1>1. CASE \E t \in Texts, meta \in ChecksumMeta, empty \in BOOLEAN : Send(t, meta, empty)
  BY <1>1, SendInv
<1>2. CASE \E opts \in Requests : Subscribe(opts)
  BY <1>2, SubscribeInv
<1>3. CASE Close
  BY <1>3, CloseInv
<1>4. CASE \E id \in 0..MaxID : SendHeader(id)
  BY <1>4, SendHeaderInv
<1>5. CASE \E s \in Subs : Pump(s)
  BY <1>5, PumpRecvInv, PumpEndInv, PumpOfferInv DEF Pump
<1>6. CASE \E s \in Subs : Recv(s) \/ RecvEnd(s) \/ SelfClose(s)
  BY <1>6, RecvInv, RecvEndInv, SelfCloseInv
<1>7. CASE UNCHANGED vars
  <2>1. Structure'
    BY <1>7 DEF IInv, Structure, Subs, vars
  <2> QED BY <1>7, <2>1, SubStays DEF IInv, Subs, vars
<1> QED BY <1>1, <1>2, <1>3, <1>4, <1>5, <1>6, <1>7 DEF Next

LEMMA AdapterInv == Spec => []IInv
BY InitInv, NextInv, PTL DEF Spec

-----------------------------------------------------------------------------
(* The properties.                                                         *)

(* Neither channel ever holds more than its depth, and every thread is at  *)
(* one of the places of its loop.                                          *)
THEOREM TypeCorrect == Spec => []TypeOK
<1>1. IInv => TypeOK
  BY Parts DEF IInv, SubInv, Structure, TypeOK, Threads, ChecksumTypes
<1> QED BY <1>1, AdapterInv, PTL

(* The elements of what got through, counted in each part. *)
LEMMA PassedElements ==
    ASSUME IInv, NEW s \in Subs
    PROVE  /\ Len(got[s]) \in Nat /\ Len(out[s].items) \in Nat
           /\ DOMAIN Passed(s) = 1..Len(got[s]) + Len(out[s].items)
           /\ \A i \in 1..Len(got[s]) + Len(out[s].items) : Passed(s)[i] =
                  IF i <= Len(got[s]) THEN got[s][i] ELSE out[s].items[i - Len(got[s])]
<1>1. got[s] \in Seq(Messages) /\ out[s].items \in Seq(Messages)
  BY Parts DEF IInv
<1>2. PICK g, q : g = got[s] /\ q = out[s].items
  OBVIOUS
<1>3. Len(g) \in Nat /\ Len(q) \in Nat /\ g \in Seq(Messages) /\ q \in Seq(Messages)
  BY <1>1, <1>2, LenProperties
<1>4. /\ g \o q \in Seq(Messages) /\ Len(g \o q) = Len(g) + Len(q)
      /\ \A i \in 1..Len(g) + Len(q) : (g \o q)[i] = IF i <= Len(g) THEN g[i]
                                                     ELSE q[i - Len(g)]
  BY <1>3, ConcatProperties
<1>5. DOMAIN (g \o q) = 1..Len(g) + Len(q)
  BY <1>4, LenProperties
<1> QED BY <1>2, <1>3, <1>4, <1>5 DEF Passed

(* Message n of a subscription is the n-th frame that the bus put into its *)
(* channel, and messages arrive in the order of their numbers: a gap tells *)
(* the consumer exactly what the second hop dropped, with any number of    *)
(* subscriptions, depths and policies.                                     *)
THEOREM NumbersAreExact == Spec => []SeqNumbersFrames
<1>1. ASSUME IInv, NEW s \in Subs
      PROVE  /\ \A i \in DOMAIN Passed(s) : Carries(Passed(s)[i], entered[s])
             /\ \A i, j \in DOMAIN Passed(s) : i < j => Passed(s)[i].seq < Passed(s)[j].seq
  <2>0. PICK a \in Nat, b \in Nat : a = Len(got[s]) /\ b = Len(out[s].items)
    BY <1>1, PassedElements
  <2>1. PICK g, q : /\ a = Len(got[s]) /\ b = Len(out[s].items)
                    /\ g = got[s] /\ q = out[s].items
    BY <2>0
  <2>2. /\ DOMAIN Passed(s) = 1..a + b
        /\ \A i \in 1..a + b : Passed(s)[i] = IF i <= a THEN g[i] ELSE q[i - a]
    BY <1>1, <2>1, PassedElements
  <2>3. SecondHop(g, q, entered[s], Offered(pump[s])) /\ a = Len(g) /\ b = Len(q)
    BY <1>1, <2>1 DEF IInv, SubInv
  <2>4. \A i \in 1..a + b : i \in 1..a \/ (i - a \in 1..b /\ ~(i <= a))
    OBVIOUS
  <2>5. ASSUME NEW i \in 1..a + b PROVE Carries(Passed(s)[i], entered[s])
    <3>1. /\ \A k \in 1..a : Carries(g[k], entered[s])
          /\ \A k \in 1..b : Carries(q[k], entered[s])
      BY <2>3 DEF SecondHop
    <3>2. CASE i \in 1..a
      <4>1. Passed(s)[i] = g[i]
        BY <2>2, <3>2
      <4> QED BY <3>1, <3>2, <4>1
    <3>3. CASE i - a \in 1..b /\ ~(i <= a)
      <4>1. Passed(s)[i] = q[i - a]
        BY <2>2, <3>3
      <4> QED BY <3>1, <3>3, <4>1
    <3> QED BY <2>4, <3>2, <3>3
  <2>6. ASSUME NEW i \in 1..a + b, NEW j \in 1..a + b, i < j
        PROVE  Passed(s)[i].seq < Passed(s)[j].seq
    <3>1. CASE i <= a /\ j <= a
      <4>1. i \in 1..a /\ j \in 1..a
        BY <3>1
      <4> QED BY <2>2, <2>3, <2>6, <3>1, <4>1 DEF SecondHop
    <3>2. CASE i <= a /\ ~(j <= a)
      <4>1. i \in 1..a /\ j - a \in 1..b
        BY <3>2
      <4> QED BY <2>2, <2>3, <3>2, <4>1 DEF SecondHop
    <3>3. CASE ~(i <= a) /\ ~(j <= a)
      <4>1. i - a \in 1..b /\ j - a \in 1..b /\ i - a < j - a
        BY <2>6, <3>3
      <4> QED BY <2>2, <2>3, <3>3, <4>1 DEF SecondHop
    <3>4. ~(~(i <= a) /\ j <= a)
      BY <2>6
    <3> QED BY <3>1, <3>2, <3>3, <3>4
  <2> QED BY <2>2, <2>5, <2>6
<1>2. IInv => SeqNumbersFrames
  BY <1>1 DEF SeqNumbersFrames, Carries
<1> QED BY <1>2, AdapterInv, PTL

(* Under the Block policy the numbers have no gap, and the end of the      *)
(* stream comes behind the last frame that entered the bus's channel.      *)
THEOREM BlockForwardsAll == Spec => []BlockForwardsEverything
<1>1. ASSUME IInv, NEW s \in Subs \ SelfClosers, out[s].policy = "Block"
      PROVE  /\ \A i \in DOMAIN Passed(s) : Passed(s)[i].seq = i
             /\ s \in ended => Len(got[s]) = Len(entered[s])
  <2>0. PICK a \in Nat, b \in Nat : a = Len(got[s]) /\ b = Len(out[s].items)
    BY <1>1, PassedElements
  <2>1. PICK g, q : /\ a = Len(got[s]) /\ b = Len(out[s].items)
                    /\ g = got[s] /\ q = out[s].items
    BY <2>0
  <2>2. /\ DOMAIN Passed(s) = 1..a + b
        /\ \A i \in 1..a + b : Passed(s)[i] = IF i <= a THEN g[i] ELSE q[i - a]
    BY <1>1, <2>1, PassedElements
  <2>3. Whole(g, q, Offered(pump[s])) /\ a = Len(g) /\ b = Len(q)
    BY <1>1, <2>1 DEF IInv, SubInv
  <2>4. ASSUME NEW i \in 1..a + b PROVE Passed(s)[i].seq = i
    <3>1. CASE i <= a
      BY <2>2, <2>3, <3>1 DEF Whole
    <3>2. CASE ~(i <= a)
      <4>1. i - a \in 1..b /\ a + (i - a) = i
        BY <3>2
      <4> QED BY <2>2, <2>3, <3>2, <4>1 DEF Whole
    <3> QED BY <3>1, <3>2
  <2>5. ASSUME s \in ended PROVE Len(got[s]) = Len(entered[s])
    <3>1. pump[s].at = "done" /\ frameCh[s] = << >> /\ q = << >>
      BY <1>1, <2>1, <2>5 DEF IInv, SubInv, Ends
    <3>2. Len(<< >>) = 0
      OBVIOUS
    <3>3. a = pump[s].seq /\ pump[s].seq \in Nat
      <4>1. Offered(pump[s]) = pump[s].seq
        BY <3>1 DEF Offered
      <4>2. pump[s].seq \in Nat
        BY <1>1, Parts DEF IInv, Threads
      <4>3. a + b = pump[s].seq /\ b = 0
        BY <2>3, <3>1, <3>2, <4>1 DEF Whole
      <4> QED BY <4>2, <4>3
    <3>4. pump[s].seq + Len(frameCh[s]) = Len(entered[s])
      BY <1>1 DEF IInv, SubInv, FirstHop
    <3> QED BY <2>1, <3>1, <3>2, <3>3, <3>4
  <2> QED BY <2>2, <2>4, <2>5
<1>2. IInv => BlockForwardsEverything
  BY <1>1 DEF BlockForwardsEverything
<1> QED BY <1>2, AdapterInv, PTL

=============================================================================
