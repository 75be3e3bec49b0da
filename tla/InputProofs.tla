----------------------------- MODULE InputProofs -----------------------------
(***************************************************************************)
(* Proofs about the input engine: for any devices, ranks, keys, slots and  *)
(* sizes of the queues and of the read buffer, however often devices come  *)
(* and go, and with kernel events between any two steps of a poll. Then    *)
(* about the axis function, for any width of int and any calibration.      *)
(***************************************************************************)
EXTENDS InputEvdev, AxisNormalize, SequenceTheorems, FiniteSetTheorems, WellFoundedInduction, TLAPS

-----------------------------------------------------------------------------
(* Streams of events *)

\* The events apart, and the packets of the kernel.
LEMMA EventFacts ==
    /\ Syn \in Event /\ Drop \in Event /\ Syn # Drop
    /\ ~IsPress(Syn) /\ ~IsRelease(Syn) /\ ~IsPress(Drop) /\ ~IsRelease(Drop)
    /\ ~IsHeld(Syn) /\ ~IsHeld(Drop)
    /\ Syn.type # "EV_KEY" /\ Drop.type # "EV_KEY"
  BY DEF Event, Syn, Drop, IsPress, IsRelease, IsHeld

LEMMA KeyFacts ==
    ASSUME NEW k \in Keys, NEW v \in 0 .. 2, NEW p \in Numbers
    PROVE  /\ Key(k, v, p) \in Event /\ Key(k, v, p) # Drop /\ Key(k, v, p) # Syn
           /\ Key(k, v, p).type = "EV_KEY"
           /\ Key(k, v, p).key = k /\ Key(k, v, p).value = v /\ Key(k, v, p).press = p
  BY DEF Event, Key, Syn, Drop

LEMMA EventCases ==
    ASSUME NEW e \in Event, e # Syn, e # Drop
    PROVE  /\ e.type = "EV_KEY" /\ e.key \in Keys /\ e.value \in 0 .. 2 /\ e.press \in Numbers
           /\ IsHeld(e) <=> ~IsRelease(e)
           /\ IsPress(e) => IsHeld(e)
  BY DEF Event, Key, IsPress, IsHeld, IsRelease

\* What a client's queue is after a packet (evdev_pass_values).
Extended(q, x, r) ==
    /\ Len(r) = Len(q) + 2
    /\ \A e \in 1 .. Len(q) : r[e] = q[e]
    /\ r[Len(q) + 1] = x /\ r[Len(q) + 2] = Syn
Overrun(x, r) == Len(r) = 3 /\ r[1] = Drop /\ r[2] = x /\ r[3] = Syn

LEMMA DeliveredShape ==
    ASSUME NEW q \in Seq(Event), NEW x \in Event, NEW r, r = Delivered(q, Packet(x))
    PROVE  /\ r \in Seq(Event) /\ r # <<>>
           /\ Extended(q, x, r) \/ Overrun(x, r)
  <1> DEFINE s == <<x, Syn>>
  <1>1. s \in Seq(Event) /\ Len(s) = 2 /\ s[1] = x /\ s[2] = Syn
    BY EventFacts
  <1>2. <<Drop>> \in Seq(Event) /\ Len(<<Drop>>) = 1 /\ <<Drop>>[1] = Drop
    BY EventFacts
  <1>3. r = <<Drop>> \o s \/ r = q \o s
    BY DEF Delivered, Packet
  <1> HIDE DEF s
  <1>4. Len(q) \in Nat
    BY LenProperties
  <1>5. CASE r = <<Drop>> \o s
    <2> DEFINE d == <<Drop>>
    <2>0. d \in Seq(Event) /\ Len(d) = 1 /\ d[1] = Drop
      BY <1>2
    <2> HIDE DEF d
    <2>1. /\ d \o s \in Seq(Event) /\ Len(d \o s) = Len(d) + Len(s)
          /\ \A i \in 1 .. Len(d) + Len(s) :
                (d \o s)[i] = IF i <= Len(d) THEN d[i] ELSE s[i - Len(d)]
      BY <1>1, <2>0, ConcatProperties
    <2>2. r \in Seq(Event) /\ Len(r) = 3 /\ r[1] = Drop /\ r[2] = x /\ r[3] = Syn
      BY <1>1, <2>0, <2>1, <1>5 DEF d
    <2>3. Len(r) # 0
      BY <2>2
    <2> QED BY <2>2, <2>3, EmptySeq DEF Extended, Overrun
  <1>6. CASE r = q \o s
    <2>1. /\ q \o s \in Seq(Event) /\ Len(q \o s) = Len(q) + Len(s)
          /\ \A i \in 1 .. Len(q) + Len(s) :
                (q \o s)[i] = IF i <= Len(q) THEN q[i] ELSE s[i - Len(q)]
      BY <1>1, ConcatProperties
    <2>2. /\ r \in Seq(Event) /\ Len(r) = Len(q) + 2
          /\ \A e \in 1 .. Len(q) : r[e] = q[e]
          /\ r[Len(q) + 1] = x /\ r[Len(q) + 2] = Syn
      BY <1>1, <1>4, <2>1, <1>6
    <2>3. Len(r) # 0
      BY <1>4, <2>2
    <2> QED BY <2>2, <2>3, EmptySeq DEF Extended, Overrun
  <1> QED BY <1>3, <1>5, <1>6

\* A packet keeps what a queue says of the keys it is not about; what it pushes
\* out leaves SYN_DROPPED behind.
DeliveredOf(q, x, r) ==
    /\ r \in Seq(Event) /\ r # <<>>
    /\ First(q) => First(r)
    /\ Closes(r)
    /\ \A k \in Keys : Ended(q, k) /\ ~(IsHeld(x) /\ x.key = k) => Ended(r, k)
    /\ \A k \in Keys : IsRelease(x) /\ x.key = k => Ended(r, k) /\ Releases(r, k)
    /\ \A k \in Keys : Releases(q, k) => Releases(r, k) \/ Dropped(r)
    /\ Dropped(q) => Dropped(r)
    /\ \A p : Waiting(r, p) => Waiting(q, p) \/ (IsPress(x) /\ x.press = p)
    /\ Once(q) /\ (IsPress(x) => ~Waiting(q, x.press)) => Once(r)

LEMMA DeliveredFacts ==
    ASSUME NEW q \in Seq(Event), NEW x \in Event, x # Drop, x # Syn,
           NEW r, r = Delivered(q, Packet(x))
    PROVE  DeliveredOf(q, x, r)
  <1>a. PICK n : n = Len(q)
    OBVIOUS
  <1>0. n \in Nat /\ DOMAIN q = 1 .. n
    BY <1>a, LenProperties
  <1>1. /\ r \in Seq(Event) /\ r # <<>>
        /\ \/ /\ Len(r) = n + 2
              /\ \A e \in 1 .. n : r[e] = q[e]
              /\ r[n + 1] = x /\ r[n + 2] = Syn
           \/ /\ Len(r) = 3
              /\ r[1] = Drop /\ r[2] = x /\ r[3] = Syn
    <2>1. r \in Seq(Event) /\ r # <<>> /\ (Extended(q, x, r) \/ Overrun(x, r))
      BY DeliveredShape
    <2> QED BY <1>a, <2>1, Zenon DEF Extended, Overrun
  <1>2. DOMAIN r = 1 .. Len(r)
    BY <1>1, LenProperties
  <1> USE EventFacts
  <1>3. CASE /\ Len(r) = 3
             /\ r[1] = Drop /\ r[2] = x /\ r[3] = Syn
    <2>1. DOMAIN r = {1, 2, 3}
      BY <1>2, <1>3
    <2>2. First(r) /\ Closes(r) /\ Dropped(r)
      BY <1>3, <2>1 DEF First, Closes, Dropped
    <2>3. \A k \in Keys : ~(IsHeld(x) /\ x.key = k) => Ended(r, k)
      BY <1>3, <2>1 DEF Ended
    <2>4. \A k \in Keys : IsRelease(x) /\ x.key = k => Ended(r, k) /\ Releases(r, k)
      BY <1>3, <2>1, <2>3 DEF Releases, IsHeld, IsRelease
    <2>5. \A p : Waiting(r, p) => IsPress(x) /\ x.press = p
      BY <1>3, <2>1 DEF Waiting
    <2>6. Once(r)
      BY <1>3, <2>1 DEF Once
    <2> QED BY <1>1, <2>2, <2>3, <2>4, <2>5, <2>6 DEF DeliveredOf
  <1>4. CASE /\ Len(r) = n + 2
             /\ \A e \in 1 .. n : r[e] = q[e]
             /\ r[n + 1] = x /\ r[n + 2] = Syn
    <2>0. \A e : e \in DOMAIN r <=> e \in DOMAIN q \/ e = n + 1 \/ e = n + 2
      BY <1>0, <1>2, <1>4
    <2>1. \A e \in DOMAIN q : r[e] = q[e] /\ e < n + 1 /\ e # n + 2
      BY <1>0, <1>4
    <2>2. /\ n + 1 \in DOMAIN r /\ n + 2 \in DOMAIN r
          /\ r[n + 1] = x /\ r[n + 2] = Syn /\ n + 1 # n + 2
      BY <1>0, <1>4, <2>0
    <2>3. First(q) => First(r)
      BY <2>0, <2>1, <2>2 DEF First
    <2>4. Closes(r)
      BY <1>4 DEF Closes
    <2>5. \A k \in Keys : Ended(q, k) /\ ~(IsHeld(x) /\ x.key = k) => Ended(r, k)
      BY <2>0, <2>1, <2>2 DEF Ended
    <2>6. ASSUME NEW k \in Keys, IsRelease(x), x.key = k PROVE Ended(r, k) /\ Releases(r, k)
      <3>1. ~IsHeld(x)
        BY <2>6 DEF IsHeld, IsRelease
      <3>2. ASSUME NEW e \in DOMAIN r, IsHeld(r[e]) PROVE n + 1 > e
        BY <1>0, <2>0, <2>1, <2>2, <3>1, <3>2
      <3> QED BY <2>2, <2>6, <3>2 DEF Ended, Releases
    <2>7. (\A k \in Keys : Releases(q, k) => Releases(r, k)) /\ (Dropped(q) => Dropped(r))
      BY <2>0, <2>1 DEF Releases, Dropped
    <2>8. \A p : Waiting(r, p) => Waiting(q, p) \/ (IsPress(x) /\ x.press = p)
      BY <2>0, <2>1, <2>2 DEF Waiting
    <2>9. Once(q) /\ (IsPress(x) => ~Waiting(q, x.press)) => Once(r)
      BY <2>0, <2>1, <2>2 DEF Once, Waiting
    <2> QED BY <1>1, <2>3, <2>4, <2>5, <2>6, <2>7, <2>8, <2>9 DEF DeliveredOf
  <1> QED BY <1>1, <1>3, <1>4

\* A read splits a queue in two.
SplitOf(q, n, b, r) ==
    /\ b \in Seq(Event) /\ Len(b) = n /\ r \in Seq(Event)
    /\ First(q) => First(b) /\ First(r)
    /\ Closes(q) => Closes(r) /\ (r = <<>> => Closes(b))
    /\ \A k \in Keys : Ended(q, k) => Ended(r, k) /\ (Ended(b, k) \/ Releases(r, k))
    /\ \A k \in Keys : Releases(q, k) => Releases(b, k) \/ Releases(r, k)
    /\ Dropped(q) => Dropped(b) \/ Dropped(r)
    /\ \A p : Waiting(b, p) \/ Waiting(r, p) => Waiting(q, p)
    /\ Once(q) => Once(b) /\ Once(r) /\ \A p : ~(Waiting(b, p) /\ Waiting(r, p))

LEMMA SplitFacts ==
    ASSUME NEW q \in Seq(Event), NEW n \in 0 .. Len(q),
           NEW b, b = SubSeq(q, 1, n), NEW r, r = SubSeq(q, n + 1, Len(q))
    PROVE  SplitOf(q, n, b, r)
  <1> DEFINE m == Len(q)
  <1>1. m \in Nat /\ DOMAIN q = 1 .. m /\ n \in Nat /\ n <= m /\ \A e \in 1 .. m : q[e] \in Event
    BY LenProperties
  <1>2. /\ b \in Seq(Event) /\ Len(b) = n
        /\ \A e \in 1 .. n : b[e] = q[e]
    <2>1. 1 \in Int /\ n \in Int /\ \A e \in 1 .. n : q[e] \in Event
      BY <1>1
    <2>2. /\ SubSeq(q, 1, n) \in Seq(Event)
          /\ Len(SubSeq(q, 1, n)) = IF 1 <= n THEN n - 1 + 1 ELSE 0
          /\ \A i \in 1 .. n - 1 + 1 : SubSeq(q, 1, n)[i] = q[1 + i - 1]
      BY <2>1, SubSeqProperties
    <2> QED BY <1>1, <2>2
  <1>3. /\ r \in Seq(Event) /\ Len(r) = m - n
        /\ \A e \in 1 .. m - n : r[e] = q[n + e]
    <2>1. n + 1 \in Int /\ m \in Int /\ \A e \in n + 1 .. m : q[e] \in Event
      BY <1>1
    <2>2. /\ SubSeq(q, n + 1, m) \in Seq(Event)
          /\ Len(SubSeq(q, n + 1, m)) = IF n + 1 <= m THEN m - (n + 1) + 1 ELSE 0
          /\ \A i \in 1 .. m - (n + 1) + 1 : SubSeq(q, n + 1, m)[i] = q[n + 1 + i - 1]
      BY <2>1, SubSeqProperties
    <2>3. /\ (IF n + 1 <= m THEN m - (n + 1) + 1 ELSE 0) = m - n
          /\ m - (n + 1) + 1 = m - n
          /\ \A i \in 1 .. m - n : n + 1 + i - 1 = n + i
      <3>1. m \in Nat /\ n \in Nat /\ n <= m
        BY <1>1
      <3> HIDE DEF m
      <3> QED BY <3>1
    <2>4. \A e \in 1 .. m - n : SubSeq(q, n + 1, m)[e] = q[n + e]
      BY <2>2, <2>3
    <2> QED BY <2>2, <2>3, <2>4
  <1> HIDE DEF m
  <1>4. DOMAIN b = 1 .. n /\ DOMAIN r = 1 .. m - n
    BY <1>2, <1>3, LenProperties
  <1>5. /\ \A e \in DOMAIN b : e \in DOMAIN q /\ b[e] = q[e]
        /\ \A e \in DOMAIN r : n + e \in DOMAIN q /\ r[e] = q[n + e] /\ e \in Nat
        /\ \A e \in DOMAIN q : e \in DOMAIN b \/ \E d \in DOMAIN r : e = n + d
        /\ \A d \in DOMAIN b, e \in DOMAIN r : d < n + e
        /\ \A d, e \in DOMAIN r : (n + e > n + d => e > d) /\ (n + e = n + d => e = d)
    <2>1. ASSUME NEW e \in DOMAIN q, e \notin DOMAIN b PROVE \E d \in DOMAIN r : e = n + d
      <3>1. e - n \in DOMAIN r /\ e = n + (e - n)
        BY <1>1, <1>4, <2>1
      <3> QED BY <3>1
    <2> QED BY <1>1, <1>2, <1>3, <1>4, <2>1
  <1>6. First(q) => First(b) /\ First(r)
    <2>1. \A e \in DOMAIN r : n + e = 1 => e = 1
      BY <1>1, <1>4
    <2> QED BY <1>5, <2>1 DEF First
  <1>7. Closes(q) => Closes(r) /\ (r = <<>> => Closes(b))
    <2> SUFFICES ASSUME Closes(q) PROVE Closes(r) /\ (r = <<>> => Closes(b))
      OBVIOUS
    <2>1. ASSUME r # <<>> PROVE r[Len(r)] = Syn
      <3>0. Len(r) \in Nat \ {0}
        BY <1>3, <2>1, EmptySeq
      <3>1. Len(r) \in 1 .. m - n
        BY <1>1, <1>3, <3>0
      <3>2. r[Len(r)] = q[m] /\ m # 0
        <4>1. n + Len(r) = m /\ m # 0
          BY <1>1, <1>3, <3>0
        <4>2. r[Len(r)] = q[n + Len(r)]
          BY <1>3, <3>1
        <4> QED BY <4>1, <4>2
      <3>3. q # <<>>
        BY <3>2, EmptySeq DEF m
      <3> QED BY <3>2, <3>3 DEF Closes, m
    <2>2. ASSUME r = <<>>, b # <<>> PROVE b[Len(b)] = Syn
      <3>0. Len(r) = 0 /\ Len(b) # 0
        BY <1>2, <2>2, EmptySeq
      <3>1. m = n /\ n # 0
        BY <1>1, <1>2, <1>3, <3>0
      <3>2. b[Len(b)] = q[m]
        BY <1>1, <1>2, <3>1
      <3>3. q # <<>>
        BY <3>1, EmptySeq DEF m
      <3> QED BY <3>2, <3>3 DEF Closes, m
    <2> QED BY <2>1, <2>2 DEF Closes
  <1>8. ASSUME NEW k \in Keys, Ended(q, k) PROVE Ended(r, k) /\ (Ended(b, k) \/ Releases(r, k))
    <2>1. Ended(r, k)
      <3> SUFFICES ASSUME NEW e \in DOMAIN r, IsHeld(r[e]), r[e].key = k
                   PROVE  \E d \in DOMAIN r : d > e /\ IsRelease(r[d]) /\ r[d].key = k
        BY DEF Ended
      <3>1. PICK d \in DOMAIN q : d > n + e /\ IsRelease(q[d]) /\ q[d].key = k
        BY <1>5, <1>8 DEF Ended
      <3>2. d \notin DOMAIN b
        BY <1>1, <1>4, <3>1
      <3>3. PICK c \in DOMAIN r : d = n + c
        BY <1>5, <3>2
      <3> QED BY <1>5, <3>1, <3>3
    <2>2. ASSUME ~Releases(r, k) PROVE Ended(b, k)
      <3> SUFFICES ASSUME NEW e \in DOMAIN b, IsHeld(b[e]), b[e].key = k
                   PROVE  \E d \in DOMAIN b : d > e /\ IsRelease(b[d]) /\ b[d].key = k
        BY DEF Ended
      <3>1. PICK d \in DOMAIN q : d > e /\ IsRelease(q[d]) /\ q[d].key = k
        BY <1>5, <1>8 DEF Ended
      <3>2. ASSUME NEW c \in DOMAIN r, d = n + c PROVE FALSE
        BY <1>5, <2>2, <3>1, <3>2 DEF Releases
      <3> QED BY <1>5, <3>1, <3>2
    <2> QED BY <2>1, <2>2
  <1>9. \A k \in Keys : Releases(q, k) => Releases(b, k) \/ Releases(r, k)
    BY <1>5 DEF Releases
  <1>10. Dropped(q) => Dropped(b) \/ Dropped(r)
    BY <1>5 DEF Dropped
  <1>11. \A p : Waiting(b, p) \/ Waiting(r, p) => Waiting(q, p)
    BY <1>5 DEF Waiting
  <1>12. Once(q) => Once(b) /\ Once(r)
    <2>1. Once(q) => Once(b)
      BY <1>5 DEF Once
    <2>2. Once(q) => Once(r)
      BY <1>5 DEF Once
    <2> QED BY <2>1, <2>2
  <1>13. ASSUME NEW p, Once(q), Waiting(b, p), Waiting(r, p) PROVE FALSE
    <2>1. PICK d \in DOMAIN b : IsPress(b[d]) /\ b[d].press = p
      BY <1>13 DEF Waiting
    <2>2. PICK e \in DOMAIN r : IsPress(r[e]) /\ r[e].press = p
      BY <1>13 DEF Waiting
    <2>3. d = n + e
      BY <1>5, <1>13, <2>1, <2>2 DEF Once
    <2>4. d < n + e
      BY <1>5
    <2> QED BY <1>1, <1>4, <2>3, <2>4
  <1> QED BY <1>2, <1>3, <1>6, <1>7, <1>8, <1>9, <1>10, <1>11, <1>12, <1>13 DEF SplitOf

LEMMA SplitPackets ==
    ASSUME NEW q \in Seq(Event), NEW n \in 0 .. Len(q), First(q), Closes(q),
           NEW b, b = SubSeq(q, 1, n), NEW r, r = SubSeq(q, n + 1, Len(q))
    PROVE  First(b) /\ First(r) /\ Closes(r) /\ (r = <<>> => Closes(b))
  <1>1. SplitOf(q, n, b, r)
    BY SplitFacts
  <1> QED BY <1>1 DEF SplitOf

\* Consuming the first event of a buffer.
TailOf(b, h, t) ==
    /\ h \in Event /\ t \in Seq(Event)
    /\ First(b) => First(t) /\ ~Dropped(t)
    /\ Closes(b) => Closes(t) /\ (t = <<>> => h = Syn)
    /\ \A k \in Keys : Ended(b, k) =>
          Ended(t, k) /\ (IsHeld(h) /\ h.key = k => Releases(t, k))
    /\ \A k \in Keys : Releases(b, k) => (IsRelease(h) /\ h.key = k) \/ Releases(t, k)
    /\ Dropped(b) => h = Drop \/ Dropped(t)
    /\ h = Drop => Dropped(b)
    /\ \A p : Waiting(t, p) => Waiting(b, p)
    /\ IsPress(h) => Waiting(b, h.press)
    /\ Once(b) => Once(t) /\ (IsPress(h) => ~Waiting(t, h.press))

LEMMA TailFacts ==
    ASSUME NEW b \in Seq(Event), b # <<>>, NEW h, h = Head(b), NEW t, t = Tail(b)
    PROVE  TailOf(b, h, t)
  <1>1. PICK n : n = Len(b)
    OBVIOUS
  <1>2. n \in Nat \ {0} /\ DOMAIN b = 1 .. n
    BY <1>1, LenProperties, EmptySeq
  <1>3. /\ h \in Event /\ h = b[1]
        /\ t \in Seq(Event) /\ Len(t) = n - 1
        /\ \A i \in 1 .. n - 1 : t[i] = b[i + 1]
    <2>1. /\ Head(b) \in Event /\ Tail(b) \in Seq(Event) /\ Len(Tail(b)) = Len(b) - 1
          /\ \A i \in 1 .. Len(Tail(b)) : Tail(b)[i] = b[i + 1]
      BY HeadTailProperties
    <2>2. Head(b) = b[1]
      BY SMT
    <2> QED BY <1>1, <2>1, <2>2
  <1>4. DOMAIN t = 1 .. n - 1
    BY <1>3, LenProperties
  <1>5. /\ 1 \in DOMAIN b /\ b[1] = h
        /\ \A e \in DOMAIN t : e + 1 \in DOMAIN b /\ t[e] = b[e + 1] /\ e + 1 # 1 /\ e + 1 > 1
        /\ \A e \in DOMAIN b : e = 1 \/ \E d \in DOMAIN t : e = d + 1
        /\ \A d, e \in DOMAIN t : (d + 1 > e + 1 => d > e) /\ (d + 1 = e + 1 => d = e)
    <2>1. ASSUME NEW e \in DOMAIN b, e # 1 PROVE \E d \in DOMAIN t : e = d + 1
      <3>1. e - 1 \in DOMAIN t /\ e = (e - 1) + 1
        BY <1>2, <1>4, <2>1
      <3> QED BY <3>1
    <2> QED BY <1>2, <1>3, <1>4, <2>1
  <1>6. First(b) => First(t) /\ ~Dropped(t)
    BY <1>5 DEF First, Dropped
  <1>7. Closes(b) => Closes(t) /\ (t = <<>> => h = Syn)
    <2> SUFFICES ASSUME b[n] = Syn PROVE Closes(t) /\ (t = <<>> => h = Syn)
      BY <1>1 DEF Closes
    <2>1. ASSUME t # <<>> PROVE t[Len(t)] = Syn
      <3>1. Len(t) \in Nat \ {0}
        BY <1>3, <2>1, EmptySeq
      <3>2. Len(t) \in 1 .. n - 1 /\ Len(t) + 1 = n
        BY <1>2, <1>3, <3>1
      <3> QED BY <1>3, <3>2
    <2>2. ASSUME t = <<>> PROVE h = Syn
      <3>1. Len(t) = 0
        BY <2>2, EmptySeq
      <3>2. n = 1
        BY <1>2, <1>3, <3>1
      <3> QED BY <1>3, <3>2
    <2> QED BY <2>1, <2>2 DEF Closes
  <1>8. ASSUME NEW k \in Keys, Ended(b, k)
        PROVE  Ended(t, k) /\ (IsHeld(h) /\ h.key = k => Releases(t, k))
    <2>1. Ended(t, k)
      <3> SUFFICES ASSUME NEW e \in DOMAIN t, IsHeld(t[e]), t[e].key = k
                   PROVE  \E d \in DOMAIN t : d > e /\ IsRelease(t[d]) /\ t[d].key = k
        BY DEF Ended
      <3>1. PICK d \in DOMAIN b : d > e + 1 /\ IsRelease(b[d]) /\ b[d].key = k
        BY <1>5, <1>8 DEF Ended
      <3>2. d # 1
        BY <1>2, <1>4, <3>1
      <3>3. PICK c \in DOMAIN t : d = c + 1
        BY <1>5, <3>2
      <3> QED BY <1>5, <3>1, <3>3
    <2>2. ASSUME IsHeld(h), h.key = k PROVE Releases(t, k)
      <3>1. PICK d \in DOMAIN b : d > 1 /\ IsRelease(b[d]) /\ b[d].key = k
        BY <1>5, <1>8, <2>2 DEF Ended
      <3>2. PICK c \in DOMAIN t : d = c + 1
        BY <1>2, <1>5, <3>1
      <3> QED BY <1>5, <3>1, <3>2 DEF Releases
    <2> QED BY <2>1, <2>2
  <1>9. \A k \in Keys : Releases(b, k) => (IsRelease(h) /\ h.key = k) \/ Releases(t, k)
    BY <1>5 DEF Releases
  <1>10. (Dropped(b) => h = Drop \/ Dropped(t)) /\ (h = Drop => Dropped(b))
    BY <1>5 DEF Dropped
  <1>11. (\A p : Waiting(t, p) => Waiting(b, p)) /\ (IsPress(h) => Waiting(b, h.press))
    BY <1>5 DEF Waiting
  <1>12. Once(b) => Once(t)
    BY <1>5 DEF Once
  <1>13. Once(b) /\ IsPress(h) => ~Waiting(t, h.press)
    BY <1>5 DEF Once, Waiting
  <1> QED BY <1>3, <1>6, <1>7, <1>8, <1>9, <1>10, <1>11, <1>12, <1>13 DEF TailOf

LEMMA FlushedTypes ==
    ASSUME NEW q
    PROVE  Flushed(q) \in Seq(Event)
  <1>1. <<>> \in Seq(Event) /\ <<Syn>> \in Seq(Event) /\ <<Drop, Syn>> \in Seq(Event)
    BY EventFacts
  <1> QED BY <1>1 DEF Flushed

\* EVIOCGKEY leaves a queue without keys.
LEMMA FlushedFacts ==
    ASSUME NEW q \in Seq(Event), First(q), NEW r, r = Flushed(q)
    PROVE  /\ r \in Seq(Event) /\ (r = <<>> <=> q = <<>>)
           /\ First(r) /\ Closes(r) /\ Once(r)
           /\ \A k \in Keys : Ended(r, k)
           /\ \A p : ~Waiting(r, p)
           /\ Dropped(q) => Dropped(r)
           /\ ~HasKey(q) => \A k \in Keys : ~Releases(q, k)
  <1> USE EventFacts
  <1>1. ASSUME ~HasKey(q) PROVE \A k \in Keys : ~Releases(q, k)
    BY <1>1 DEF HasKey, Releases, IsRelease
  <1>2. CASE q = <<>>
    <2>1. r = <<>> /\ DOMAIN r = {}
      BY <1>2 DEF Flushed
    <2> QED BY <1>1, <1>2, <2>1 DEF First, Closes, Once, Ended, Waiting, Dropped
  <1>3. ASSUME q # <<>>, Head(q) = Drop
        PROVE  /\ r \in Seq(Event) /\ r # <<>>
               /\ First(r) /\ Closes(r) /\ Once(r)
               /\ \A k \in Keys : Ended(r, k)
               /\ \A p : ~Waiting(r, p)
               /\ Dropped(r)
    <2>1. r \in Seq(Event) /\ Len(r) = 2 /\ DOMAIN r = {1, 2} /\ r[1] = Drop /\ r[2] = Syn
          /\ r # <<>>
      BY <1>3 DEF Flushed
    <2> QED BY <2>1 DEF First, Closes, Once, Ended, Waiting, Dropped
  <1>4. ASSUME q # <<>>, Head(q) # Drop
        PROVE  /\ r \in Seq(Event) /\ r # <<>>
               /\ First(r) /\ Closes(r) /\ Once(r)
               /\ \A k \in Keys : Ended(r, k)
               /\ \A p : ~Waiting(r, p)
               /\ ~Dropped(q)
    <2>1. r \in Seq(Event) /\ Len(r) = 1 /\ DOMAIN r = {1} /\ r[1] = Syn /\ r # <<>>
      BY <1>4 DEF Flushed
    <2>2. Dropped(q) => Head(q) = Drop \/ Dropped(Tail(q))
      BY <1>4, TailFacts DEF TailOf
    <2>3. ~Dropped(Tail(q))
      BY <1>4, TailFacts DEF TailOf
    <2> QED BY <1>4, <2>1, <2>2, <2>3 DEF First, Closes, Once, Ended, Waiting
  <1> QED BY <1>1, <1>2, <1>3, <1>4

\* Nothing is waiting in an empty stream.
LEMMA EmptyFacts ==
    /\ <<>> \in Seq(Event) /\ First(<<>>) /\ Closes(<<>>) /\ Once(<<>>) /\ ~Dropped(<<>>)
    /\ \A k \in Keys : Ended(<<>>, k) /\ ~Releases(<<>>, k)
    /\ \A p : ~Waiting(<<>>, p)
  <1>1. DOMAIN <<>> = {} /\ <<>> \in Seq(Event)
    OBVIOUS
  <1> QED BY <1>1 DEF First, Closes, Once, Dropped, Ended, Releases, Waiting

-----------------------------------------------------------------------------
(* Places *)

LEMMA Places ==
    /\ Cardinality(Slots) \in Nat /\ Slots = 1 .. Cardinality(Slots)
    /\ Idle # Off /\ Idle # Emit /\ Emit # Off
    /\ Idle \notin Slots /\ Emit \notin Slots /\ Off \notin Slots
    /\ Idle \in 0 .. Off /\ Emit \in 0 .. Off /\ Off \in 0 .. Off
    /\ \A i \in Slots : i \in Nat /\ i \in 0 .. Off /\ i + 1 \in 0 .. Off /\ i + 1 # Off /\ i + 1 # i
    /\ 1 \in 0 .. Off /\ 1 # Off /\ 1 # Idle
    /\ NoFd \notin Fds
    /\ NoNode \notin Nodes
  <1>1. PICK n : n = Cardinality(Slots)
    OBVIOUS
  <1>2. n \in Nat /\ Slots = 1 .. n
    BY <1>1, InputAssumption, FS_CardinalityType
  <1>3. PICK m : m = Cardinality(Nodes)
    OBVIOUS
  <1>4. m \in Nat
    BY <1>3, InputAssumption, FS_CardinalityType
  <1>5. Emit = n + 1 /\ Off = n + 2 /\ Idle = 0 /\ NoFd = 0 /\ Fds = 1 .. n + m
    BY <1>1, <1>3 DEF Emit, Off, Idle, NoFd, Fds
  <1>6. NoNode \notin Nodes
    BY InputAssumption DEF NoNode
  <1>7. Cardinality(Slots) \in Nat /\ Slots = 1 .. Cardinality(Slots)
    BY <1>1, <1>2
  <1>8. /\ Idle # Off /\ Idle # Emit /\ Emit # Off
        /\ Idle \notin Slots /\ Emit \notin Slots /\ Off \notin Slots
        /\ Idle \in 0 .. Off /\ Emit \in 0 .. Off /\ Off \in 0 .. Off
        /\ 1 \in 0 .. Off /\ 1 # Off /\ 1 # Idle
        /\ NoFd \notin Fds
    BY <1>2, <1>4, <1>5
  <1>9. \A i \in Slots : /\ i \in Nat /\ i \in 0 .. Off
                         /\ i + 1 \in 0 .. Off /\ i + 1 # Off /\ i + 1 # i
    BY <1>2, <1>5
  <1> QED BY <1>6, <1>7, <1>8, <1>9

-----------------------------------------------------------------------------
(* Types, descriptors and ranks *)

Structure == TypeOK /\ FdsAccounted /\ SourcesKept /\ RanksKept

\* An open source has its own descriptor, which is open on its node.
LEMMA OwnDescriptor ==
    ASSUME Structure
    PROVE  /\ \A i \in Slots : Open(i) => /\ source[i].fd \in Fds
                                          /\ client[source[i].fd].node = source[i].node
                                          /\ source[i].node \in Nodes
           /\ \A i, j \in Slots : Open(i) /\ source[i].fd = source[j].fd => i = j
           /\ \A f \in Fds : client[f] # Closed =>
                 \E i \in Slots : Open(i) /\ source[i].fd = f /\ client[f].node \in Nodes
           /\ \A f \in Fds : client[f] = Closed <=> client[f].node = NoNode
  <1>1. \A i \in Slots : Open(i) => /\ source[i].fd \in Fds
                                    /\ client[source[i].fd].node = source[i].node
                                    /\ source[i].node \in Nodes
    BY DEF Structure, TypeOK, Source, SourcesKept, Open
  <1>2. \A i, j \in Slots : Open(i) /\ source[i].fd = source[j].fd => i = j
    BY DEF Structure, FdsAccounted, Open
  <1>3. ASSUME NEW f \in Fds, client[f] # Closed
        PROVE  \E i \in Slots : Open(i) /\ source[i].fd = f /\ client[f].node \in Nodes
    <2>1. PICK i \in Slots : source[i].fd = f
      BY <1>3 DEF Structure, FdsAccounted
    <2>2. Open(i)
      BY <2>1, Places DEF Open
    <2> QED BY <1>1, <2>1, <2>2
  <1>4. ASSUME NEW f \in Fds PROVE client[f] = Closed <=> client[f].node = NoNode
    <2>1. client[f] = Closed => client[f].node = NoNode
      BY DEF Closed
    <2>2. client[f] # Closed => client[f].node # NoNode
      BY <1>3, Places
    <2> QED BY <2>1, <2>2
  <1> QED BY <1>1, <1>2, <1>3, <1>4

\* A step that leaves the sources and the nodes of the descriptors alone.
LEMMA SameSources ==
    ASSUME Structure, TypeOK', UNCHANGED source, rescans' \in {rescans, rescans + 1},
           \A f \in Fds : /\ client'[f].node = client[f].node
                          /\ client[f] = Closed => client'[f] = Closed,
           pumping' => at' \in Slots /\ Open(at'),
           buf' # <<>> => pumping',
           at' = Off => \A i \in Slots : ~Open(i)
    PROVE  Structure'
  <1>1. \A f \in Fds : client'[f] = Closed <=> client[f] = Closed
    <2> SUFFICES ASSUME NEW f \in Fds, client[f] # Closed PROVE client'[f] # Closed
      OBVIOUS
    <2>1. client[f].node # NoNode
      BY OwnDescriptor
    <2> QED BY <2>1 DEF Closed
  <1>2. FdsAccounted'
    BY <1>1 DEF Structure, FdsAccounted
  <1>3. \A i \in Slots : Open(i)' <=> Open(i)
    BY DEF Open
  <1>4. SourcesKept'
    <2>1. ASSUME NEW i \in Slots, Open(i)
          PROVE  source'[i].node \in Nodes /\ client'[source'[i].fd].node = source'[i].node
      BY <2>1, OwnDescriptor
    <2> QED BY <1>3, <2>1 DEF Structure, SourcesKept, Open
  <1>5. RanksKept'
    <2>1. rescans' = 0 => rescans = 0
      BY InputAssumption DEF Structure, TypeOK
    <2> QED BY <1>3, <2>1 DEF Structure, RanksKept
  <1> QED BY <1>2, <1>4, <1>5 DEF Structure

\* What the kernel does to the clients of a node.
LEMMA DeliverTypes ==
    ASSUME TypeOK, NEW n \in Nodes, NEW x \in Event, Deliver(n, Packet(x))
    PROVE  /\ client' \in [Fds -> Client]
           /\ \A f \in Fds : /\ client'[f].node = client[f].node
                             /\ client'[f].gone = client[f].gone
                             /\ f \notin OpenOn(n) => client'[f] = client[f]
                             /\ f \in OpenOn(n) =>
                                   client'[f].queue = Delivered(client[f].queue, Packet(x))
  <1>1. ASSUME NEW f \in Fds
        PROVE  /\ client'[f] \in Client
               /\ client'[f].node = client[f].node
               /\ client'[f].gone = client[f].gone
               /\ f \notin OpenOn(n) => client'[f] = client[f]
               /\ f \in OpenOn(n) =>
                     client'[f].queue = Delivered(client[f].queue, Packet(x))
    <2>1. client[f] \in Client
      BY DEF TypeOK
    <2>2. client[f].queue \in Seq(Event)
      BY <2>1 DEF Client
    <2>3. PICK q \in Seq(Event) : q = Delivered(client[f].queue, Packet(x))
      BY <2>2, DeliveredShape
    <2>4. client'[f] = IF f \in OpenOn(n) THEN [client[f] EXCEPT !.queue = q] ELSE client[f]
      BY <2>3 DEF Deliver
    <2> QED BY <2>1, <2>3, <2>4 DEF Client
  <1>2. client' = [f \in Fds |-> client'[f]]
    BY DEF Deliver
  <1> QED BY <1>1, <1>2

LEMMA PressStructure ==
    ASSUME Structure, NEW n \in Nodes, NEW k \in Keys, Press(n, k)
    PROVE  Structure'
  <1>1. Key(k, 1, pressed') \in Event /\ pressed' \in Numbers
    <2>1. pressed' \in Numbers
      BY InputAssumption DEF Press, Structure, TypeOK, Numbers
    <2> QED BY <2>1, KeyFacts
  <1>2. /\ client' \in [Fds -> Client]
        /\ \A f \in Fds : /\ client'[f].node = client[f].node
                          /\ f \notin OpenOn(n) => client'[f] = client[f]
    BY <1>1, DeliverTypes DEF Press, Structure
  <1>3. \A f \in Fds : client[f] = Closed => client'[f] = Closed
    BY <1>2, Places DEF OpenOn, Closed
  <1>4. TypeOK'
    BY <1>1, <1>2 DEF Press, Structure, TypeOK, pump
  <1> QED BY <1>2, <1>3, <1>4, SameSources DEF Press, pump, Structure, SourcesKept

LEMMA ReleaseStructure ==
    ASSUME Structure, NEW n \in Nodes, NEW k \in Keys, Release(n, k)
    PROVE  Structure'
  <1>1. Key(k, 0, 0) \in Event
    BY KeyFacts, InputAssumption DEF Numbers
  <1>2. /\ client' \in [Fds -> Client]
        /\ \A f \in Fds : /\ client'[f].node = client[f].node
                          /\ f \notin OpenOn(n) => client'[f] = client[f]
    BY <1>1, DeliverTypes DEF Release, Structure
  <1>3. \A f \in Fds : client[f] = Closed => client'[f] = Closed
    BY <1>2, Places DEF OpenOn, Closed
  <1>4. TypeOK'
    BY <1>2 DEF Release, Structure, TypeOK, pump
  <1> QED BY <1>2, <1>3, <1>4, SameSources DEF Release, pump, Structure, SourcesKept

LEMMA RepeatStructure ==
    ASSUME Structure, NEW n \in Nodes, NEW k \in Keys, Repeat(n, k)
    PROVE  Structure'
  <1>1. Key(k, 2, 0) \in Event /\ pressed' \in Numbers
    <2>1. pressed' \in Numbers /\ 0 \in Numbers
      BY InputAssumption DEF Repeat, Structure, TypeOK, Numbers
    <2> QED BY <2>1, KeyFacts
  <1>2. /\ client' \in [Fds -> Client]
        /\ \A f \in Fds : /\ client'[f].node = client[f].node
                          /\ f \notin OpenOn(n) => client'[f] = client[f]
    BY <1>1, DeliverTypes DEF Repeat, Structure
  <1>3. \A f \in Fds : client[f] = Closed => client'[f] = Closed
    BY <1>2, Places DEF OpenOn, Closed
  <1>4. TypeOK'
    BY <1>1, <1>2 DEF Repeat, Structure, TypeOK, pump, kernel
  <1> QED BY <1>2, <1>3, <1>4, SameSources DEF Repeat, pump, Structure, SourcesKept

LEMMA UnplugStructure ==
    ASSUME Structure, NEW n \in Nodes, Unplug(n)
    PROVE  /\ Structure'
           /\ \A f \in Fds : /\ client'[f].node = client[f].node
                             /\ client[f].node = n => client'[f].gone /\ client'[f].queue = <<>>
                             /\ client[f].node # n => client'[f] = client[f]
  <1>1. ASSUME NEW f \in Fds
        PROVE  /\ client'[f] \in Client
               /\ client'[f].node = client[f].node
               /\ client[f].node = n => client'[f].gone /\ client'[f].queue = <<>>
               /\ client[f].node # n => client'[f] = client[f]
    <2>1. client[f] \in Client /\ <<>> \in Seq(Event)
      BY EmptyFacts DEF Structure, TypeOK
    <2>2. client'[f] = IF client[f].node = n
                       THEN [client[f] EXCEPT !.gone = TRUE, !.queue = <<>>] ELSE client[f]
      BY DEF Unplug
    <2> QED BY <2>1, <2>2 DEF Client
  <1>2. client' \in [Fds -> Client]
    <2>1. client' = [f \in Fds |-> client'[f]]
      BY DEF Unplug
    <2> QED BY <1>1, <2>1
  <1>3. \A f \in Fds : client[f] = Closed => client'[f] = Closed
    BY <1>1, Places DEF Closed
  <1>4. TypeOK'
    BY <1>2 DEF Unplug, Structure, TypeOK, pump
  <1>5. Structure'
    BY <1>1, <1>3, <1>4, SameSources DEF Unplug, pump, Structure, SourcesKept
  <1> QED BY <1>1, <1>5

LEMMA PlugStructure ==
    ASSUME Structure, NEW n \in Nodes, Plug(n)
    PROVE  Structure'
  <1>1. TypeOK'
    BY DEF Plug, Structure, TypeOK, pump
  <1> QED BY <1>1, SameSources DEF Plug, pump, Structure, SourcesKept

\* Steps of a poll that read nothing.
PollQuiet == PollStart \/ PollVisit \/ PollEmit

LEMMA QuietFacts ==
    ASSUME Structure, PollQuiet
    PROVE  /\ buf = <<>> /\ UNCHANGED <<kernel, client, source, buf, raced, pressed, queued, rescans>>
           /\ at' \in 0 .. Off /\ at' # Off /\ pumping' \in BOOLEAN
           /\ pumping' => at' \in Slots /\ Open(at')
           /\ pending' \in Seq(Actions) /\ Len(pending') <= PendingCap
  <1>1. CASE PollStart
    BY <1>1, Places DEF PollStart, Structure, SourcesKept, TypeOK, pump
  <1>2. CASE PollVisit
    BY <1>2, Places DEF PollVisit, Structure, SourcesKept, TypeOK, Skipped, Open
  <1>3. CASE PollEmit
    <2>1. pending' \in Seq(Actions) /\ Len(pending') <= PendingCap
      <3>1. CASE pending = <<>>
        BY <1>3, <3>1 DEF PollEmit, Structure, TypeOK
      <3>2. CASE pending # <<>>
        <4>1. Tail(pending) \in Seq(Actions)
              /\ Len(Tail(pending)) = Len(pending) - 1
          BY <3>2, HeadTailProperties DEF Structure, TypeOK
        <4>2. Len(pending) \in Nat /\ Len(pending) <= PendingCap
          BY LenProperties DEF Structure, TypeOK
        <4> QED BY <1>3, <3>2, <4>1, <4>2, InputAssumption DEF PollEmit
      <3> QED BY <3>1, <3>2
    <2>2. buf = <<>> /\ ~pumping
      BY <1>3, Places DEF PollEmit, Structure, SourcesKept
    <2> QED BY <1>3, <2>1, <2>2, Places DEF PollEmit, pump, Structure, TypeOK
  <1> QED BY <1>1, <1>2, <1>3 DEF PollQuiet

LEMMA QuietStructure ==
    ASSUME Structure, PollQuiet
    PROVE  Structure'
  <1>1. TypeOK'
    BY QuietFacts DEF Structure, TypeOK, kernel
  <1> QED BY <1>1, QuietFacts, SameSources, Places DEF kernel

\* What a read leaves.
Lasts(q) == IF Len(q) < BufCap THEN Len(q) ELSE BufCap

LEMMA ReadFacts ==
    ASSUME Structure, PumpRead
    PROVE  /\ at \in Slots /\ Open(at) /\ source[at].fd \in Fds /\ buf = <<>>
           /\ Queue(at) \in Seq(Event) /\ Lasts(Queue(at)) \in 0 .. Len(Queue(at))
  <1>1. at \in Slots /\ Open(at) /\ source[at].fd \in Fds /\ buf = <<>>
    BY OwnDescriptor DEF PumpRead, Structure, SourcesKept
  <1>2. Queue(at) \in Seq(Event)
    BY <1>1 DEF Queue, Structure, TypeOK, Client
  <1>3. Len(Queue(at)) \in Nat
    BY <1>2, LenProperties
  <1> QED BY <1>1, <1>2, <1>3, InputAssumption DEF Lasts

\* The read fails: the source is gone and its descriptor closed.
ReadsLost == PumpRead /\ client[source[at].fd].gone

\* The read hands out what there is.
ReadsOn == PumpRead /\ ~client[source[at].fd].gone

LEMMA LostFacts ==
    ASSUME Structure, ReadsLost
    PROVE  /\ client' \in [Fds -> Client] /\ source' \in [Slots -> Source]
           /\ client'[source[at].fd] = Closed
           /\ \A f \in Fds \ {source[at].fd} : client'[f] = client[f]
           /\ source'[at].fd = NoFd /\ source'[at].state = "ABSENT" /\ source'[at].held_keys = {}
           /\ \A i \in Slots \ {at} : source'[i] = source[i]
           /\ at' = at + 1 /\ ~pumping' /\ pumping' \in BOOLEAN /\ buf' = <<>>
           /\ UNCHANGED <<kernel, pending, raced, pressed, queued, rescans>>
  <1>0. PumpRead /\ client[source[at].fd].gone
    BY DEF ReadsLost
  <1>1. at \in Slots /\ source[at].fd \in Fds
    BY <1>0, ReadFacts
  <1>2. PICK f : f = source[at].fd
    OBVIOUS
  <1>3. /\ client' = [client EXCEPT ![f] = Closed]
        /\ source' = [source EXCEPT ![at] = Disconnected(source[at])]
        /\ pumping' = FALSE /\ at' = at + 1 /\ buf' = <<>>
        /\ UNCHANGED <<kernel, pending, raced, pressed, queued, rescans>>
    BY <1>0, <1>2 DEF PumpRead, Unreadable
  <1>4. Closed \in Client
    BY EmptyFacts DEF Closed, Client
  <1>5. /\ Disconnected(source[at]) \in Source
        /\ Disconnected(source[at]).fd = NoFd /\ Disconnected(source[at]).state = "ABSENT"
        /\ Disconnected(source[at]).held_keys = {}
    <2>1. PICK s \in Source : s = source[at]
      BY <1>1 DEF Structure, TypeOK
    <2>2. PICK d : d = [s EXCEPT !.fd = NoFd, !.state = "ABSENT",
                                 !.generation = @ + 1, !.held_keys = {}]
      OBVIOUS
    <2>3. d = Disconnected(source[at])
      BY <2>1, <2>2 DEF Disconnected
    <2>4. s.generation + 1 \in Nat /\ {} \in SUBSET Tracked
      <3>1. s.generation \in Nat
        BY DEF Source
      <3> QED BY <3>1
    <2>5. PICK g \in Nat : g = s.generation + 1
      BY <2>4
    <2>6. d = [s EXCEPT !.fd = NoFd, !.state = "ABSENT", !.generation = g, !.held_keys = {}]
      BY <2>2, <2>5
    <2>7. d \in Source /\ d.fd = NoFd /\ d.state = "ABSENT" /\ d.held_keys = {}
      BY <2>4, <2>6 DEF Source
    <2> QED BY <2>3, <2>7
  <1>6. client \in [Fds -> Client] /\ source \in [Slots -> Source]
    BY DEF Structure, TypeOK
  <1> QED BY <1>1, <1>2, <1>3, <1>4, <1>5, <1>6

LEMMA ReadsOnFacts ==
    ASSUME Structure, ReadsOn
    PROVE  LET q == Queue(at)
               n == Lasts(q)
           IN  /\ client' \in [Fds -> Client]
               /\ client'[source[at].fd].queue = SubSeq(q, n + 1, Len(q))
               /\ client'[source[at].fd].gone = client[source[at].fd].gone
               /\ client'[source[at].fd].node = client[source[at].fd].node
               /\ \A f \in Fds \ {source[at].fd} : client'[f] = client[f]
               /\ buf' = SubSeq(q, 1, n) /\ buf' \in Seq(Event)
               /\ pumping' \in BOOLEAN /\ (pumping' <=> n > 0) /\ (buf' = <<>> <=> n = 0)
               /\ at' = (IF n > 0 THEN at ELSE at + 1)
               /\ UNCHANGED <<source, kernel, pending, raced, pressed, queued, rescans>>
  <1> DEFINE q == Queue(at)
             n == Lasts(q)
             f == source[at].fd
  <1>0. PumpRead /\ ~client[source[at].fd].gone
    BY DEF ReadsOn
  <1>1. f \in Fds /\ q \in Seq(Event) /\ n \in 0 .. Len(q) /\ q = client[f].queue
    BY <1>0, ReadFacts DEF Queue
  <1>2. /\ client' = [client EXCEPT ![f].queue = SubSeq(q, n + 1, Len(q))]
        /\ buf' = SubSeq(q, 1, n)
        /\ pumping' = (n > 0)
        /\ at' = (IF n > 0 THEN at ELSE at + 1)
        /\ UNCHANGED <<source, kernel, pending, raced, pressed, queued, rescans>>
    BY <1>0 DEF PumpRead, Unreadable, Lasts, Queue
  <1>a. pumping' \in BOOLEAN /\ (pumping' <=> n > 0)
    <2>1. pumping' = (n > 0)
      BY <1>2
    <2> DEFINE some == n > 0
    <2>2. some = TRUE \/ some = FALSE
      OBVIOUS
    <2>3. pumping' = some
      BY <2>1
    <2> HIDE DEF some
    <2>4. pumping' \in BOOLEAN /\ (pumping' <=> some)
      BY <2>2, <2>3, Zenon
    <2> QED BY <2>4 DEF some
  <1> HIDE DEF q, n, f
  <1>3. SubSeq(q, 1, n) \in Seq(Event) /\ Len(SubSeq(q, 1, n)) = n
        /\ SubSeq(q, n + 1, Len(q)) \in Seq(Event)
    BY <1>1, SplitFacts DEF SplitOf
  <1>4. buf' = <<>> <=> n = 0
    BY <1>1, <1>2, <1>3, EmptySeq
  <1>5. client \in [Fds -> Client] /\ client[f] \in Client
    BY <1>1 DEF Structure, TypeOK
  <1>6. PICK r \in Seq(Event) : r = SubSeq(q, n + 1, Len(q))
    BY <1>3
  <1>7. PICK c \in Client : /\ c = [client[f] EXCEPT !.queue = r]
                            /\ c.queue = r /\ c.gone = client[f].gone /\ c.node = client[f].node
    <2>1. PICK d \in Client : d = client[f]
      BY <1>5
    <2>2. PICK c : c = [d EXCEPT !.queue = r]
      OBVIOUS
    <2>3. c \in Client /\ c.queue = r /\ c.gone = d.gone /\ c.node = d.node
      BY <2>2 DEF Client
    <2> QED BY <2>1, <2>2, <2>3
  <1>8. client' = [client EXCEPT ![f] = c]
    BY <1>2, <1>6, <1>7
  <1> QED BY <1>1, <1>2, <1>a, <1>3, <1>4, <1>5, <1>6, <1>7, <1>8 DEF q, n, f

LEMMA ReadStructure ==
    ASSUME Structure, PumpRead
    PROVE  Structure'
  <1>0. at \in Slots /\ Open(at) /\ source[at].fd \in Fds
    BY ReadFacts
  <1>1. CASE ReadsLost
    <2>1. TypeOK'
      BY <1>0, <1>1, LostFacts, Places, EmptyFacts DEF Structure, TypeOK, kernel
    <2>2. FdsAccounted'
      <3>1. ASSUME NEW f \in Fds PROVE client'[f] # Closed <=> \E i \in Slots : source'[i].fd = f
        <4>1. CASE f = source[at].fd
          <5>1. \A i \in Slots : source'[i].fd # f
            BY <1>0, <1>1, <4>1, LostFacts, OwnDescriptor, Places
          <5> QED BY <1>1, <4>1, <5>1, LostFacts
        <4>2. CASE f # source[at].fd
          <5>1. \A i \in Slots : source'[i].fd = f <=> source[i].fd = f
            BY <1>0, <1>1, <4>2, LostFacts, Places
          <5>2. client'[f] = client[f]
            BY <1>1, <4>2, LostFacts
          <5> QED BY <5>1, <5>2 DEF Structure, FdsAccounted
        <4> QED BY <4>1, <4>2
      <3>2. ASSUME NEW i \in Slots, NEW j \in Slots, i # j, source'[i].fd = source'[j].fd
            PROVE  source'[i].fd = NoFd
        BY <1>0, <1>1, <3>2, LostFacts DEF Structure, FdsAccounted
      <3> QED BY <3>1, <3>2 DEF FdsAccounted
    <2>3. \A i \in Slots : Open(i)' <=> Open(i) /\ i # at
      BY <1>0, <1>1, LostFacts DEF Open
    <2>4. SourcesKept'
      <3>1. ASSUME NEW i \in Slots
            PROVE  /\ (source[i].state = "ABSENT" <=> ~Open(i))'
                   /\ (~Open(i))' => source'[i].held_keys = {}
                   /\ Open(i)' => /\ source'[i].node \in Nodes
                                  /\ client'[source'[i].fd].node = source'[i].node
        <4>1. CASE i = at
          BY <1>1, <2>3, <4>1, LostFacts
        <4>2. CASE i # at
          <5>1. source'[i] = source[i]
            BY <1>1, <4>2, LostFacts
          <5>2. Open(i) => source[i].fd # source[at].fd /\ client'[source[i].fd] = client[source[i].fd]
            BY <1>0, <1>1, <4>2, LostFacts, OwnDescriptor
          <5> QED BY <2>3, <4>2, <5>1, <5>2, OwnDescriptor DEF Structure, SourcesKept
        <4> QED BY <4>1, <4>2
      <3> QED BY <1>0, <1>1, <3>1, LostFacts, Places DEF SourcesKept
    <2>5. RanksKept'
      <3>1. \A i \in Slots : Open(i)' => source'[i].node = source[i].node /\ Open(i)
        BY <1>1, <2>3, LostFacts
      <3> QED BY <1>1, <3>1, LostFacts DEF Structure, RanksKept
    <2> QED BY <2>1, <2>2, <2>4, <2>5 DEF Structure
  <1>2. CASE ReadsOn
    <2>1. Lasts(Queue(at)) \in Nat
      BY ReadFacts
    <2>2. TypeOK'
      BY <1>0, <1>2, <2>1, ReadsOnFacts, Places DEF Structure, TypeOK, kernel
    <2>3. client[source[at].fd] # Closed
      BY <1>0 DEF Structure, FdsAccounted
    <2>4. \A f \in Fds : /\ client'[f].node = client[f].node
                         /\ client[f] = Closed => client'[f] = Closed
      BY <1>2, <2>3, ReadsOnFacts
    <2>5. /\ pumping' => at' = at
          /\ buf' # <<>> => pumping'
          /\ at' \in {at, at + 1}
      BY <1>2, <2>1, ReadsOnFacts
    <2> QED BY <1>0, <1>2, <2>2, <2>4, <2>5, ReadsOnFacts, SameSources, Places
  <1> QED BY <1>1, <1>2 DEF ReadsLost, ReadsOn

\* What consuming one event makes of a source and of the queue of actions.
Work(s, w, u) == [source |-> s, pending |-> w, queued |-> u]
Counts == [Numbers -> Nat]

LEMMA EnqueueFacts ==
    ASSUME NEW s, NEW w \in Seq(Actions), Len(w) <= PendingCap, NEW u \in Counts,
           NEW a \in Actions \cup {"NONE"}, NEW x \in Numbers,
           NEW d, d = Enqueue(Work(s, w, u), a, x)
    PROVE  /\ d.source = s
           /\ d.pending \in Seq(Actions) /\ Len(d.pending) <= PendingCap
           /\ d.queued \in Counts
           /\ \A y \in Numbers \ {x} : d.queued[y] = u[y]
           /\ d.queued[x] \in {u[x], u[x] + 1}
  <1>1. CASE a # "NONE" /\ Len(w) < PendingCap
    <2>1. d = [Work(s, w, u) EXCEPT !.pending = Append(@, a), !.queued[x] = @ + 1]
      BY <1>1 DEF Enqueue, Work
    <2>2. d = Work(s, Append(w, a), [u EXCEPT ![x] = @ + 1])
      BY <2>1 DEF Work
    <2>3. d.source = s /\ d.pending = Append(w, a) /\ d.queued = [u EXCEPT ![x] = @ + 1]
      <3>1. PICK c, v : c = Append(w, a) /\ v = [u EXCEPT ![x] = @ + 1]
        OBVIOUS
      <3>2. d = Work(s, c, v)
        BY <2>2, <3>1
      <3>3. d.source = s /\ d.pending = c /\ d.queued = v
        BY <3>2 DEF Work
      <3> QED BY <3>1, <3>3
    <2>4. Append(w, a) \in Seq(Actions) /\ Len(Append(w, a)) = Len(w) + 1
      BY <1>1, AppendProperties
    <2>5. Len(w) + 1 <= PendingCap
      BY <1>1, InputAssumption, LenProperties
    <2>6. u[x] + 1 \in Nat
      BY DEF Counts
    <2>7. /\ [u EXCEPT ![x] = @ + 1] \in Counts
          /\ \A y \in Numbers \ {x} : [u EXCEPT ![x] = @ + 1][y] = u[y]
          /\ [u EXCEPT ![x] = @ + 1][x] = u[x] + 1
      BY <2>6 DEF Counts
    <2> QED BY <2>3, <2>4, <2>5, <2>7
  <1>2. CASE ~(a # "NONE" /\ Len(w) < PendingCap)
    <2>1. d = Work(s, w, u)
      BY <1>2 DEF Enqueue, Work
    <2> QED BY <2>1 DEF Work
  <1> QED BY <1>1, <1>2

Remembers(s, k, v, t) ==
    /\ t \in Source /\ t.fd = s.fd /\ t.node = s.node /\ t.state = s.state
    /\ t.held_keys = IF k \notin Tracked THEN s.held_keys
                     ELSE IF v # 0 THEN s.held_keys \cup {k} ELSE s.held_keys \ {k}

LEMMA NotedFacts ==
    ASSUME NEW s \in Source, NEW w, NEW u, NEW k \in Keys, NEW v \in 0 .. 2
    PROVE  \E t : Noted(Work(s, w, u), k, v) = Work(t, w, u) /\ Remembers(s, k, v, t)
  <1>1. CASE k \notin Tracked
    BY <1>1 DEF Noted, Remembers
  <1>2. CASE k \in Tracked
    <2>1. PICK h \in SUBSET Tracked :
             h = IF v # 0 THEN s.held_keys \cup {k} ELSE s.held_keys \ {k}
      BY <1>2 DEF Source
    <2>2. PICK t : t = [s EXCEPT !.held_keys = h]
      OBVIOUS
    <2>3. t \in Source /\ t.fd = s.fd /\ t.node = s.node /\ t.state = s.state /\ t.held_keys = h
      BY <2>2 DEF Source
    <2>4. Noted(Work(s, w, u), k, v) = Work(t, w, u)
      BY <1>2, <2>1, <2>2 DEF Noted, Work
    <2> QED BY <1>2, <2>1, <2>3, <2>4 DEF Remembers
  <1> QED BY <1>1, <1>2

LEMMA ProcessKeyFacts ==
    ASSUME NEW s \in Source, NEW w \in Seq(Actions), Len(w) <= PendingCap, NEW u \in Counts,
           NEW e \in Event, e # Syn, e # Drop,
           NEW d, d = ProcessKey(Work(s, w, u), e)
    PROVE  /\ Remembers(s, e.key, e.value, d.source)
           /\ d.pending \in Seq(Actions) /\ Len(d.pending) <= PendingCap
           /\ d.queued \in Counts
           /\ ~IsPress(e) => d.queued = u
           /\ \A y \in Numbers \ {e.press} : d.queued[y] = u[y]
           /\ d.queued[e.press] \in {u[e.press], u[e.press] + 1}
  <1>1. PICK k \in Keys, v \in 0 .. 2, x \in Numbers : k = e.key /\ v = e.value /\ x = e.press
    BY EventCases
  <1>2. PICK t : Noted(Work(s, w, u), k, v) = Work(t, w, u) /\ Remembers(s, k, v, t)
    BY NotedFacts
  <1>3. PICK a \in Actions \cup {"NONE"} : a = MapKey(k)
    BY DEF Actions, MapKey
  <1>4. CASE e.value = 1
    <2>1. d = Enqueue(Work(t, w, u), a, x)
      BY <1>1, <1>2, <1>3, <1>4 DEF ProcessKey
    <2>2. IsPress(e)
      BY <1>4, EventCases DEF IsPress
    <2>3. /\ d.source = t
          /\ d.pending \in Seq(Actions) /\ Len(d.pending) <= PendingCap
          /\ d.queued \in Counts
          /\ \A y \in Numbers \ {x} : d.queued[y] = u[y]
          /\ d.queued[x] \in {u[x], u[x] + 1}
      BY <2>1, EnqueueFacts
    <2> QED BY <1>1, <1>2, <2>2, <2>3
  <1>5. CASE e.value # 1
    <2>1. d = Work(t, w, u)
      BY <1>1, <1>2, <1>5 DEF ProcessKey
    <2>2. d.source = t /\ d.pending = w /\ d.queued = u
      BY <2>1 DEF Work
    <2> QED BY <1>1, <1>2, <2>2
  <1> QED BY <1>4, <1>5

\* The four things pump_source makes of an event.
Unread == UNCHANGED <<client, raced>>

TakesDrop ==
    /\ Head(buf) = Drop /\ source[at].state = "CONNECTED"
    /\ source'[at].state = "DESYNC" /\ source'[at].held_keys = source[at].held_keys
    /\ queued' = queued /\ Unread

TakesReport ==
    /\ Head(buf) = Syn /\ source[at].state = "DESYNC"
    /\ source'[at].state = "CONNECTED"
    /\ queued' = queued
    /\ IF client[source[at].fd].gone
       THEN source'[at].held_keys = source[at].held_keys /\ Unread
       ELSE /\ source'[at].held_keys = down[source[at].node] \cap Tracked
            /\ client' = [client EXCEPT ![source[at].fd].queue = Flushed(Queue(at))]
            /\ raced' = IF HasKey(Tail(buf)) /\ HasKey(Queue(at)) THEN raced \cup {at}
                                                                ELSE raced \ {at}

TakesKey ==
    /\ Head(buf) # Syn /\ Head(buf) # Drop /\ source[at].state = "CONNECTED"
    /\ Remembers(source[at], Head(buf).key, Head(buf).value, source'[at])
    /\ ~IsPress(Head(buf)) => queued' = queued
    /\ \A y \in Numbers \ {Head(buf).press} : queued'[y] = queued[y]
    /\ queued'[Head(buf).press] \in {queued[Head(buf).press], queued[Head(buf).press] + 1}
    /\ Unread

TakesNothing ==
    /\ source[at].state = "CONNECTED" => Head(buf) = Syn
    /\ source[at].state = "DESYNC" => Head(buf) # Syn
    /\ source'[at] = source[at]
    /\ queued' = queued /\ Unread

LEMMA ConsumeFacts ==
    ASSUME Structure, PumpConsume
    PROVE  /\ at \in Slots /\ Open(at) /\ source[at].fd \in Fds /\ pumping
           /\ buf # <<>> /\ Head(buf) \in Event /\ buf' = Tail(buf) /\ Tail(buf) \in Seq(Event)
           /\ source' \in [Slots -> Source]
           /\ source'[at].fd = source[at].fd /\ source'[at].node = source[at].node
           /\ source'[at].state # "ABSENT"
           /\ \A i \in Slots \ {at} : source'[i] = source[i]
           /\ pending' \in Seq(Actions) /\ Len(pending') <= PendingCap /\ queued' \in Counts
           /\ UNCHANGED <<kernel, at, pumping, pressed, rescans>>
           /\ TakesDrop \/ TakesReport \/ TakesKey \/ TakesNothing
  <1>1. /\ at \in Slots /\ Open(at) /\ pumping /\ buf # <<>> /\ buf' = Tail(buf)
        /\ UNCHANGED <<kernel, at, pumping, pressed, rescans>>
    BY DEF PumpConsume, Structure, SourcesKept
  <1>2. source[at].fd \in Fds /\ source[at].state \in {"CONNECTED", "DESYNC"} /\ source[at] \in Source
    BY <1>1, OwnDescriptor DEF Structure, TypeOK, SourcesKept, Source
  <1>3. Head(buf) \in Event /\ Tail(buf) \in Seq(Event)
    BY <1>1, TailFacts DEF TailOf, Structure, TypeOK
  <1>4. pending \in Seq(Actions) /\ Len(pending) <= PendingCap /\ queued \in Counts
    BY DEF Structure, TypeOK, Actions, Counts
  <1>5. PICK s, w, u, e : s = source[at] /\ w = pending /\ u = queued /\ e = Head(buf)
    OBVIOUS
  <1>6. PICK d : d = Consume(Work(s, w, u), e)
    OBVIOUS
  <1>7. /\ source' = [source EXCEPT ![at] = d.source]
        /\ pending' = d.pending /\ queued' = d.queued
        /\ IF Resyncs(s, e) /\ ~client[s.fd].gone
           THEN /\ client' = [client EXCEPT ![s.fd].queue = Flushed(Queue(at))]
                /\ raced' = IF HasKey(Tail(buf)) /\ HasKey(Queue(at)) THEN raced \cup {at}
                                                                     ELSE raced \ {at}
           ELSE Unread
    BY <1>5, <1>6 DEF PumpConsume, Work, Queue, Unread
  <1>8. source'[at] = d.source /\ \A i \in Slots \ {at} : source'[i] = source[i]
    BY <1>1, <1>7 DEF Structure, TypeOK
  <1>9. Work(s, w, u).source = s
    BY DEF Work
  <1>10. ASSUME d.source \in Source, d.source.fd = s.fd, d.source.node = s.node,
                d.source.state # "ABSENT", d.pending \in Seq(Actions),
                Len(d.pending) <= PendingCap, d.queued \in Counts,
                TakesDrop \/ TakesReport \/ TakesKey \/ TakesNothing
         PROVE  /\ source' \in [Slots -> Source]
                /\ source'[at].fd = source[at].fd /\ source'[at].node = source[at].node
                /\ source'[at].state # "ABSENT"
                /\ \A i \in Slots \ {at} : source'[i] = source[i]
                /\ pending' \in Seq(Actions) /\ Len(pending') <= PendingCap /\ queued' \in Counts
                /\ TakesDrop \/ TakesReport \/ TakesKey \/ TakesNothing
    <2>1. source' \in [Slots -> Source]
      BY <1>1, <1>7, <1>10 DEF Structure, TypeOK
    <2> QED BY <1>5, <1>7, <1>8, <1>10, <2>1
  <1>11. CASE e = Drop /\ s.state = "CONNECTED"
    <2>1. PICK t : t = [s EXCEPT !.state = "DESYNC"]
      OBVIOUS
    <2>2. t \in Source /\ t.fd = s.fd /\ t.node = s.node /\ t.state = "DESYNC" /\ t.held_keys = s.held_keys
      BY <1>2, <1>5, <2>1 DEF Source
    <2>a. d = [Work(s, w, u) EXCEPT !.source.state = "DESYNC"]
      BY <1>6, <1>9, <1>11, EventFacts DEF Consume, Resyncs
    <2>3. d = Work(t, w, u)
      BY <2>1, <2>a DEF Work
    <2>4. d.source = t /\ d.pending = w /\ d.queued = u
      BY <2>3 DEF Work
    <2>5. ~Resyncs(s, e)
      BY <1>11, EventFacts DEF Resyncs
    <2>6. TakesDrop
      BY <1>5, <1>7, <1>8, <1>11, <2>2, <2>4, <2>5 DEF TakesDrop
    <2> QED BY <1>1, <1>2, <1>3, <1>4, <1>5, <1>10, <2>2, <2>4, <2>6
  <1>12. CASE Resyncs(s, e)
    <2>1. PICK h : h = IF client[s.fd].gone THEN s.held_keys ELSE down[s.node] \cap Tracked
      OBVIOUS
    <2>2. PICK t : t = [s EXCEPT !.state = "CONNECTED", !.held_keys = h]
      OBVIOUS
    <2>3. h \in SUBSET Tracked
      BY <1>2, <1>5, <2>1 DEF Source
    <2>4. t \in Source /\ t.fd = s.fd /\ t.node = s.node /\ t.state = "CONNECTED" /\ t.held_keys = h
      BY <1>2, <1>5, <2>2, <2>3 DEF Source
    <2>5. d = Resync(Work(s, w, u))
      BY <1>6, <1>9, <1>12, EventFacts DEF Consume, Resyncs
    <2>6. d = Work(t, w, u)
      BY <2>1, <2>2, <2>5 DEF Resync, Work
    <2>7. d.source = t /\ d.pending = w /\ d.queued = u
      BY <2>6 DEF Work
    <2>8. TakesReport
      BY <1>5, <1>7, <1>8, <1>12, <2>1, <2>4, <2>7 DEF TakesReport, Resyncs
    <2> QED BY <1>1, <1>2, <1>3, <1>4, <1>5, <1>10, <2>4, <2>7, <2>8
  <1>13. CASE e # Syn /\ e # Drop /\ s.state = "CONNECTED"
    <2>1. e.type = "EV_KEY" /\ ~Resyncs(s, e)
      BY <1>3, <1>5, <1>13, EventCases DEF Resyncs
    <2>2. d = ProcessKey(Work(s, w, u), e)
      BY <1>6, <1>9, <1>13, <2>1 DEF Consume
    <2>3. /\ Remembers(s, e.key, e.value, d.source)
          /\ d.pending \in Seq(Actions) /\ Len(d.pending) <= PendingCap
          /\ d.queued \in Counts
          /\ ~IsPress(e) => d.queued = u
          /\ \A y \in Numbers \ {e.press} : d.queued[y] = u[y]
          /\ d.queued[e.press] \in {u[e.press], u[e.press] + 1}
      BY <1>2, <1>3, <1>4, <1>5, <1>13, <2>2, ProcessKeyFacts
    <2>4. /\ d.source \in Source /\ d.source.fd = s.fd /\ d.source.node = s.node
          /\ d.source.state = s.state
      BY <2>3 DEF Remembers
    <2>5. TakesKey
      BY <1>5, <1>7, <1>8, <1>13, <2>1, <2>3 DEF TakesKey
    <2> QED BY <1>1, <1>2, <1>3, <1>4, <1>5, <1>10, <1>13, <2>3, <2>4, <2>5
  <1>14. CASE /\ s.state = "CONNECTED" => e = Syn
              /\ s.state = "DESYNC" => e # Syn
    <2>1. s.state \in {"CONNECTED", "DESYNC"}
      BY <1>2, <1>5
    <2>2. ~Resyncs(s, e) /\ ~(e = Drop /\ s.state = "CONNECTED")
      BY <1>14, EventFacts DEF Resyncs
    <2>3. ~(e.type = "EV_KEY" /\ s.state = "CONNECTED")
      BY <1>14, EventFacts
    <2>4. d = Work(s, w, u)
      BY <1>6, <1>9, <2>2, <2>3 DEF Consume
    <2>5. d.source = s /\ d.pending = w /\ d.queued = u
      BY <2>4 DEF Work
    <2>6. TakesNothing
      BY <1>5, <1>7, <1>8, <1>14, <2>2, <2>5 DEF TakesNothing
    <2> QED BY <1>1, <1>2, <1>3, <1>4, <1>5, <1>10, <2>1, <2>5, <2>6
  <1>15. \/ e = Drop /\ s.state = "CONNECTED"
         \/ Resyncs(s, e)
         \/ e # Syn /\ e # Drop /\ s.state = "CONNECTED"
         \/ (s.state = "CONNECTED" => e = Syn) /\ (s.state = "DESYNC" => e # Syn)
    BY DEF Resyncs
  <1> QED BY <1>1, <1>2, <1>3, <1>11, <1>12, <1>13, <1>14, <1>15

LEMMA ConsumeStructure ==
    ASSUME Structure, PumpConsume
    PROVE  /\ Structure'
           /\ \A f \in Fds : /\ client'[f].node = client[f].node
                             /\ client'[f].gone = client[f].gone
                             /\ \/ client'[f].queue = client[f].queue
                                \/ /\ TakesReport /\ ~client[f].gone /\ f = source[at].fd
                                   /\ client'[f].queue = Flushed(client[f].queue)
  <1>1. /\ client' \in [Fds -> Client] /\ raced' \subseteq Slots
        /\ \A f \in Fds : /\ client'[f].node = client[f].node
                          /\ client'[f].gone = client[f].gone
                          /\ client[f] = Closed => client'[f] = Closed
                          /\ \/ client'[f].queue = client[f].queue
                             \/ /\ TakesReport /\ ~client[f].gone /\ f = source[at].fd
                                /\ client'[f].queue = Flushed(client[f].queue)
    <2>1. CASE Unread
      BY <2>1 DEF Unread, Structure, TypeOK
    <2>2. CASE TakesReport /\ ~client[source[at].fd].gone
      <3>1. PICK f \in Fds : f = source[at].fd
        BY ConsumeFacts
      <3>2. PICK c \in Client : c = client[f]
        BY DEF Structure, TypeOK
      <3>3. PICK q \in Seq(Event) : q = Flushed(c.queue)
        <4>1. c.queue \in Seq(Event)
          BY DEF Client
        <4> QED BY <4>1, FlushedTypes
      <3>4. PICK g : g = [c EXCEPT !.queue = q]
        OBVIOUS
      <3>5. g \in Client /\ g.node = c.node /\ g.gone = c.gone /\ g.queue = q
        BY <3>4 DEF Client
      <3>6. client' = [client EXCEPT ![f] = g]
        BY <2>2, <3>1, <3>2, <3>3, <3>4 DEF TakesReport, Queue
      <3>7. raced' \subseteq Slots
        BY <2>2, ConsumeFacts DEF TakesReport, Structure, TypeOK
      <3>8. client[f] # Closed
        BY <3>1, ConsumeFacts DEF Structure, FdsAccounted
      <3>9. client \in [Fds -> Client]
        BY DEF Structure, TypeOK
      <3>10. client' \in [Fds -> Client] /\ client'[f] = g /\ \A x \in Fds \ {f} : client'[x] = client[x]
        BY <3>5, <3>6, <3>9
      <3> QED BY <2>2, <3>1, <3>2, <3>3, <3>5, <3>7, <3>8, <3>10
    <2> QED BY <2>1, <2>2, ConsumeFacts DEF TakesDrop, TakesReport, TakesKey, TakesNothing
  <1>2. TypeOK'
    BY <1>1, ConsumeFacts DEF Structure, TypeOK, kernel, Actions, Counts
  <1>3. \A i \in Slots : source'[i].fd = source[i].fd /\ source'[i].node = source[i].node
    BY ConsumeFacts
  <1>4. \A i \in Slots : Open(i)' <=> Open(i)
    BY <1>3 DEF Open
  <1>5. \A f \in Fds : client'[f] = Closed <=> client[f] = Closed
    <2> SUFFICES ASSUME NEW f \in Fds, client[f] # Closed PROVE client'[f] # Closed
      BY <1>1
    <2>1. client[f].node # NoNode
      BY OwnDescriptor
    <2> QED BY <1>1, <2>1 DEF Closed
  <1>6. FdsAccounted'
    BY <1>3, <1>5 DEF Structure, FdsAccounted
  <1>7. SourcesKept'
    <2>1. ASSUME NEW i \in Slots
          PROVE  /\ (source[i].state = "ABSENT" <=> ~Open(i))'
                 /\ (~Open(i))' => source'[i].held_keys = {}
                 /\ Open(i)' => /\ source'[i].node \in Nodes
                                /\ client'[source'[i].fd].node = source'[i].node
      <3>1. CASE i = at
        BY <1>1, <1>3, <1>4, <3>1, ConsumeFacts, OwnDescriptor
      <3>2. CASE i # at
        BY <1>1, <1>3, <1>4, <3>2, ConsumeFacts, OwnDescriptor DEF Structure, SourcesKept
      <3> QED BY <3>1, <3>2
    <2> QED BY <1>4, <2>1, ConsumeFacts, Places DEF SourcesKept
  <1>8. RanksKept'
    BY <1>3, <1>4, ConsumeFacts DEF Structure, RanksKept
  <1> QED BY <1>1, <1>2, <1>6, <1>7, <1>8 DEF Structure

LEMMA ShutdownStructure ==
    ASSUME Structure, Shutdown
    PROVE  /\ Structure' /\ buf = <<>> /\ buf' = <<>>
           /\ \A f \in Fds : client'[f] = Closed
           /\ \A i \in Slots : ~Open(i)'
           /\ UNCHANGED <<kernel, pressed, queued, rescans>>
  <1>1. ~pumping /\ buf = <<>> /\ at' = Off /\ at = Idle
    BY Places DEF Shutdown, Structure, SourcesKept
  <1>2. \A f \in Fds : client'[f] = Closed
    <2> SUFFICES ASSUME NEW f \in Fds, \A i \in Slots : source[i].fd # f PROVE client[f] = Closed
      BY DEF Shutdown
    <2> QED BY DEF Structure, FdsAccounted
  <1>3. Closed \in Client /\ Absent \in Source /\ Absent.fd = NoFd /\ Absent.state = "ABSENT"
        /\ Absent.held_keys = {}
    BY EmptyFacts DEF Closed, Client, Absent, Source
  <1>4. \A i \in Slots : source'[i] = Absent
    BY DEF Shutdown
  <1>5. client' \in [Fds -> Client] /\ source' \in [Slots -> Source]
    <2>1. client' = [f \in Fds |-> client'[f]] /\ source' = [i \in Slots |-> source'[i]]
      BY DEF Shutdown
    <2>2. \A f \in Fds : client'[f] \in Client
      BY <1>2, <1>3
    <2>3. \A i \in Slots : source'[i] \in Source
      BY <1>3, <1>4
    <2> QED BY <2>1, <2>2, <2>3
  <1>6. pending' = <<>> /\ raced' = {} /\ UNCHANGED <<kernel, pumping, buf, pressed, queued, rescans>>
    BY DEF Shutdown
  <1>7. TypeOK'
    BY <1>1, <1>5, <1>6, Places, InputAssumption DEF Structure, TypeOK, kernel
  <1>8. \A i \in Slots : ~Open(i)'
    BY <1>3, <1>4 DEF Open
  <1>9. FdsAccounted'
    BY <1>2, <1>3, <1>4, Places DEF FdsAccounted
  <1>10. SourcesKept' /\ RanksKept'
    BY <1>1, <1>3, <1>4, <1>6, <1>8 DEF SourcesKept, RanksKept
  <1> QED BY <1>1, <1>2, <1>6, <1>7, <1>8, <1>9, <1>10 DEF Structure

\* classify_source returns one of five ranks.
LEMMA RankTyped == ASSUME NEW n \in Nodes PROVE Rank[n] \in Nat
  <1>1. SysfsRank(Device[n]) \in Nat /\ Probed(Device[n]) \in Nat
    BY DEF SysfsRank, Probed
  <1> QED BY <1>1 DEF Rank, Classify

\* Ranks and numbers order the nodes.
LEMMA BeforeTotal ==
    ASSUME NEW m \in Nodes, NEW n \in Nodes, m # n
    PROVE  /\ Before(m, n) \/ Before(n, m)
           /\ Before(m, n) => Rank[m] >= Rank[n]
  <1>1. Number[m] # Number[n] /\ Number[m] \in Nat /\ Number[n] \in Nat
    BY InputAssumption
  <1>2. Rank[m] \in Nat /\ Rank[n] \in Nat
    BY RankTyped
  <1> QED BY <1>1, <1>2 DEF Before

\* What discovery makes of a slot.
KeptSlot(i) == source'[i] = source[i] /\ (i \in raced' <=> i \in raced)
ClaimedSlot(i) ==
    /\ source[i].fd = NoFd /\ source'[i].fd \in Fds /\ client[source'[i].fd] = Closed
    /\ source'[i].node \in Nodes /\ source'[i].state = "CONNECTED" /\ source'[i].held_keys = {}
    /\ client'[source'[i].fd] = [node |-> source'[i].node, queue |-> <<>>, gone |-> FALSE]
    /\ i \notin raced'

LEMMA OrderFacts ==
    ASSUME NEW K \in SUBSET Nodes, NEW S, S \subseteq Nat, NEW g \in InOrder(K, S)
    PROVE  /\ DOMAIN g = K /\ \A n \in K : g[n] \in S /\ Holder(g, g[n]) = n
           /\ \A m, n \in K : m # n => g[m] # g[n]
           /\ \A m, n \in K : g[m] < g[n] => Rank[m] >= Rank[n]
  <1>1. g \in [K -> S] /\ \A m, n \in K : Before(m, n) => g[m] < g[n]
    BY DEF InOrder
  <1>2. \A n \in K : g[n] \in Nat
    BY <1>1
  <1>3. ASSUME NEW m \in K, NEW n \in K, m # n PROVE g[m] # g[n]
    <2>1. Before(m, n) \/ Before(n, m)
      BY <1>3, BeforeTotal
    <2>2. g[m] < g[n] \/ g[n] < g[m]
      BY <1>1, <2>1
    <2> QED BY <1>2, <2>2
  <1>4. ASSUME NEW m \in K, NEW n \in K, g[m] < g[n] PROVE Rank[m] >= Rank[n]
    <2>1. m # n
      BY <1>2, <1>4
    <2>2. ~Before(n, m)
      BY <1>1, <1>2, <1>4
    <2> QED BY <2>1, <2>2, BeforeTotal
  <1>5. ASSUME NEW n \in K PROVE Holder(g, g[n]) = n
    BY <1>1, <1>3 DEF Holder
  <1> QED BY <1>1, <1>3, <1>4, <1>5

LEMMA DiscoverFacts ==
    ASSUME Structure, Discover
    PROVE  /\ client' \in [Fds -> Client] /\ source' \in [Slots -> Source] /\ raced' \subseteq Slots
           /\ \A i \in Slots : KeptSlot(i) \/ ClaimedSlot(i)
           /\ \A f \in Fds : \/ client'[f] = client[f]
                             \/ \E i \in Slots : ClaimedSlot(i) /\ source'[i].fd = f
           /\ \A f \in Fds : client[f] # Closed => client'[f] = client[f]
           /\ \A i, j \in Slots : ClaimedSlot(i) /\ ClaimedSlot(j) /\ i # j =>
                 source'[i].fd # source'[j].fd /\ source'[i].node # source'[j].node
           /\ \A i, j \in Slots : ClaimedSlot(i) /\ ClaimedSlot(j) /\ i < j =>
                 Rank[source'[i].node] >= Rank[source'[j].node]
  <1>1. PICK C \in CandidateSets : \E slotOf \in InOrder(Placed(C), FreeSlots),
                                      fdOf \in InOrder(Kept(C), FreeFds) :
            /\ client' = Opened(fdOf)
            /\ source' = Claimed(slotOf, fdOf)
            /\ raced' = raced \ {slotOf[n] : n \in DOMAIN slotOf}
    BY DEF Discover
  <1>2. PICK K : K = Placed(C)
    OBVIOUS
  <1>3. PICK slotOf \in InOrder(K, FreeSlots), fdOf \in InOrder(K, FreeFds) :
            /\ client' = Opened(fdOf)
            /\ source' = Claimed(slotOf, fdOf)
            /\ raced' = raced \ {slotOf[n] : n \in DOMAIN slotOf}
    BY <1>1, <1>2 DEF Kept
  <1>4. K \subseteq Nodes
    BY <1>2 DEF Placed, CandidateSets, Admitted, Structure, TypeOK
  <1>5. FreeSlots \subseteq Slots /\ FreeFds \subseteq Fds /\ Slots \subseteq Nat /\ Fds \subseteq Nat
    <2>1. Slots \subseteq Nat
      BY Places
    <2>2. Fds \subseteq Nat
      BY DEF Fds
    <2> QED BY <2>1, <2>2 DEF FreeSlots, FreeFds
  <1>6. /\ DOMAIN slotOf = K /\ \A n \in K : slotOf[n] \in FreeSlots /\ Holder(slotOf, slotOf[n]) = n
        /\ \A m, n \in K : m # n => slotOf[m] # slotOf[n]
        /\ \A m, n \in K : slotOf[m] < slotOf[n] => Rank[m] >= Rank[n]
    <2>1. FreeSlots \subseteq Nat
      BY <1>5
    <2> QED BY <1>4, <2>1, OrderFacts
  <1>7. /\ DOMAIN fdOf = K /\ \A n \in K : fdOf[n] \in FreeFds /\ Holder(fdOf, fdOf[n]) = n
        /\ \A m, n \in K : m # n => fdOf[m] # fdOf[n]
    <2>1. FreeFds \subseteq Nat
      BY <1>5
    <2> QED BY <1>4, <2>1, OrderFacts
  <1>8. ASSUME NEW i \in Slots, \A n \in K : slotOf[n] # i PROVE source'[i] = source[i] /\ KeptSlot(i)
    <2>1. source'[i] = source[i]
      BY <1>3, <1>6, <1>8 DEF Claimed
    <2>2. i \in raced' <=> i \in raced
      BY <1>3, <1>6, <1>8
    <2> QED BY <2>1, <2>2 DEF KeptSlot
  <1>9. ASSUME NEW f \in Fds, \A n \in K : fdOf[n] # f PROVE client'[f] = client[f]
    BY <1>3, <1>7, <1>9 DEF Opened
  <1>10. ASSUME NEW n \in K
         PROVE  /\ fdOf[n] \in Fds /\ slotOf[n] \in Slots
                /\ client[fdOf[n]] = Closed /\ source[slotOf[n]].fd = NoFd
                /\ source'[slotOf[n]] = [fd |-> fdOf[n], node |-> n, state |-> "CONNECTED",
                                         generation |-> 1, held_keys |-> {}]
                /\ client'[fdOf[n]] = [node |-> n, queue |-> <<>>, gone |-> FALSE]
                /\ slotOf[n] \notin raced'
    <2>1. fdOf[n] \in Fds /\ slotOf[n] \in Slots /\ client[fdOf[n]] = Closed /\ source[slotOf[n]].fd = NoFd
      BY <1>6, <1>7 DEF FreeSlots, FreeFds
    <2>2. source'[slotOf[n]] = [fd |-> fdOf[n], node |-> n, state |-> "CONNECTED",
                                generation |-> 1, held_keys |-> {}]
      BY <1>3, <1>6, <2>1 DEF Claimed
    <2>3. client'[fdOf[n]] = [Closed EXCEPT !.node = n]
      BY <1>3, <1>7, <2>1 DEF Opened
    <2>4. [Closed EXCEPT !.node = n] = [node |-> n, queue |-> <<>>, gone |-> FALSE]
      <3>1. PICK q, x : q = <<>> /\ x = FALSE
        OBVIOUS
      <3>2. PICK c : c = Closed /\ c = [node |-> NoNode, queue |-> q, gone |-> x]
        BY <3>1 DEF Closed
      <3>3. [c EXCEPT !.node = n] = [node |-> n, queue |-> q, gone |-> x]
        BY <3>2
      <3> QED BY <3>1, <3>2, <3>3
    <2>5. slotOf[n] \notin raced'
      BY <1>3, <1>6
    <2> QED BY <2>1, <2>2, <2>3, <2>4, <2>5
  <1>11. ASSUME NEW n \in K
         PROVE  /\ ClaimedSlot(slotOf[n]) /\ source'[slotOf[n]] \in Source
                /\ client'[fdOf[n]] \in Client
                /\ source'[slotOf[n]].fd = fdOf[n] /\ source'[slotOf[n]].node = n
    <2>1. PICK s : s = source'[slotOf[n]]
      OBVIOUS
    <2>2. s = [fd |-> fdOf[n], node |-> n, state |-> "CONNECTED", generation |-> 1, held_keys |-> {}]
      BY <1>10, <2>1
    <2>3. n \in Nodes
      BY <1>4
    <2>4. /\ s.fd = fdOf[n] /\ s.node = n /\ s.state = "CONNECTED" /\ s.held_keys = {}
      BY <2>2
    <2>5. s \in Source
      BY <1>10, <2>2, <2>3 DEF Source
    <2>6. client'[fdOf[n]] \in Client
      <3>1. PICK q \in Seq(Event) : q = <<>>
        BY EmptyFacts
      <3>2. client'[fdOf[n]] = [node |-> n, queue |-> q, gone |-> FALSE]
        BY <1>10, <3>1
      <3> QED BY <2>3, <3>2 DEF Client
    <2> QED BY <1>10, <2>1, <2>3, <2>4, <2>5, <2>6 DEF ClaimedSlot
  <1>12. ASSUME NEW i \in Slots, ClaimedSlot(i) PROVE \E n \in K : slotOf[n] = i
    <2>1. source'[i] # source[i]
      BY <1>12, Places DEF ClaimedSlot
    <2> QED BY <1>8, <2>1
  <1>13. client' \in [Fds -> Client]
    <2>1. client' = [f \in Fds |-> client'[f]]
      BY <1>3 DEF Opened
    <2>2. ASSUME NEW f \in Fds PROVE client'[f] \in Client
      BY <1>9, <1>11 DEF Structure, TypeOK
    <2> QED BY <2>1, <2>2
  <1>14. source' \in [Slots -> Source]
    <2>1. source' = [i \in Slots |-> source'[i]]
      BY <1>3 DEF Claimed
    <2>2. ASSUME NEW i \in Slots PROVE source'[i] \in Source
      BY <1>8, <1>11 DEF Structure, TypeOK
    <2> QED BY <2>1, <2>2
  <1>15. raced' \subseteq Slots
    BY <1>3 DEF Structure, TypeOK
  <1>16. \A i \in Slots : KeptSlot(i) \/ ClaimedSlot(i)
    BY <1>8, <1>11
  <1>17. \A f \in Fds : \/ client'[f] = client[f]
                        \/ \E i \in Slots : ClaimedSlot(i) /\ source'[i].fd = f
    <2>1. ASSUME NEW n \in K
          PROVE  \E i \in Slots : ClaimedSlot(i) /\ source'[i].fd = fdOf[n]
      <3>1. slotOf[n] \in Slots
        BY <1>10
      <3>2. ClaimedSlot(slotOf[n]) /\ source'[slotOf[n]].fd = fdOf[n]
        BY <1>11
      <3> QED BY <3>1, <3>2
    <2> QED BY <1>9, <2>1
  <1>18. \A f \in Fds : client[f] # Closed => client'[f] = client[f]
    BY <1>9, <1>10
  <1>19. ASSUME NEW i \in Slots, NEW j \in Slots, ClaimedSlot(i), ClaimedSlot(j), i # j
         PROVE  source'[i].fd # source'[j].fd /\ source'[i].node # source'[j].node
    <2>1. PICK m \in K : slotOf[m] = i
      BY <1>12, <1>19
    <2>2. PICK n \in K : slotOf[n] = j
      BY <1>12, <1>19
    <2>3. m # n
      BY <1>19, <2>1, <2>2
    <2> QED BY <1>7, <1>11, <2>1, <2>2, <2>3
  <1>20. ASSUME NEW i \in Slots, NEW j \in Slots, ClaimedSlot(i), ClaimedSlot(j), i < j
         PROVE  Rank[source'[i].node] >= Rank[source'[j].node]
    <2>1. PICK m \in K : slotOf[m] = i
      BY <1>12, <1>20
    <2>2. PICK n \in K : slotOf[n] = j
      BY <1>12, <1>20
    <2> QED BY <1>6, <1>11, <1>20, <2>1, <2>2
  <1> QED BY <1>13, <1>14, <1>15, <1>16, <1>17, <1>18, <1>19, <1>20

LEMMA DiscoverStructure ==
    ASSUME Structure, InitEx \/ Rescan
    PROVE  Structure' /\ Discover /\ buf = <<>> /\ buf' = <<>> /\ UNCHANGED <<kernel, pressed, queued>>
           /\ at' \notin Slots /\ at \notin Slots /\ (rescans' = 0 => rescans = 0)
  <1>1. /\ Discover /\ at' = Idle /\ at \notin Slots
        /\ UNCHANGED <<kernel, pending, pumping, buf, pressed, queued>>
    BY Places DEF InitEx, Rescan
  <1>2. ~pumping /\ buf = <<>>
    BY <1>1 DEF Structure, SourcesKept
  <1>3. rescans' \in 0 .. MaxRescans /\ (rescans' = 0 => rescans = 0 /\ at = Off)
    BY InputAssumption DEF InitEx, Rescan, Structure, TypeOK
  <1>4. TypeOK'
    BY <1>1, <1>3, DiscoverFacts, Places DEF Structure, TypeOK, kernel
  <1>5. \A i \in Slots : KeptSlot(i) \/ ClaimedSlot(i)
    BY <1>1, DiscoverFacts
  <1>6. \A i \in Slots : Open(i) => KeptSlot(i) /\ ~ClaimedSlot(i)
    BY <1>5 DEF ClaimedSlot, Open
  <1>7. \A i \in Slots : KeptSlot(i) => source'[i] = source[i]
    BY DEF KeptSlot
  <1>8. \A i \in Slots : ClaimedSlot(i) => Open(i)' /\ ~Open(i)
    BY Places DEF ClaimedSlot, Open
  <1>9. \A i \in Slots : Open(i)' => ClaimedSlot(i) \/ Open(i)
    BY <1>5, <1>7 DEF Open
  <1>10. FdsAccounted'
    <2>1. ASSUME NEW f \in Fds PROVE client'[f] # Closed <=> \E i \in Slots : source'[i].fd = f
      <3>1. CASE client[f] # Closed
        <4>1. PICK i \in Slots : Open(i) /\ source[i].fd = f
          BY <3>1, OwnDescriptor
        <4>2. source'[i].fd = f
          BY <1>6, <1>7, <4>1
        <4>3. client'[f] = client[f]
          BY <1>1, <3>1, DiscoverFacts
        <4> QED BY <3>1, <4>2, <4>3
      <3>2. CASE client[f] = Closed
        <4>1. ASSUME NEW i \in Slots, source'[i].fd = f PROVE client'[f] # Closed
          <5>1. ~Open(i) \/ source[i].fd # f
            BY <3>2, Places DEF Structure, FdsAccounted, Open
          <5>2. ClaimedSlot(i)
            BY <1>5, <1>7, <4>1, <5>1, Places DEF Open
          <5>3. client'[f].node \in Nodes
            BY <4>1, <5>2 DEF ClaimedSlot
          <5>4. Closed.node = NoNode
            BY DEF Closed
          <5> QED BY <5>3, <5>4, Places
        <4>2. ASSUME client'[f] # Closed PROVE \E i \in Slots : source'[i].fd = f
          BY <1>1, <3>2, <4>2, DiscoverFacts
        <4> QED BY <4>1, <4>2
      <3> QED BY <3>1, <3>2
    <2>2. ASSUME NEW i \in Slots, NEW j \in Slots, i # j, source'[i].fd = source'[j].fd, Open(i)'
          PROVE  FALSE
      <3>0. Open(j)'
        BY <2>2 DEF Open
      <3>1. CASE ClaimedSlot(i) /\ ClaimedSlot(j)
        BY <1>1, <2>2, <3>1, DiscoverFacts
      <3>2. CASE Open(i) /\ Open(j)
        <4>1. source'[i].fd = source[i].fd /\ source'[j].fd = source[j].fd
          BY <1>6, <1>7, <3>2
        <4> QED BY <2>2, <3>2, <4>1, OwnDescriptor
      <3>3. ASSUME NEW a \in Slots, NEW b \in Slots, ClaimedSlot(a), Open(b)
            PROVE  source'[a].fd # source'[b].fd
        <4>1. client[source'[a].fd] = Closed
          BY <3>3 DEF ClaimedSlot
        <4>2. source'[b].fd = source[b].fd
          BY <1>6, <1>7, <3>3
        <4>3. client[source[b].fd] # Closed
          BY <3>3, OwnDescriptor DEF Structure, FdsAccounted
        <4> QED BY <4>1, <4>2, <4>3
      <3> QED BY <1>9, <2>2, <3>0, <3>1, <3>2, <3>3
    <2> QED BY <2>1, <2>2 DEF FdsAccounted, Open
  <1>11. SourcesKept'
    <2>1. ASSUME NEW i \in Slots
          PROVE  /\ (source[i].state = "ABSENT" <=> ~Open(i))'
                 /\ (~Open(i))' => source'[i].held_keys = {}
                 /\ Open(i)' => /\ source'[i].node \in Nodes
                                /\ client'[source'[i].fd].node = source'[i].node
      <3>1. CASE ClaimedSlot(i)
        BY <1>8, <3>1 DEF ClaimedSlot
      <3>2. CASE KeptSlot(i)
        <4>1. source'[i] = source[i] /\ (Open(i)' <=> Open(i))
          BY <1>7, <3>2 DEF Open
        <4>2. Open(i) => client[source[i].fd] # Closed /\ source[i].fd \in Fds
          BY OwnDescriptor DEF Structure, FdsAccounted
        <4>3. Open(i) => client'[source[i].fd] = client[source[i].fd]
          BY <1>1, <4>2, DiscoverFacts
        <4> QED BY <4>1, <4>3 DEF Structure, SourcesKept
      <3> QED BY <1>5, <3>1, <3>2
    <2> QED BY <1>1, <1>2, <2>1, Places DEF SourcesKept
  <1>12. RanksKept'
    <2> SUFFICES ASSUME rescans' = 0, NEW i \in Slots, NEW j \in Slots, i < j, Open(i)', Open(j)'
                 PROVE  /\ source'[i].node # source'[j].node
                        /\ Rank[source'[i].node] >= Rank[source'[j].node]
      BY DEF RanksKept
    <2>1. at = Off
      BY <1>3
    <2>2. ClaimedSlot(i) /\ ClaimedSlot(j)
      BY <1>9, <2>1 DEF Structure, SourcesKept
    <2>3. i # j
      BY Places
    <2> QED BY <1>1, <2>2, <2>3, DiscoverFacts
  <1> QED BY <1>1, <1>2, <1>3, <1>4, <1>10, <1>11, <1>12, Places DEF Structure

-----------------------------------------------------------------------------
(* Packets *)

\* The packets of one source.
PacketsOf(i) ==
    Open(i) /\ ~client[source[i].fd].gone /\ Queue(i) = <<>> =>
        Closes(Buffer(i)) /\ (Buffer(i) = <<>> => source[i].state # "DESYNC")

LEMMA PacketsApart ==
    PacketsKept <=> /\ \A f \in Fds : First(client[f].queue) /\ Closes(client[f].queue)
                    /\ First(buf)
                    /\ \A i \in Slots : PacketsOf(i)
  BY DEF PacketsKept, PacketsOf

\* A slot whose source, descriptor and buffer are as they were.
SameSlot(i) ==
    /\ source'[i] = source[i]
    /\ Open(i) => /\ client'[source[i].fd].queue = client[source[i].fd].queue
                  /\ client'[source[i].fd].gone = client[source[i].fd].gone
    /\ Buffer(i)' = Buffer(i)

LEMMA PacketsSame ==
    ASSUME NEW i, PacketsOf(i), SameSlot(i)
    PROVE  PacketsOf(i)'
  <1>1. Open(i)' <=> Open(i)
    BY DEF SameSlot, Open
  <1> QED BY <1>1 DEF SameSlot, PacketsOf, Queue

LEMMA DeliverPackets ==
    ASSUME Structure, PacketsKept, NEW n \in Nodes, NEW x \in Event, x # Drop, x # Syn,
           Deliver(n, Packet(x)), UNCHANGED <<source, at, pump>>
    PROVE  PacketsKept'
  <1>0. TypeOK
    BY DEF Structure
  <1>1. ASSUME NEW f \in Fds
        PROVE  /\ First(client'[f].queue) /\ Closes(client'[f].queue)
               /\ client'[f].gone = client[f].gone
               /\ client'[f] = client[f] \/ client'[f].queue # <<>>
    <2>1. First(client[f].queue) /\ Closes(client[f].queue)
      BY DEF PacketsKept
    <2>2. client[f].queue \in Seq(Event)
      BY DEF Structure, TypeOK, Client
    <2>3. CASE f \notin OpenOn(n)
      BY <1>0, <2>1, <2>3, DeliverTypes
    <2>4. CASE f \in OpenOn(n)
      <3>1. client'[f].queue = Delivered(client[f].queue, Packet(x)) /\ client'[f].gone = client[f].gone
        BY <1>0, <2>4, DeliverTypes
      <3>2. PICK r : r = Delivered(client[f].queue, Packet(x))
        OBVIOUS
      <3>3. First(r) /\ Closes(r) /\ r # <<>>
        BY <2>1, <2>2, <3>2, DeliveredFacts DEF DeliveredOf
      <3> QED BY <3>1, <3>2, <3>3
    <2> QED BY <2>3, <2>4
  <1>2. ASSUME NEW i \in Slots PROVE PacketsOf(i)'
    <2>1. Buffer(i)' = Buffer(i) /\ (Open(i)' <=> Open(i))
      BY DEF Buffer, pump, Open
    <2>2. PacketsOf(i)
      BY DEF PacketsKept, PacketsOf
    <2>3. CASE ~Open(i)
      BY <2>1, <2>3 DEF PacketsOf
    <2>4. CASE Open(i)
      <3>1. source[i].fd \in Fds
        BY <2>4, OwnDescriptor
      <3>2. CASE client'[source[i].fd] = client[source[i].fd]
        <4>1. SameSlot(i)
          BY <2>1, <3>2 DEF SameSlot
        <4> QED BY <2>2, <4>1, PacketsSame
      <3>3. CASE client'[source[i].fd].queue # <<>>
        BY <3>3 DEF PacketsOf, Queue
      <3> QED BY <1>1, <3>1, <3>2, <3>3
    <2> QED BY <2>3, <2>4
  <1>3. First(buf')
    BY DEF PacketsKept, pump
  <1>4. \A f \in Fds : First(client'[f].queue) /\ Closes(client'[f].queue)
    BY <1>1
  <1> QED BY <1>2, <1>3, <1>4 DEF PacketsKept, PacketsOf

LEMMA UnplugPackets ==
    ASSUME Structure, PacketsKept, NEW n \in Nodes, Unplug(n)
    PROVE  PacketsKept'
  <1>0. /\ \A f \in Fds : /\ client'[f].node = client[f].node
                          /\ client[f].node = n => client'[f].gone /\ client'[f].queue = <<>>
                          /\ client[f].node # n => client'[f] = client[f]
        /\ UNCHANGED <<source, at, pump>>
    BY UnplugStructure DEF Unplug
  <1>1. \A f \in Fds : First(client'[f].queue) /\ Closes(client'[f].queue)
    BY <1>0, EmptyFacts DEF PacketsKept
  <1>2. ASSUME NEW i \in Slots PROVE PacketsOf(i)'
    <2>1. Buffer(i)' = Buffer(i) /\ (Open(i)' <=> Open(i)) /\ source'[i] = source[i]
      BY <1>0 DEF Buffer, pump, Open
    <2>2. PacketsOf(i)
      BY DEF PacketsKept, PacketsOf
    <2>3. Open(i) => source[i].fd \in Fds
      BY OwnDescriptor
    <2>4. CASE Open(i) /\ client[source[i].fd].node = n
      BY <1>0, <2>1, <2>3, <2>4 DEF PacketsOf
    <2>5. CASE ~(Open(i) /\ client[source[i].fd].node = n)
      <3>1. SameSlot(i)
        BY <1>0, <2>1, <2>3, <2>5 DEF SameSlot
      <3> QED BY <2>2, <3>1, PacketsSame
    <2> QED BY <2>4, <2>5
  <1>3. First(buf')
    BY <1>0 DEF PacketsKept, pump
  <1> QED BY <1>1, <1>2, <1>3 DEF PacketsKept, PacketsOf

\* Nothing is buffered and the descriptors and sources stay.
LEMMA IdlePackets ==
    ASSUME PacketsKept, UNCHANGED <<source, client, buf>>, UNCHANGED at \/ buf = <<>>
    PROVE  PacketsKept'
  <1>1. ASSUME NEW i \in Slots PROVE PacketsOf(i)'
    <2>1. SameSlot(i)
      BY DEF SameSlot, Buffer
    <2>2. PacketsOf(i)
      BY DEF PacketsKept, PacketsOf
    <2> QED BY <2>1, <2>2, PacketsSame
  <1> QED BY <1>1 DEF PacketsKept, PacketsOf

\* The other sources while one is read.
LEMMA OtherSlots ==
    ASSUME Structure, PumpRead \/ PumpConsume, NEW i \in Slots, i # at
    PROVE  SameSlot(i) /\ Buffer(i) = <<>> /\ (i \in raced' <=> i \in raced)
  <1>1. at \in Slots /\ Open(at)
    BY ReadFacts, ConsumeFacts
  <1>2. Buffer(i) = <<>>
    BY DEF Buffer
  <1>3. Open(i) => source[i].fd \in Fds /\ source[i].fd # source[at].fd
    BY <1>1, OwnDescriptor
  <1>4. CASE ReadsLost
    BY <1>2, <1>3, <1>4, LostFacts DEF SameSlot, Buffer
  <1>5. CASE ReadsOn
    <2>1. Lasts(Queue(at)) \in Nat
      BY <1>5, ReadFacts DEF ReadsOn
    <2>2. Buffer(i)' = <<>>
      BY <1>5, <2>1, ReadsOnFacts DEF Buffer
    <2> QED BY <1>2, <1>3, <1>5, <2>2, ReadsOnFacts DEF SameSlot
  <1>6. CASE PumpConsume
    <2>1. Buffer(i)' = <<>> /\ source'[i] = source[i]
      BY <1>6, ConsumeFacts DEF Buffer
    <2>2. Open(i) => /\ client'[source[i].fd].queue = client[source[i].fd].queue
                     /\ client'[source[i].fd].gone = client[source[i].fd].gone
      BY <1>3, <1>6, ConsumeStructure
    <2>3. i \in raced' <=> i \in raced
      <3>1. TakesDrop \/ TakesReport \/ TakesKey \/ TakesNothing
        BY <1>6, ConsumeFacts
      <3> QED BY <3>1 DEF TakesDrop, TakesReport, TakesKey, TakesNothing, Unread
    <2> QED BY <1>2, <2>1, <2>2, <2>3 DEF SameSlot
  <1> QED BY <1>4, <1>5, <1>6 DEF ReadsLost, ReadsOn

LEMMA ReadPackets ==
    ASSUME Structure, PacketsKept, PumpRead
    PROVE  PacketsKept'
  <1>0. at \in Slots /\ Open(at) /\ source[at].fd \in Fds /\ buf = <<>>
    BY ReadFacts
  <1>1. ASSUME NEW i \in Slots, i # at PROVE PacketsOf(i)'
    <2>1. PacketsOf(i)
      BY DEF PacketsKept, PacketsOf
    <2> QED BY <1>1, <2>1, OtherSlots, PacketsSame
  <1>2. CASE ReadsLost
    <2>0. PICK i : i = at
      OBVIOUS
    <2>1. PacketsOf(i)'
      BY <1>2, <2>0, LostFacts DEF PacketsOf, Open
    <2>2. \A f \in Fds : First(client'[f].queue) /\ Closes(client'[f].queue)
      BY <1>2, LostFacts, EmptyFacts DEF PacketsKept, Closed
    <2>3. First(buf')
      BY <1>2, LostFacts, EmptyFacts
    <2>4. \A j \in Slots : PacketsOf(j)'
      BY <1>1, <2>0, <2>1
    <2> QED BY <2>2, <2>3, <2>4 DEF PacketsKept, PacketsOf
  <1>3. CASE ReadsOn
    <2>1. PICK q \in Seq(Event), n \in Nat : q = Queue(at) /\ n = Lasts(q) /\ n \in 0 .. Len(q)
      BY ReadFacts
    <2>2. PICK b, r : b = SubSeq(q, 1, n) /\ r = SubSeq(q, n + 1, Len(q))
      OBVIOUS
    <2>3. /\ client'[source[at].fd].queue = r
          /\ \A f \in Fds \ {source[at].fd} : client'[f] = client[f]
          /\ buf' = b /\ (buf' = <<>> <=> n = 0) /\ (n > 0 => at' = at)
          /\ source' = source
          /\ client'[source[at].fd].gone = client[source[at].fd].gone
      BY <1>3, <2>1, <2>2, ReadsOnFacts
    <2>4. First(q) /\ Closes(q)
      BY <1>0, <2>1 DEF PacketsKept, Queue
    <2>5. First(b) /\ First(r) /\ Closes(r) /\ (r = <<>> => Closes(b))
      BY <2>1, <2>2, <2>4, SplitPackets
    <2>6. Buffer(at) = <<>>
      BY <1>0 DEF Buffer
    <2>7. n = 0 => q = <<>>
      <3>1. Len(q) \in Nat
        BY <2>1, LenProperties
      <3>2. n = 0 => Len(q) = 0
        BY <2>1, <3>1, InputAssumption DEF Lasts
      <3> QED BY <2>1, <3>2, EmptySeq
    <2>8. PICK i : i = at
      OBVIOUS
    <2>9. Buffer(i)' = b
      <3>1. CASE n > 0
        BY <2>3, <2>8, <3>1 DEF Buffer
      <3>2. CASE n = 0
        BY <2>3, <3>2 DEF Buffer
      <3> QED BY <2>1, <3>1, <3>2
    <2>10. PacketsOf(i)'
      <3>1. SUFFICES ASSUME Queue(i)' = <<>>, (~client[source[i].fd].gone)'
                     PROVE  Closes(b) /\ (b = <<>> => source[i].state # "DESYNC")
        BY <2>3, <2>9 DEF PacketsOf
      <3>2. r = <<>> /\ ~client[source[i].fd].gone
        BY <2>3, <2>8, <3>1 DEF Queue
      <3>3. b = <<>> => n = 0
        BY <2>3
      <3>4. b = <<>> => Queue(i) = <<>> /\ Buffer(i) = <<>> /\ Open(i)
        BY <1>0, <2>1, <2>6, <2>7, <2>8, <3>3
      <3> QED BY <1>0, <2>5, <2>8, <3>2, <3>4 DEF PacketsKept
    <2>11. \A j \in Slots : PacketsOf(j)'
      BY <1>1, <2>8, <2>10
    <2>12. \A f \in Fds : First(client'[f].queue) /\ Closes(client'[f].queue)
      BY <2>3, <2>5 DEF PacketsKept
    <2> QED BY <2>3, <2>5, <2>11, <2>12 DEF PacketsKept, PacketsOf
  <1> QED BY <1>2, <1>3 DEF ReadsLost, ReadsOn

LEMMA ConsumePackets ==
    ASSUME Structure, PacketsKept, PumpConsume
    PROVE  PacketsKept'
  <1>0. /\ at \in Slots /\ Open(at) /\ source[at].fd \in Fds /\ at' = at
        /\ buf \in Seq(Event) /\ buf # <<>> /\ buf' = Tail(buf)
    BY ConsumeFacts DEF Structure, TypeOK
  <1>1. ASSUME NEW i \in Slots, i # at PROVE PacketsOf(i)'
    <2>1. PacketsOf(i)
      BY DEF PacketsKept, PacketsOf
    <2> QED BY <1>1, <2>1, OtherSlots, PacketsSame
  <1>2. PICK h, t : h = Head(buf) /\ t = Tail(buf)
    OBVIOUS
  <1>3. First(t) /\ (Closes(buf) => Closes(t) /\ (t = <<>> => h = Syn))
    BY <1>0, <1>2, TailFacts DEF TailOf, PacketsKept
  <1>4. ASSUME NEW f \in Fds
        PROVE  /\ First(client'[f].queue) /\ Closes(client'[f].queue)
               /\ client'[f].queue = <<>> => client[f].queue = <<>>
    <2>1. First(client[f].queue) /\ Closes(client[f].queue) /\ client[f].queue \in Seq(Event)
      BY DEF PacketsKept, Structure, TypeOK, Client
    <2>2. PICK r : r = Flushed(client[f].queue)
      OBVIOUS
    <2>3. First(r) /\ Closes(r) /\ (r = <<>> <=> client[f].queue = <<>>)
      BY <2>1, <2>2, FlushedFacts
    <2>4. client'[f].queue = client[f].queue \/ client'[f].queue = r
      BY <2>2, ConsumeStructure
    <2> QED BY <2>1, <2>3, <2>4
  <1>5. ASSUME h = Syn PROVE source'[at].state # "DESYNC"
    <2>1. CASE TakesDrop
      BY <1>2, <1>5, <2>1, EventFacts DEF TakesDrop
    <2>2. CASE TakesReport
      BY <2>2 DEF TakesReport
    <2>3. CASE TakesKey
      BY <1>2, <1>5, <2>3 DEF TakesKey
    <2>4. CASE TakesNothing
      BY <1>2, <1>5, <2>4 DEF TakesNothing
    <2> QED BY <2>1, <2>2, <2>3, <2>4, ConsumeFacts
  <1>6. PICK i : i = at
    OBVIOUS
  <1>7. Buffer(i) = buf /\ Buffer(i)' = t
    BY <1>0, <1>2, <1>6 DEF Buffer
  <1>8. PacketsOf(i)'
    <2>1. SUFFICES ASSUME Queue(i)' = <<>>, (~client[source[i].fd].gone)'
                   PROVE  Closes(t) /\ (t = <<>> => source'[i].state # "DESYNC")
      BY <1>7 DEF PacketsOf
    <2>2. source'[i].fd = source[i].fd
      BY <1>6, ConsumeFacts
    <2>3. Queue(i) = <<>> /\ ~client[source[i].fd].gone
      BY <1>0, <1>4, <1>6, <2>1, <2>2, ConsumeStructure DEF Queue
    <2>4. Closes(buf)
      BY <1>0, <1>6, <1>7, <2>3 DEF PacketsKept
    <2> QED BY <1>3, <1>5, <1>6, <2>4
  <1>9. \A j \in Slots : PacketsOf(j)'
    BY <1>1, <1>6, <1>8
  <1> QED BY <1>0, <1>2, <1>3, <1>4, <1>9 DEF PacketsKept, PacketsOf

\* Discovery leaves the open sources alone; a new one has nothing to read.
NewSlot(i) ==
    /\ source'[i].state = "CONNECTED" /\ source'[i].held_keys = {}
    /\ client'[source'[i].fd].queue = <<>>
    /\ i \notin raced'

LEMMA DiscoverSlots ==
    ASSUME Structure, InitEx \/ Rescan, NEW i \in Slots
    PROVE  /\ Buffer(i) = <<>> /\ Buffer(i)' = <<>>
           /\ \/ SameSlot(i) /\ (i \in raced' <=> i \in raced)
              \/ NewSlot(i)
  <1>0. Discover /\ buf' = <<>> /\ buf = <<>>
    BY DiscoverStructure
  <1>1. Buffer(i) = <<>> /\ Buffer(i)' = <<>>
    BY <1>0 DEF Buffer
  <1>2. CASE KeptSlot(i)
    <2>1. Open(i) => client[source[i].fd] # Closed /\ source[i].fd \in Fds
      BY OwnDescriptor DEF Structure, FdsAccounted
    <2>2. Open(i) => client'[source[i].fd] = client[source[i].fd]
      BY <1>0, <2>1, DiscoverFacts
    <2> QED BY <1>1, <1>2, <2>2 DEF KeptSlot, SameSlot
  <1>3. CASE ClaimedSlot(i)
    <2>1. client'[source'[i].fd].queue = <<>>
      BY <1>3 DEF ClaimedSlot
    <2> QED BY <1>1, <1>3, <2>1 DEF ClaimedSlot, NewSlot
  <1> QED BY <1>0, <1>2, <1>3, DiscoverFacts

\* The queues discovery leaves are old or empty.
LEMMA DiscoverQueues ==
    ASSUME Structure, InitEx \/ Rescan, NEW f \in Fds
    PROVE  client'[f].queue = client[f].queue \/ client'[f].queue = <<>>
  <1>0. Discover
    BY DiscoverStructure
  <1>1. ASSUME NEW i \in Slots, ClaimedSlot(i), source'[i].fd = f PROVE client'[f].queue = <<>>
    BY <1>1 DEF ClaimedSlot
  <1> QED BY <1>0, <1>1, DiscoverFacts

LEMMA DiscoverPackets ==
    ASSUME Structure, PacketsKept, InitEx \/ Rescan
    PROVE  PacketsKept'
  <1>1. ASSUME NEW i \in Slots PROVE PacketsOf(i)'
    <2>1. PacketsOf(i)
      BY DEF PacketsKept, PacketsOf
    <2>2. CASE SameSlot(i)
      BY <2>1, <2>2, PacketsSame
    <2>3. CASE NewSlot(i)
      BY <2>3, DiscoverSlots, EmptyFacts DEF NewSlot, PacketsOf
    <2> QED BY <2>2, <2>3, DiscoverSlots
  <1>2. \A f \in Fds : First(client'[f].queue) /\ Closes(client'[f].queue)
    BY DiscoverQueues, EmptyFacts DEF PacketsKept
  <1>3. First(buf')
    BY DiscoverStructure, EmptyFacts
  <1> QED BY <1>1, <1>2, <1>3 DEF PacketsKept, PacketsOf

LEMMA ShutdownPackets ==
    ASSUME Structure, Shutdown
    PROVE  PacketsKept'
  <1>1. \A f \in Fds : First(client'[f].queue) /\ Closes(client'[f].queue)
    BY ShutdownStructure, EmptyFacts DEF Closed
  <1>2. First(buf')
    BY ShutdownStructure, EmptyFacts
  <1> QED BY <1>1, <1>2, ShutdownStructure DEF PacketsKept

-----------------------------------------------------------------------------
(* Keys *)

KeyKept(i, k) ==
    /\ StreamKept(Queue(i), Buffer(i), k, Fresh(i))
    /\ i \notin raced /\ k \in source[i].held_keys =>
          Settling(Queue(i), Buffer(i), k, source[i].state = "DESYNC")

KeysOf(i) ==
    Open(i) /\ ~client[source[i].fd].gone =>
        \A k \in Tracked \ down[source[i].node] : KeyKept(i, k)

LEMMA KeysApart == KeysKept <=> \A i \in Slots : KeysOf(i)
  BY DEF KeysKept, KeysOf, KeyKept

LEMMA KeysSame ==
    ASSUME NEW i, KeysOf(i), SameSlot(i), i \in raced' <=> i \in raced,
           Buffer(i) = <<>> \/ (Fresh(i)' => Fresh(i)),
           Open(i) /\ ~client[source[i].fd].gone => down[source[i].node] \subseteq down'[source[i].node]
    PROVE  KeysOf(i)'
  <1>1. Open(i)' <=> Open(i)
    BY DEF SameSlot, Open
  <1> SUFFICES ASSUME Open(i)', ~(client[source[i].fd].gone)',
                      NEW k \in Tracked \ down'[source'[i].node]
               PROVE  KeyKept(i, k)'
    BY DEF KeysOf
  <1>2. /\ Open(i) /\ ~client[source[i].fd].gone /\ k \in Tracked \ down[source[i].node]
        /\ source'[i] = source[i]
    BY <1>1 DEF SameSlot
  <1>3. KeyKept(i, k)
    BY <1>2 DEF KeysOf
  <1>4. Queue(i)' = Queue(i) /\ Buffer(i)' = Buffer(i)
    BY <1>2 DEF SameSlot, Queue
  <1>5. Ended(<<>>, k)
    BY EmptyFacts DEF Tracked
  <1>6. PICK q, b : q = Queue(i) /\ b = Buffer(i)
    OBVIOUS
  <1>7. /\ Ended(q, k)
        /\ Fresh(i) => Ended(b, k) \/ Releases(q, k) \/ Dropped(q)
        /\ i \notin raced /\ k \in source[i].held_keys =>
              Settling(q, b, k, source[i].state = "DESYNC")
    BY <1>3, <1>6 DEF KeyKept, StreamKept
  <1>8. Fresh(i)' => Ended(b, k) \/ Releases(q, k) \/ Dropped(q)
    BY <1>5, <1>6, <1>7
  <1>9. /\ i \notin raced' /\ k \in source'[i].held_keys =>
              Settling(q, b, k, source'[i].state = "DESYNC")
    BY <1>2, <1>7
  <1> QED BY <1>4, <1>6, <1>7, <1>8, <1>9 DEF KeyKept, StreamKept

LEMMA DeliverKeys ==
    ASSUME Structure, KeysKept, NEW n \in Nodes, NEW x \in Event, x # Drop, x # Syn,
           Deliver(n, Packet(x)), UNCHANGED <<source, at, pump>>,
           \A m \in Nodes \ {n} : down'[m] = down[m],
           \A k \in Tracked \ down'[n] : \/ k \notin down[n] /\ ~(IsHeld(x) /\ x.key = k)
                                         \/ IsRelease(x) /\ x.key = k
    PROVE  KeysKept'
  <1>0. TypeOK
    BY DEF Structure
  <1>1. ASSUME NEW i \in Slots PROVE KeysOf(i)'
    <2>1. /\ Buffer(i)' = Buffer(i) /\ (Open(i)' <=> Open(i)) /\ source'[i] = source[i]
          /\ (i \in raced' <=> i \in raced) /\ (Fresh(i)' <=> Fresh(i))
      BY DEF Buffer, pump, Open, Fresh
    <2>2. KeysOf(i)
      BY KeysApart
    <2>3. Open(i) => /\ source[i].fd \in Fds /\ source[i].node \in Nodes
                     /\ client[source[i].fd].node = source[i].node
      BY OwnDescriptor
    <2>4. CASE ~(Open(i) /\ source[i].fd \in OpenOn(n))
      <3>1. Open(i) => client'[source[i].fd] = client[source[i].fd]
        BY <1>0, <2>3, <2>4, DeliverTypes
      <3>2. SameSlot(i)
        BY <2>1, <3>1 DEF SameSlot
      <3>3. Open(i) /\ ~client[source[i].fd].gone => source[i].node # n
        BY <2>3, <2>4 DEF OpenOn
      <3>4. Open(i) /\ ~client[source[i].fd].gone => down[source[i].node] \subseteq down'[source[i].node]
        BY <2>3, <3>3
      <3> QED BY <2>1, <2>2, <3>2, <3>4, KeysSame
    <2>5. CASE Open(i) /\ source[i].fd \in OpenOn(n)
      <3> SUFFICES ASSUME NEW k \in Tracked \ down'[source'[i].node]
                   PROVE  KeyKept(i, k)'
        BY DEF KeysOf
      <3>1. PICK q, r, b : /\ q = client[source[i].fd].queue
                           /\ r = Delivered(q, Packet(x)) /\ b = Buffer(i)
        OBVIOUS
      <3>2. q \in Seq(Event) /\ k \in Keys
        BY <1>0, <2>3, <2>5, <3>1 DEF TypeOK, Client, Tracked
      <3>3. Queue(i) = q /\ Queue(i)' = r /\ source[i].node = n /\ ~client[source[i].fd].gone
        BY <1>0, <2>1, <2>3, <2>5, <3>1, DeliverTypes DEF Queue, OpenOn
      <3>4. DeliveredOf(q, x, r)
        BY <3>1, <3>2, DeliveredFacts
      <3>5. CASE IsRelease(x) /\ x.key = k
        <4>1. Ended(r, k) /\ Releases(r, k)
          BY <3>2, <3>4, <3>5 DEF DeliveredOf
        <4> QED BY <2>1, <3>1, <3>3, <4>1 DEF KeyKept, StreamKept, Settling
      <3>6. CASE k \notin down[n] /\ ~(IsHeld(x) /\ x.key = k)
        <4>1. KeyKept(i, k)
          BY <2>2, <2>5, <3>3, <3>6 DEF KeysOf
        <4>2. /\ Ended(q, k)
              /\ Fresh(i) => Ended(b, k) \/ Releases(q, k) \/ Dropped(q)
              /\ i \notin raced /\ k \in source[i].held_keys =>
                    Releases(b, k) \/ Releases(q, k) \/ Dropped(b) \/ Dropped(q)
                    \/ source[i].state = "DESYNC"
          BY <3>1, <3>3, <4>1 DEF KeyKept, StreamKept, Settling
        <4>3. /\ Ended(r, k)
              /\ Releases(q, k) => Releases(r, k) \/ Dropped(r)
              /\ Dropped(q) => Dropped(r)
          BY <3>2, <3>4, <3>6, <4>2 DEF DeliveredOf
        <4> QED BY <2>1, <3>1, <3>3, <4>2, <4>3 DEF KeyKept, StreamKept, Settling
      <3> QED BY <2>1, <3>3, <3>5, <3>6
    <2> QED BY <2>4, <2>5
  <1> QED BY <1>1 DEF KeysKept, KeysOf, KeyKept

LEMMA PressKeys ==
    ASSUME Structure, KeysKept, NEW n \in Nodes, NEW k \in Keys, Press(n, k)
    PROVE  KeysKept'
  <1>1. PICK p \in Numbers : p = pressed'
    BY InputAssumption DEF Press, Structure, TypeOK, Numbers
  <1>2. PICK x : x = Key(k, 1, p)
    OBVIOUS
  <1>3. x \in Event /\ x # Drop /\ x # Syn /\ IsPress(x) /\ x.key = k
    BY <1>2, KeyFacts DEF IsPress
  <1>4. Deliver(n, Packet(x)) /\ UNCHANGED <<source, at, pump>>
    BY <1>1, <1>2 DEF Press
  <1>5. down \in [Nodes -> SUBSET Keys] /\ down' = [down EXCEPT ![n] = @ \cup {k}]
    BY DEF Press, Structure, TypeOK
  <1>6. down'[n] = down[n] \cup {k} /\ \A m \in Nodes \ {n} : down'[m] = down[m]
    BY <1>5
  <1> QED BY <1>3, <1>4, <1>6, DeliverKeys

LEMMA ReleaseKeys ==
    ASSUME Structure, KeysKept, NEW n \in Nodes, NEW k \in Keys, Release(n, k)
    PROVE  KeysKept'
  <1>1. PICK x : x = Key(k, 0, 0)
    OBVIOUS
  <1>2. 0 \in Numbers
    BY InputAssumption DEF Numbers
  <1>3. x \in Event /\ x # Drop /\ x # Syn /\ IsRelease(x) /\ ~IsHeld(x) /\ x.key = k
    BY <1>1, <1>2, KeyFacts DEF IsHeld, IsRelease
  <1>4. Deliver(n, Packet(x)) /\ UNCHANGED <<source, at, pump>>
    BY <1>1 DEF Release
  <1>5. down \in [Nodes -> SUBSET Keys] /\ down' = [down EXCEPT ![n] = @ \ {k}]
    BY DEF Release, Structure, TypeOK
  <1>6. down'[n] = down[n] \ {k} /\ \A m \in Nodes \ {n} : down'[m] = down[m]
    BY <1>5
  <1> QED BY <1>3, <1>4, <1>6, DeliverKeys

LEMMA RepeatKeys ==
    ASSUME Structure, KeysKept, NEW n \in Nodes, NEW k \in Keys, Repeat(n, k)
    PROVE  KeysKept'
  <1>1. PICK x : x = Key(k, 2, 0)
    OBVIOUS
  <1>2. 0 \in Numbers
    BY InputAssumption DEF Numbers
  <1>3. x \in Event /\ x # Drop /\ x # Syn /\ x.key = k
    BY <1>1, <1>2, KeyFacts
  <1>4. Deliver(n, Packet(x)) /\ UNCHANGED <<down, source, at, pump>> /\ k \in down[n]
    BY <1>1 DEF Repeat, kernel
  <1> QED BY <1>3, <1>4, DeliverKeys

LEMMA UnplugKeys ==
    ASSUME Structure, KeysKept, NEW n \in Nodes, Unplug(n)
    PROVE  KeysKept'
  <1>0. /\ \A f \in Fds : /\ client'[f].node = client[f].node
                          /\ client[f].node = n => client'[f].gone /\ client'[f].queue = <<>>
                          /\ client[f].node # n => client'[f] = client[f]
        /\ UNCHANGED <<source, at, pump>>
    BY UnplugStructure DEF Unplug
  <1>1. \A m \in Nodes \ {n} : down'[m] = down[m]
    BY DEF Unplug, Structure, TypeOK
  <1>2. ASSUME NEW i \in Slots PROVE KeysOf(i)'
    <2>1. /\ Buffer(i)' = Buffer(i) /\ (Open(i)' <=> Open(i)) /\ source'[i] = source[i]
          /\ (i \in raced' <=> i \in raced) /\ (Fresh(i)' <=> Fresh(i))
      BY <1>0 DEF Buffer, pump, Open, Fresh
    <2>2. KeysOf(i)
      BY KeysApart
    <2>3. Open(i) => /\ source[i].fd \in Fds /\ source[i].node \in Nodes
                     /\ client[source[i].fd].node = source[i].node
      BY OwnDescriptor
    <2>4. CASE Open(i) /\ source[i].node = n
      BY <1>0, <2>1, <2>3, <2>4 DEF KeysOf
    <2>5. CASE ~(Open(i) /\ source[i].node = n)
      <3>1. SameSlot(i)
        BY <1>0, <2>1, <2>3, <2>5 DEF SameSlot
      <3>2. Open(i) => down[source[i].node] \subseteq down'[source[i].node]
        BY <1>1, <2>3, <2>5
      <3> QED BY <2>1, <2>2, <3>1, <3>2, KeysSame
    <2> QED BY <2>4, <2>5
  <1> QED BY <1>2 DEF KeysKept, KeysOf, KeyKept

LEMMA IdleKeys ==
    ASSUME KeysKept, UNCHANGED <<source, client, buf, down, raced>>, UNCHANGED at \/ buf = <<>>
    PROVE  KeysKept'
  <1>1. ASSUME NEW i \in Slots PROVE KeysOf(i)'
    <2>1. SameSlot(i) /\ (Fresh(i)' <=> Fresh(i))
      BY DEF SameSlot, Buffer, Fresh
    <2>2. KeysOf(i)
      BY KeysApart
    <2> QED BY <2>1, <2>2, KeysSame
  <1> QED BY <1>1 DEF KeysKept, KeysOf, KeyKept

LEMMA DiscoverKeys ==
    ASSUME Structure, KeysKept, InitEx \/ Rescan
    PROVE  KeysKept'
  <1>0. UNCHANGED down
    BY DiscoverStructure DEF kernel
  <1>1. ASSUME NEW i \in Slots PROVE KeysOf(i)'
    <2>1. KeysOf(i)
      BY KeysApart
    <2>2. CASE SameSlot(i) /\ (i \in raced' <=> i \in raced)
      BY <1>0, <2>1, <2>2, DiscoverSlots, KeysSame
    <2>3. CASE NewSlot(i)
      <3>1. Buffer(i)' = <<>> /\ Queue(i)' = <<>> /\ source'[i].held_keys = {}
        BY <2>3, DiscoverSlots DEF NewSlot, Queue
      <3>2. \A k \in Tracked : Ended(<<>>, k)
        BY EmptyFacts DEF Tracked
      <3> QED BY <3>1, <3>2 DEF KeysOf, KeyKept, StreamKept
    <2> QED BY <2>2, <2>3, DiscoverSlots
  <1> QED BY <1>1 DEF KeysKept, KeysOf, KeyKept

LEMMA ShutdownKeys ==
    ASSUME Structure, Shutdown
    PROVE  KeysKept'
  BY ShutdownStructure DEF KeysKept

LEMMA ReadKeys ==
    ASSUME Structure, KeysKept, PumpRead
    PROVE  KeysKept'
  <1>0. at \in Slots /\ Open(at) /\ source[at].fd \in Fds /\ buf = <<>>
    BY ReadFacts
  <1>a. UNCHANGED <<down, raced>>
    BY DEF PumpRead, kernel
  <1>1. ASSUME NEW i \in Slots, i # at PROVE KeysOf(i)'
    <2>1. KeysOf(i)
      BY KeysApart
    <2> QED BY <1>a, <1>1, <2>1, OtherSlots, KeysSame
  <1>2. PICK i \in Slots : i = at
    BY <1>0
  <1>3. CASE ReadsLost
    <2>1. KeysOf(i)'
      BY <1>2, <1>3, LostFacts DEF KeysOf, Open
    <2>2. \A j \in Slots : KeysOf(j)'
      BY <1>1, <1>2, <2>1
    <2> QED BY <2>2 DEF KeysKept, KeysOf, KeyKept
  <1>4. CASE ReadsOn
    <2>1. PICK q \in Seq(Event), n \in Nat : q = Queue(i) /\ n = Lasts(q) /\ n \in 0 .. Len(q)
      BY <1>2, ReadFacts
    <2>2. PICK b, r : b = SubSeq(q, 1, n) /\ r = SubSeq(q, n + 1, Len(q))
      OBVIOUS
    <2>3. /\ client'[source[i].fd].queue = r
          /\ buf' = b /\ (buf' = <<>> <=> n = 0) /\ (n > 0 => at' = at)
          /\ source' = source
          /\ client'[source[i].fd].gone = client[source[i].fd].gone
      BY <1>2, <1>4, <2>1, <2>2, ReadsOnFacts
    <2>4. SplitOf(q, n, b, r)
      BY <2>1, <2>2, SplitFacts
    <2>5. Buffer(i) = <<>>
      BY <1>0 DEF Buffer
    <2>6. Buffer(i)' = b
      <3>1. CASE n > 0
        BY <1>2, <2>3, <3>1 DEF Buffer
      <3>2. CASE n = 0
        BY <2>3, <3>2 DEF Buffer
      <3> QED BY <2>1, <3>1, <3>2
    <2>7. Queue(i)' = r
      BY <2>3 DEF Queue
    <2>8. KeysOf(i)'
      <3> SUFFICES ASSUME (~client[source[i].fd].gone)', NEW k \in Tracked \ down'[source'[i].node]
                   PROVE  KeyKept(i, k)'
        BY DEF KeysOf
      <3>1. KeyKept(i, k)
        BY <1>0, <1>a, <1>2, <2>3, KeysApart DEF KeysOf
      <3>2. k \in Keys
        BY DEF Tracked
      <3>3. Ended(q, k) /\ Ended(r, k) /\ (Ended(b, k) \/ Releases(r, k))
        BY <2>1, <2>4, <3>1, <3>2 DEF KeyKept, StreamKept, SplitOf
      <3>4. ASSUME i \notin raced, k \in source[i].held_keys
            PROVE  Settling(r, b, k, source[i].state = "DESYNC")
        <4>1. Releases(q, k) \/ Dropped(q) \/ source[i].state = "DESYNC"
          BY <2>1, <2>5, <3>1, <3>2, <3>4, EmptyFacts DEF KeyKept, Settling
        <4>2. (Releases(q, k) => Releases(b, k) \/ Releases(r, k)) /\ (Dropped(q) => Dropped(b) \/ Dropped(r))
          BY <2>4, <3>2 DEF SplitOf
        <4> QED BY <4>1, <4>2 DEF Settling
      <3> QED BY <1>a, <2>3, <2>6, <2>7, <3>3, <3>4 DEF KeyKept, StreamKept
    <2>9. \A j \in Slots : KeysOf(j)'
      BY <1>1, <1>2, <2>8
    <2> QED BY <2>9 DEF KeysKept, KeysOf, KeyKept
  <1> QED BY <1>3, <1>4 DEF ReadsLost, ReadsOn

LEMMA HasKeyFacts ==
    ASSUME NEW q \in Seq(Event), ~HasKey(q)
    PROVE  \A k \in Keys : Ended(q, k) /\ ~Releases(q, k)
  BY DEF HasKey, Ended, Releases, IsHeld, IsRelease

LEMMA ConsumeKeys ==
    ASSUME Structure, PacketsKept, KeysKept, PumpConsume
    PROVE  KeysKept'
  <1>0. /\ at \in Slots /\ Open(at) /\ source[at].fd \in Fds /\ at' = at /\ UNCHANGED down
        /\ buf \in Seq(Event) /\ buf # <<>> /\ buf' = Tail(buf)
    BY ConsumeFacts DEF Structure, TypeOK, kernel
  <1>1. ASSUME NEW i \in Slots, i # at PROVE KeysOf(i)'
    <2>1. KeysOf(i)
      BY KeysApart
    <2> QED BY <1>0, <1>1, <2>1, OtherSlots, KeysSame
  <1>2. PICK i \in Slots : i = at
    BY <1>0
  <1>3. PICK h, t, q : h = Head(buf) /\ t = Tail(buf) /\ q = Queue(i)
    OBVIOUS
  <1>4. q \in Seq(Event) /\ First(q) /\ First(buf)
    BY <1>0, <1>2, <1>3 DEF Queue, PacketsKept, Structure, TypeOK, Client
  <1>5. TailOf(buf, h, t)
    BY <1>0, <1>3, TailFacts
  <1>6. t \in Seq(Event) /\ ~Dropped(t)
    BY <1>4, <1>5 DEF TailOf
  <1>7. Buffer(i) = buf /\ Buffer(i)' = t /\ source'[i].fd = source[i].fd /\ source'[i].node = source[i].node
    BY <1>0, <1>2, <1>3, ConsumeFacts DEF Buffer
  <1>8. (client[source[i].fd].gone)' <=> client[source[i].fd].gone
    BY <1>0, <1>2, <1>7, ConsumeStructure
  <1>9. Fresh(i)' => i \notin raced' \/ source'[i].state = "DESYNC"
    BY <1>0, <1>3, <1>6 DEF Fresh
  <1>10. ASSUME ~client[source[i].fd].gone, NEW k \in Tracked, k \notin down[source[i].node]
         PROVE  KeyKept(i, k)'
    <2>1. KeyKept(i, k)
      BY <1>0, <1>2, <1>10, KeysApart DEF KeysOf
    <2>2. k \in Keys
      BY DEF Tracked
    <2>3. /\ Ended(q, k)
          /\ Fresh(i) => Ended(buf, k) \/ Releases(q, k) \/ Dropped(q)
          /\ i \notin raced /\ k \in source[i].held_keys =>
                Releases(buf, k) \/ Releases(q, k) \/ Dropped(buf) \/ Dropped(q)
                \/ source[i].state = "DESYNC"
      BY <1>3, <1>7, <2>1 DEF KeyKept, StreamKept, Settling
    <2>4. /\ Ended(buf, k) => Ended(t, k) /\ (IsHeld(h) /\ h.key = k => Releases(t, k))
          /\ Releases(buf, k) => (IsRelease(h) /\ h.key = k) \/ Releases(t, k)
          /\ Dropped(buf) => h = Drop
          /\ h = Drop => Dropped(buf)
      BY <1>5, <1>6, <2>2 DEF TailOf
    <2>5. ASSUME Unread PROVE Queue(i)' = q /\ (i \in raced' <=> i \in raced)
      BY <1>3, <1>7, <2>5 DEF Unread, Queue
    <2>6. CASE TakesDrop
      <3>1. Unread /\ h = Drop /\ source'[i].state = "DESYNC"
        BY <1>2, <1>3, <2>6 DEF TakesDrop
      <3>2. Fresh(i)
        BY <2>4, <3>1 DEF Fresh
      <3> QED BY <1>7, <2>3, <2>4, <2>5, <3>1, <3>2 DEF KeyKept, StreamKept, Settling
    <2>7. CASE TakesReport
      <3>1. PICK r : r = Flushed(q)
        OBVIOUS
      <3>2. Ended(r, k) /\ (Dropped(q) => Dropped(r))
        BY <1>4, <2>2, <3>1, FlushedFacts
      <3>3. /\ source[i].state = "DESYNC" /\ source'[i].state = "CONNECTED"
            /\ source'[i].held_keys = down[source[i].node] \cap Tracked
            /\ client' = [client EXCEPT ![source[i].fd].queue = r]
            /\ raced' = IF HasKey(t) /\ HasKey(q) THEN raced \cup {i} ELSE raced \ {i}
        BY <1>2, <1>3, <1>10, <2>7, <3>1 DEF TakesReport
      <3>4. Queue(i)' = r
        BY <1>0, <1>2, <1>7, <3>3 DEF Queue, Structure, TypeOK, Client
      <3>5. k \notin source'[i].held_keys
        BY <1>10, <3>3
      <3>6. Fresh(i) /\ (Fresh(i)' => ~HasKey(t) \/ ~HasKey(q))
        BY <1>9, <3>3 DEF Fresh
      <3>7. ~HasKey(t) => Ended(t, k)
        BY <1>6, <2>2, HasKeyFacts
      <3>8. ~HasKey(q) => ~Releases(q, k)
        BY <1>4, <2>2, HasKeyFacts
      <3>9. Fresh(i)' => Ended(t, k) \/ Dropped(r)
        BY <2>3, <2>4, <3>2, <3>6, <3>7, <3>8
      <3> QED BY <1>7, <3>2, <3>4, <3>5, <3>9 DEF KeyKept, StreamKept
    <2>8. CASE TakesKey
      <3>1. /\ Unread /\ h # Syn /\ h # Drop
            /\ source[i].state = "CONNECTED"
            /\ Remembers(source[i], h.key, h.value, source'[i])
        BY <1>2, <1>3, <2>8 DEF TakesKey
      <3>2. source'[i].state = "CONNECTED"
        BY <3>1 DEF Remembers
      <3>3. Fresh(i)' => i \notin raced
        BY <1>9, <2>5, <3>1, <3>2
      <3>4. i \notin raced => Ended(buf, k) \/ Releases(q, k) \/ Dropped(q)
        BY <2>3 DEF Fresh
      <3>5. h \in Event
        BY <1>5 DEF TailOf
      <3>6. IsHeld(h) <=> ~IsRelease(h)
        BY <3>1, <3>5, EventCases
      <3>8. /\ IsRelease(h) => h.value = 0
            /\ IsHeld(h) => h.value # 0
        BY DEF IsRelease, IsHeld
      <3>9. ASSUME i \notin raced, k \in source'[i].held_keys
            PROVE  Releases(t, k) \/ Releases(q, k) \/ Dropped(q)
        <4>1. CASE IsHeld(h) /\ h.key = k
          BY <2>4, <3>4, <3>9, <4>1
        <4>2. CASE ~(IsHeld(h) /\ h.key = k)
          <5>1. ~(IsRelease(h) /\ h.key = k) /\ k \in source[i].held_keys
            BY <1>10, <3>1, <3>6, <3>8, <3>9, <4>2 DEF Remembers
          <5> QED BY <2>3, <2>4, <3>1, <3>9, <5>1
        <4> QED BY <4>1, <4>2
      <3> QED BY <1>7, <2>3, <2>4, <2>5, <3>1, <3>3, <3>4, <3>9 DEF KeyKept, StreamKept, Settling
    <2>9. CASE TakesNothing
      <3>1. /\ Unread /\ source'[i] = source[i]
            /\ source[i].state = "CONNECTED" => h = Syn
        BY <1>2, <1>3, <2>9 DEF TakesNothing
      <3>2. Fresh(i)' => Fresh(i)
        BY <1>9, <2>5, <3>1 DEF Fresh
      <3>3. source[i].state \in {"CONNECTED", "DESYNC"}
        BY <1>0, <1>2 DEF Structure, TypeOK, SourcesKept, Source
      <3>4. ASSUME i \notin raced, k \in source[i].held_keys
            PROVE  Releases(t, k) \/ Releases(q, k) \/ Dropped(q) \/ source[i].state = "DESYNC"
        BY <2>3, <2>4, <3>1, <3>3, <3>4, EventFacts
      <3> QED BY <1>7, <2>3, <2>4, <2>5, <3>1, <3>2, <3>4 DEF KeyKept, StreamKept, Settling
    <2> QED BY <2>6, <2>7, <2>8, <2>9, ConsumeFacts
  <1>11. KeysOf(i)'
    BY <1>0, <1>7, <1>8, <1>10 DEF KeysOf
  <1>12. \A j \in Slots : KeysOf(j)'
    BY <1>1, <1>2, <1>11
  <1> QED BY <1>12 DEF KeysKept, KeysOf, KeyKept

-----------------------------------------------------------------------------
(* Presses *)

\* A press number is in one place at most.
Places1(p) ==
    /\ queued[p] # 0 \/ p > pressed =>
          ~Waiting(buf, p) /\ \A f \in Fds : ~Waiting(client[f].queue, p)
    /\ \A f \in Fds : Waiting(client[f].queue, p) =>
          ~Waiting(buf, p) /\ \A g \in Fds \ {f} : ~Waiting(client[g].queue, p)

\* Steps after which nothing waits that did not, and nothing is queued.
LEMMA FewerWait ==
    ASSUME PressesKept, UNCHANGED queued, rescans' = 0 => rescans = 0,
           pressed' = pressed \/ (TypeOK /\ pressed' = pressed + 1),
           \A p : Waiting(buf', p) => Waiting(buf, p),
           Once(buf) => Once(buf'),
           \A f \in Fds : /\ \A p : Waiting(client'[f].queue, p) => Waiting(client[f].queue, p)
                          /\ Once(client[f].queue) => Once(client'[f].queue)
    PROVE  PressesKept'
  <1>1. /\ \A f \in Fds : ~Waiting(client'[f].queue, 0)
        /\ ~Waiting(buf', 0)
    BY DEF PressesKept
  <1>2. ASSUME rescans' = 0
        PROVE  /\ Once(buf') /\ \A f \in Fds : Once(client'[f].queue)
               /\ queued'[0] = 0
    BY <1>2 DEF PressesKept
  <1>3. ASSUME rescans' = 0, NEW p \in Numbers
        PROVE  /\ queued'[p] <= IF p > pressed' THEN 0 ELSE 1
               /\ Places1(p)'
    <2>1. queued[p] <= (IF p > pressed THEN 0 ELSE 1) /\ Places1(p)
      BY <1>3 DEF PressesKept, Places1
    <2>2. CASE pressed' = pressed
      BY <2>1, <2>2 DEF Places1
    <2>3. CASE TypeOK /\ pressed' = pressed + 1
      <3>1. p \in Nat /\ pressed \in Nat /\ queued[p] \in Nat
        BY <2>3, InputAssumption DEF TypeOK, Numbers
      <3>2. p > pressed' => p > pressed
        BY <2>3, <3>1
      <3>3. queued'[p] <= IF p > pressed' THEN 0 ELSE 1
        BY <2>1, <3>1, <3>2
      <3> QED BY <2>1, <3>2, <3>3 DEF Places1
    <2> QED BY <2>2, <2>3
  <1> QED BY <1>1, <1>2, <1>3 DEF PressesKept, Places1

\* A packet that holds no press adds none.
LEMMA DeliverNoPress ==
    ASSUME TypeOK, NEW n \in Nodes, NEW x \in Event, x # Drop, x # Syn, ~IsPress(x),
           Deliver(n, Packet(x)), NEW f \in Fds
    PROVE  /\ \A p : Waiting(client'[f].queue, p) => Waiting(client[f].queue, p)
           /\ Once(client[f].queue) => Once(client'[f].queue)
  <1>1. CASE f \notin OpenOn(n)
    BY <1>1, DeliverTypes
  <1>2. CASE f \in OpenOn(n)
    <2>1. PICK q \in Seq(Event) : q = client[f].queue
      BY DEF TypeOK, Client
    <2>2. PICK r : r = Delivered(q, Packet(x))
      OBVIOUS
    <2>3. client'[f].queue = r
      BY <1>2, <2>1, <2>2, DeliverTypes
    <2>4. DeliveredOf(q, x, r)
      BY <2>2, DeliveredFacts
    <2> QED BY <2>1, <2>3, <2>4 DEF DeliveredOf
  <1> QED BY <1>1, <1>2

LEMMA ReleasePresses ==
    ASSUME Structure, PressesKept, NEW n \in Nodes, NEW k \in Keys, Release(n, k)
    PROVE  PressesKept'
  <1>1. PICK x : x = Key(k, 0, 0)
    OBVIOUS
  <1>2. 0 \in Numbers
    BY InputAssumption DEF Numbers
  <1>3. x \in Event /\ x # Drop /\ x # Syn /\ ~IsPress(x)
    BY <1>1, <1>2, KeyFacts DEF IsPress
  <1>4. Deliver(n, Packet(x)) /\ UNCHANGED <<buf, pressed, queued, rescans>> /\ TypeOK
    BY <1>1 DEF Release, pump, Structure
  <1>5. \A f \in Fds : /\ \A p : Waiting(client'[f].queue, p) => Waiting(client[f].queue, p)
                       /\ Once(client[f].queue) => Once(client'[f].queue)
    BY <1>3, <1>4, DeliverNoPress
  <1> QED BY <1>4, <1>5, FewerWait

\* A repeat uses up a number and reports no press.
LEMMA RepeatPresses ==
    ASSUME Structure, PressesKept, NEW n \in Nodes, NEW k \in Keys, Repeat(n, k)
    PROVE  PressesKept'
  <1>1. PICK x : x = Key(k, 2, 0)
    OBVIOUS
  <1>2. 0 \in Numbers
    BY InputAssumption DEF Numbers
  <1>3. x \in Event /\ x # Drop /\ x # Syn /\ ~IsPress(x)
    BY <1>1, <1>2, KeyFacts DEF IsPress
  <1>4. /\ Deliver(n, Packet(x)) /\ UNCHANGED <<buf, queued, rescans>> /\ TypeOK
        /\ pressed' = pressed + 1
    BY <1>1 DEF Repeat, pump, Structure
  <1>5. \A f \in Fds : /\ \A p : Waiting(client'[f].queue, p) => Waiting(client[f].queue, p)
                       /\ Once(client[f].queue) => Once(client'[f].queue)
    BY <1>3, <1>4, DeliverNoPress
  <1> QED BY <1>4, <1>5, FewerWait

LEMMA UnplugPresses ==
    ASSUME Structure, PressesKept, NEW n \in Nodes, Unplug(n)
    PROVE  PressesKept'
  <1>1. UNCHANGED <<buf, pressed, queued, rescans>>
    BY DEF Unplug, pump
  <1>2. \A f \in Fds : /\ \A p : Waiting(client'[f].queue, p) => Waiting(client[f].queue, p)
                       /\ Once(client[f].queue) => Once(client'[f].queue)
    BY UnplugStructure, EmptyFacts
  <1> QED BY <1>1, <1>2, FewerWait

LEMMA IdlePresses ==
    ASSUME PressesKept, UNCHANGED <<client, buf, pressed, queued, rescans>>
    PROVE  PressesKept'
  BY FewerWait

LEMMA DiscoverPresses ==
    ASSUME Structure, PressesKept, InitEx \/ Rescan
    PROVE  PressesKept'
  <1>1. UNCHANGED <<pressed, queued>> /\ (rescans' = 0 => rescans = 0) /\ buf' = buf
    BY DiscoverStructure
  <1>2. \A f \in Fds : /\ \A p : Waiting(client'[f].queue, p) => Waiting(client[f].queue, p)
                       /\ Once(client[f].queue) => Once(client'[f].queue)
    BY DiscoverQueues, EmptyFacts
  <1> QED BY <1>1, <1>2, FewerWait

LEMMA ShutdownPresses ==
    ASSUME Structure, PressesKept, Shutdown
    PROVE  PressesKept'
  <1>1. UNCHANGED <<buf, pressed, queued, rescans>>
    BY ShutdownStructure
  <1>2. \A f \in Fds : client'[f].queue = <<>>
    BY ShutdownStructure DEF Closed
  <1>3. \A f \in Fds : /\ \A p : Waiting(client'[f].queue, p) => Waiting(client[f].queue, p)
                       /\ Once(client[f].queue) => Once(client'[f].queue)
    BY <1>2, EmptyFacts
  <1> QED BY <1>1, <1>3, FewerWait

\* Without a rescan no two descriptors are open on one node.
LEMMA OneDescriptor ==
    ASSUME Structure, rescans = 0, NEW n \in Nodes, NEW f \in OpenOn(n), NEW g \in OpenOn(n)
    PROVE  f = g
  <1>1. f \in Fds /\ client[f].node = n /\ g \in Fds /\ client[g].node = n
    BY DEF OpenOn
  <1>2. client[f] # Closed /\ client[g] # Closed
    BY <1>1, Places DEF Closed
  <1>3. PICK i \in Slots : Open(i) /\ source[i].fd = f
    BY <1>1, <1>2, OwnDescriptor
  <1>4. PICK j \in Slots : Open(j) /\ source[j].fd = g
    BY <1>1, <1>2, OwnDescriptor
  <1>5. source[i].node = n /\ source[j].node = n
    BY <1>1, <1>3, <1>4, OwnDescriptor
  <1>6. ~(i < j) /\ ~(j < i)
    BY <1>3, <1>4, <1>5 DEF Structure, RanksKept
  <1>7. i = j
    BY <1>6, Places
  <1> QED BY <1>3, <1>4, <1>7

LEMMA PressPresses ==
    ASSUME Structure, PressesKept, NEW n \in Nodes, NEW k \in Keys, Press(n, k)
    PROVE  PressesKept'
  <1>1. PICK p \in Numbers : p = pressed' /\ p = pressed + 1 /\ p # 0 /\ pressed \in Nat
    BY InputAssumption DEF Press, Structure, TypeOK, Numbers
  <1>2. PICK x : x = Key(k, 1, p)
    OBVIOUS
  <1>3. x \in Event /\ x # Drop /\ x # Syn /\ IsPress(x) /\ x.press = p
    BY <1>2, KeyFacts DEF IsPress
  <1>4. Deliver(n, Packet(x)) /\ UNCHANGED <<buf, queued, rescans>> /\ TypeOK
    BY <1>1, <1>2 DEF Press, pump, Structure
  <1>5. ASSUME NEW f \in Fds
        PROVE  /\ \A y : Waiting(client'[f].queue, y) =>
                     Waiting(client[f].queue, y) \/ (f \in OpenOn(n) /\ y = p)
               /\ Once(client[f].queue) /\ ~Waiting(client[f].queue, p) => Once(client'[f].queue)
    <2>1. CASE f \notin OpenOn(n)
      BY <1>3, <1>4, <2>1, DeliverTypes
    <2>2. CASE f \in OpenOn(n)
      <3>1. PICK q \in Seq(Event) : q = client[f].queue
        BY <1>4 DEF TypeOK, Client
      <3>2. PICK r : r = Delivered(q, Packet(x))
        OBVIOUS
      <3>3. client'[f].queue = r
        BY <1>3, <1>4, <2>2, <3>1, <3>2, DeliverTypes
      <3>4. DeliveredOf(q, x, r)
        BY <1>3, <3>2, DeliveredFacts
      <3>5. \A y : Waiting(r, y) => Waiting(q, y) \/ y = p
        BY <1>3, <3>4 DEF DeliveredOf
      <3>6. Once(q) /\ ~Waiting(q, p) => Once(r)
        BY <1>3, <3>4 DEF DeliveredOf
      <3> QED BY <2>2, <3>1, <3>3, <3>5, <3>6
    <2> QED BY <2>1, <2>2
  <1>6. /\ \A f \in Fds : ~Waiting(client'[f].queue, 0)
        /\ ~Waiting(buf', 0)
    BY <1>1, <1>4, <1>5 DEF PressesKept
  <1>7. ASSUME rescans' = 0
        PROVE  /\ Once(buf') /\ \A f \in Fds : Once(client'[f].queue)
               /\ queued'[0] = 0
               /\ \A y \in Numbers : queued'[y] <= (IF y > pressed' THEN 0 ELSE 1) /\ Places1(y)'
    <2>1. rescans = 0
      BY <1>4, <1>7
    <2>2. p > pressed
      BY <1>1
    <2>3. ~Waiting(buf, p) /\ \A f \in Fds : ~Waiting(client[f].queue, p)
      BY <2>1, <2>2 DEF PressesKept
    <2>4. queued[p] = 0
      <3>1. queued[p] <= 0
        BY <2>1, <2>2 DEF PressesKept
      <3>2. queued[p] \in Nat
        BY <1>4 DEF TypeOK
      <3> QED BY <3>1, <3>2
    <2>5. Once(buf') /\ \A f \in Fds : Once(client'[f].queue)
      BY <1>4, <1>5, <2>1, <2>3 DEF PressesKept
    <2>6. queued'[0] = 0
      BY <1>4, <2>1 DEF PressesKept
    <2>7. ASSUME NEW y \in Numbers, y # p
          PROVE  queued'[y] <= (IF y > pressed' THEN 0 ELSE 1) /\ Places1(y)'
      <3>1. queued[y] <= (IF y > pressed THEN 0 ELSE 1) /\ Places1(y)
        BY <2>1 DEF PressesKept, Places1
      <3>2. y > pressed' <=> y > pressed
        BY <1>1, <2>7 DEF Numbers
      <3>3. \A f \in Fds : Waiting(client'[f].queue, y) => Waiting(client[f].queue, y)
        BY <1>5, <2>7
      <3> QED BY <1>4, <3>1, <3>2, <3>3 DEF Places1
    <2>8. queued'[p] <= (IF p > pressed' THEN 0 ELSE 1)
      BY <1>1, <1>4, <2>4
    <2>9. Places1(p)'
      <3>1. ~(queued'[p] # 0 \/ p > pressed')
        BY <1>1, <1>4, <2>4
      <3>2. \A f \in Fds : Waiting(client'[f].queue, p) => f \in OpenOn(n)
        BY <1>5, <2>3
      <3>3. \A f, g \in Fds : f \in OpenOn(n) /\ g \in OpenOn(n) => f = g
        BY <2>1, OneDescriptor
      <3> QED BY <1>4, <2>3, <3>1, <3>2, <3>3 DEF Places1
    <2> QED BY <2>5, <2>6, <2>7, <2>8, <2>9
  <1> QED BY <1>6, <1>7 DEF PressesKept, Places1

LEMMA ReadPresses ==
    ASSUME Structure, PressesKept, PumpRead
    PROVE  PressesKept'
  <1>0. at \in Slots /\ Open(at) /\ source[at].fd \in Fds /\ buf = <<>>
    BY ReadFacts
  <1>1. UNCHANGED <<pressed, queued, rescans>>
    BY DEF PumpRead
  <1>2. CASE ReadsLost
    <2>1. buf' = buf
      BY <1>0, <1>2, LostFacts
    <2>2. \A f \in Fds : client'[f].queue = client[f].queue \/ client'[f].queue = <<>>
      BY <1>2, LostFacts DEF Closed
    <2>3. \A f \in Fds : /\ \A p : Waiting(client'[f].queue, p) => Waiting(client[f].queue, p)
                         /\ Once(client[f].queue) => Once(client'[f].queue)
      BY <2>2, EmptyFacts
    <2> QED BY <1>1, <2>1, <2>3, FewerWait
  <1>3. CASE ReadsOn
    <2>1. PICK q \in Seq(Event), n \in Nat : q = Queue(at) /\ n = Lasts(q) /\ n \in 0 .. Len(q)
      BY ReadFacts
    <2>2. PICK b, r, a : b = SubSeq(q, 1, n) /\ r = SubSeq(q, n + 1, Len(q)) /\ a = source[at].fd
      OBVIOUS
    <2>3. /\ client'[a].queue = r /\ client[a].queue = q /\ a \in Fds
          /\ \A f \in Fds \ {a} : client'[f] = client[f]
          /\ buf' = b
      BY <1>0, <1>3, <2>1, <2>2, ReadsOnFacts DEF Queue
    <2>4. SplitOf(q, n, b, r)
      BY <2>1, <2>2, SplitFacts
    <2>5. \A p : Waiting(b, p) \/ Waiting(r, p) => Waiting(q, p)
      BY <2>4 DEF SplitOf
    <2>6. /\ \A f \in Fds : ~Waiting(client'[f].queue, 0)
          /\ ~Waiting(buf', 0)
      BY <2>3, <2>5 DEF PressesKept
    <2>7. ASSUME rescans' = 0
          PROVE  /\ Once(buf') /\ \A f \in Fds : Once(client'[f].queue)
                 /\ queued'[0] = 0
                 /\ \A p \in Numbers : queued'[p] <= (IF p > pressed' THEN 0 ELSE 1) /\ Places1(p)'
      <3>1. rescans = 0
        BY <1>1, <2>7
      <3>2. Once(q)
        BY <2>3, <3>1 DEF PressesKept
      <3>3. Once(b) /\ Once(r) /\ \A p : ~(Waiting(b, p) /\ Waiting(r, p))
        BY <2>4, <3>2 DEF SplitOf
      <3>4. Once(buf') /\ \A f \in Fds : Once(client'[f].queue)
        BY <2>3, <3>1, <3>3 DEF PressesKept
      <3>5. queued'[0] = 0
        BY <1>1, <3>1 DEF PressesKept
      <3>6. ASSUME NEW p \in Numbers
            PROVE  queued'[p] <= (IF p > pressed' THEN 0 ELSE 1) /\ Places1(p)'
        <4>1. queued[p] <= (IF p > pressed THEN 0 ELSE 1) /\ Places1(p)
          BY <3>1 DEF PressesKept, Places1
        <4>2. \A f \in Fds : Waiting(client'[f].queue, p) => Waiting(client[f].queue, p)
          BY <2>3, <2>5
        <4>3. Waiting(buf', p) => Waiting(client[a].queue, p)
          BY <2>3, <2>5
        <4>4. queued[p] # 0 \/ p > pressed =>
                 ~Waiting(buf', p) /\ \A f \in Fds : ~Waiting(client'[f].queue, p)
          BY <2>3, <4>1, <4>2, <4>3 DEF Places1
        <4>5. ASSUME NEW f \in Fds, Waiting(client'[f].queue, p)
              PROVE  ~Waiting(buf', p) /\ \A g \in Fds \ {f} : ~Waiting(client'[g].queue, p)
          <5>1. Waiting(client[f].queue, p) /\ \A g \in Fds \ {f} : ~Waiting(client[g].queue, p)
            BY <4>1, <4>2, <4>5 DEF Places1
          <5>2. \A g \in Fds \ {f} : ~Waiting(client'[g].queue, p)
            BY <4>2, <5>1
          <5>3. CASE f = a
            BY <2>3, <3>3, <4>5, <5>2, <5>3
          <5>4. CASE f # a
            BY <2>3, <4>3, <5>1, <5>2, <5>4
          <5> QED BY <5>3, <5>4
        <4> QED BY <1>1, <4>1, <4>4, <4>5 DEF Places1
      <3> QED BY <3>4, <3>5, <3>6
    <2> QED BY <2>6, <2>7 DEF PressesKept, Places1
  <1> QED BY <1>2, <1>3 DEF ReadsLost, ReadsOn

LEMMA ConsumePresses ==
    ASSUME Structure, PacketsKept, PressesKept, PumpConsume
    PROVE  PressesKept'
  <1>0. /\ buf \in Seq(Event) /\ buf # <<>> /\ buf' = Tail(buf)
        /\ UNCHANGED <<pressed, rescans>> /\ queued' \in [Numbers -> Nat]
    BY ConsumeFacts DEF Structure, TypeOK, Counts
  <1>1. PICK h, t : h = Head(buf) /\ t = Tail(buf)
    OBVIOUS
  <1>2. TailOf(buf, h, t)
    BY <1>0, <1>1, TailFacts
  <1>3. (\A p : Waiting(buf', p) => Waiting(buf, p)) /\ (Once(buf) => Once(buf'))
    BY <1>0, <1>1, <1>2 DEF TailOf
  <1>4. ASSUME NEW f \in Fds
        PROVE  /\ \A p : Waiting(client'[f].queue, p) => Waiting(client[f].queue, p)
               /\ Once(client[f].queue) => Once(client'[f].queue)
    <2>1. PICK q \in Seq(Event) : q = client[f].queue /\ First(q)
      BY DEF PacketsKept, Structure, TypeOK, Client
    <2>2. PICK r : r = Flushed(q)
      OBVIOUS
    <2>3. Once(r) /\ \A p : ~Waiting(r, p)
      BY <2>1, <2>2, FlushedFacts
    <2>4. client'[f].queue = q \/ client'[f].queue = r
      BY <2>1, <2>2, ConsumeStructure
    <2> QED BY <2>1, <2>3, <2>4
  <1>5. CASE queued' = queued
    BY <1>0, <1>3, <1>4, <1>5, FewerWait
  <1>6. CASE queued' # queued
    <2>1. TakesKey
      BY <1>6, ConsumeFacts DEF TakesDrop, TakesReport, TakesNothing
    <2>2. /\ h # Syn /\ h # Drop /\ IsPress(h)
          /\ \A y \in Numbers \ {h.press} : queued'[y] = queued[y]
          /\ queued'[h.press] \in {queued[h.press], queued[h.press] + 1}
      BY <1>1, <1>6, <2>1 DEF TakesKey
    <2>3. h \in Event
      BY <1>2 DEF TailOf
    <2>4. IsPress(h) /\ h.press \in Numbers
      BY <2>2, <2>3, EventCases
    <2>5. PICK x \in Numbers : x = h.press
      BY <2>4
    <2>6. Waiting(buf, x) /\ (Once(buf) => ~Waiting(t, x))
      BY <1>2, <2>4, <2>5 DEF TailOf
    <2>7. x # 0
      BY <2>6 DEF PressesKept
    <2>8. /\ \A f \in Fds : ~Waiting(client'[f].queue, 0)
          /\ ~Waiting(buf', 0)
      BY <1>3, <1>4 DEF PressesKept
    <2>9. ASSUME rescans' = 0
          PROVE  /\ Once(buf') /\ \A f \in Fds : Once(client'[f].queue)
                 /\ queued'[0] = 0
                 /\ \A p \in Numbers : queued'[p] <= (IF p > pressed' THEN 0 ELSE 1) /\ Places1(p)'
      <3>1. rescans = 0
        BY <1>0, <2>9
      <3>2. Once(buf') /\ \A f \in Fds : Once(client'[f].queue)
        BY <1>3, <1>4, <3>1 DEF PressesKept
      <3>3. 0 \in Numbers
        BY InputAssumption DEF Numbers
      <3>4. queued'[0] = 0
        BY <2>2, <2>5, <2>7, <3>1, <3>3 DEF PressesKept
      <3>5. ASSUME NEW p \in Numbers
            PROVE  queued[p] <= (IF p > pressed THEN 0 ELSE 1) /\ Places1(p)
        BY <3>1 DEF PressesKept, Places1
      <3>6. ASSUME NEW p \in Numbers, p # x
            PROVE  queued'[p] <= (IF p > pressed' THEN 0 ELSE 1) /\ Places1(p)'
        <4>1. queued'[p] = queued[p]
          BY <2>2, <2>5, <3>6
        <4> QED BY <1>0, <1>3, <1>4, <3>5, <4>1 DEF Places1
      <3>7. ~(queued[x] # 0 \/ x > pressed)
        BY <2>6, <3>5 DEF Places1
      <3>8. queued'[x] <= (IF x > pressed' THEN 0 ELSE 1)
        BY <1>0, <2>2, <2>5, <3>7
      <3>9. ~Waiting(buf', x) /\ \A f \in Fds : ~Waiting(client'[f].queue, x)
        <4>1. ~Waiting(buf', x)
          BY <1>0, <1>1, <2>6, <3>1 DEF PressesKept
        <4>2. \A f \in Fds : ~Waiting(client[f].queue, x)
          BY <2>6, <3>5 DEF Places1
        <4> QED BY <1>4, <4>1, <4>2
      <3>10. Places1(x)'
        BY <3>9 DEF Places1
      <3> QED BY <3>2, <3>4, <3>6, <3>8, <3>10
    <2> QED BY <2>8, <2>9 DEF PressesKept, Places1
  <1> QED BY <1>5, <1>6

-----------------------------------------------------------------------------
(* The invariant *)

\* What a step keeps; the rest of InputInv follows from it.
Engine == Structure /\ PacketsKept /\ KeysKept /\ PressesKept

LEMMA InitEngine == Init => Engine
  <1> SUFFICES ASSUME Init PROVE Engine
    OBVIOUS
  <1>1. /\ Closed \in Client /\ Closed.queue = <<>> /\ Closed.node = NoNode
        /\ Absent \in Source /\ Absent.fd = NoFd /\ Absent.state = "ABSENT"
        /\ Absent.held_keys = {}
    BY EmptyFacts DEF Closed, Client, Absent, Source
  <1>2. /\ \A f \in Fds : client[f] = Closed
        /\ \A i \in Slots : source[i] = Absent
        /\ buf = <<>> /\ ~pumping /\ rescans = 0 /\ pressed = 0
        /\ \A p \in Numbers : queued[p] = 0
    BY DEF Init
  <1>3. TypeOK
    <2>1. client \in [Fds -> Client] /\ source \in [Slots -> Source]
      BY <1>1 DEF Init
    <2>2. down \in [Nodes -> SUBSET Keys] /\ queued \in [Numbers -> Nat]
      BY DEF Init
    <2>3. pressed \in Numbers /\ rescans \in 0 .. MaxRescans
      BY <1>2, InputAssumption DEF Numbers
    <2>4. pending \in Seq(Actions) /\ Len(pending) <= PendingCap
      BY InputAssumption DEF Init
    <2>5. plugged \subseteq Nodes /\ at \in 0 .. Off /\ pumping \in BOOLEAN
          /\ buf \in Seq(Event) /\ raced \subseteq Slots
      BY Places, EmptyFacts DEF Init
    <2> QED BY <2>1, <2>2, <2>3, <2>4, <2>5 DEF TypeOK
  <1>4. \A i \in Slots : ~Open(i)
    BY <1>1, <1>2 DEF Open
  <1>5. FdsAccounted
    BY <1>1, <1>2, Places DEF FdsAccounted
  <1>6. SourcesKept /\ RanksKept /\ KeysKept
    BY <1>1, <1>2, <1>4 DEF SourcesKept, RanksKept, KeysKept
  <1>7. PacketsKept
    BY <1>1, <1>2, <1>4, EmptyFacts DEF PacketsKept
  <1>8. PressesKept
    <2>1. \A f \in Fds : client[f].queue = <<>>
      BY <1>1, <1>2
    <2>2. 0 \in Numbers
      BY InputAssumption DEF Numbers
    <2>3. \A p \in Numbers : queued[p] <= IF p > pressed THEN 0 ELSE 1
      BY <1>2
    <2> QED BY <1>2, <2>1, <2>2, <2>3, EmptyFacts DEF PressesKept
  <1> QED BY <1>3, <1>5, <1>6, <1>7, <1>8 DEF Engine, Structure

LEMMA KernelEngine == Engine /\ Kernel => Engine'
  <1> SUFFICES ASSUME Engine, NEW n \in Nodes,
                      (\E k \in Keys : Press(n, k) \/ Repeat(n, k) \/ Release(n, k)) \/ Unplug(n) \/ Plug(n)
               PROVE  Engine'
    BY DEF Kernel
  <1>0. Structure /\ PacketsKept /\ KeysKept /\ PressesKept
    BY DEF Engine
  <1>1. ASSUME NEW k \in Keys, Press(n, k) PROVE Engine'
    <2>1. PICK p \in Numbers : p = pressed'
      BY <1>0, <1>1, InputAssumption DEF Press, Structure, TypeOK, Numbers
    <2>2. PICK x : x = Key(k, 1, p)
      OBVIOUS
    <2>3. x \in Event /\ x # Drop /\ x # Syn
      BY <2>2, KeyFacts
    <2>4. Deliver(n, Packet(x)) /\ UNCHANGED <<source, at, pump>>
      BY <1>1, <2>1, <2>2 DEF Press
    <2>5. PacketsKept'
      BY <1>0, <2>3, <2>4, DeliverPackets
    <2> QED BY <1>0, <1>1, <2>5, PressStructure, PressKeys, PressPresses DEF Engine
  <1>2. ASSUME NEW k \in Keys, Release(n, k) PROVE Engine'
    <2>1. PICK x : x = Key(k, 0, 0)
      OBVIOUS
    <2>2. x \in Event /\ x # Drop /\ x # Syn
      <3>1. 0 \in Numbers
        BY InputAssumption DEF Numbers
      <3> QED BY <2>1, <3>1, KeyFacts
    <2>3. Deliver(n, Packet(x)) /\ UNCHANGED <<source, at, pump>>
      BY <1>2, <2>1 DEF Release
    <2>4. PacketsKept'
      BY <1>0, <2>2, <2>3, DeliverPackets
    <2> QED BY <1>0, <1>2, <2>4, ReleaseStructure, ReleaseKeys, ReleasePresses DEF Engine
  <1>5. ASSUME NEW k \in Keys, Repeat(n, k) PROVE Engine'
    <2>1. PICK x : x = Key(k, 2, 0)
      OBVIOUS
    <2>2. x \in Event /\ x # Drop /\ x # Syn
      <3>1. 0 \in Numbers
        BY InputAssumption DEF Numbers
      <3> QED BY <2>1, <3>1, KeyFacts
    <2>3. Deliver(n, Packet(x)) /\ UNCHANGED <<source, at, pump>>
      BY <1>5, <2>1 DEF Repeat
    <2>4. PacketsKept'
      BY <1>0, <2>2, <2>3, DeliverPackets
    <2> QED BY <1>0, <1>5, <2>4, RepeatStructure, RepeatKeys, RepeatPresses DEF Engine
  <1>3. CASE Unplug(n)
    BY <1>0, <1>3, UnplugStructure, UnplugPackets, UnplugKeys, UnplugPresses DEF Engine
  <1>4. CASE Plug(n)
    <2>1. UNCHANGED <<down, client, source, at, buf, raced, pressed, queued, rescans>>
      BY <1>4 DEF Plug, pump
    <2> QED BY <1>0, <1>4, <2>1, PlugStructure, IdlePackets, IdleKeys, IdlePresses DEF Engine
  <1> QED BY <1>1, <1>2, <1>3, <1>4, <1>5

LEMMA PollEngine == Engine /\ Poll => Engine'
  <1> SUFFICES ASSUME Engine, Poll PROVE Engine'
    OBVIOUS
  <1>0. Structure /\ PacketsKept /\ KeysKept /\ PressesKept
    BY DEF Engine
  <1>1. CASE PollQuiet
    <2>1. buf = <<>> /\ UNCHANGED <<down, client, source, buf, raced, pressed, queued, rescans>>
      BY <1>0, <1>1, QuietFacts DEF kernel
    <2> QED BY <1>0, <1>1, <2>1, QuietStructure, IdlePackets, IdleKeys, IdlePresses DEF Engine
  <1>2. CASE PumpRead
    BY <1>0, <1>2, ReadStructure, ReadPackets, ReadKeys, ReadPresses DEF Engine
  <1>3. CASE PumpConsume
    BY <1>0, <1>3, ConsumeStructure, ConsumePackets, ConsumeKeys, ConsumePresses DEF Engine
  <1> QED BY <1>1, <1>2, <1>3 DEF Poll, PollQuiet

LEMMA StepEngine == Engine /\ [Next]_vars => Engine'
  <1> SUFFICES ASSUME Engine, [Next]_vars PROVE Engine'
    OBVIOUS
  <1>0. Structure /\ PacketsKept /\ KeysKept /\ PressesKept
    BY DEF Engine
  <1>1. CASE Kernel
    BY <1>1, KernelEngine
  <1>2. CASE InitEx \/ Rescan
    BY <1>0, <1>2, DiscoverStructure, DiscoverPackets, DiscoverKeys, DiscoverPresses DEF Engine
  <1>3. CASE Poll
    BY <1>3, PollEngine
  <1>4. CASE Shutdown
    BY <1>0, <1>4, ShutdownStructure, ShutdownPackets, ShutdownKeys, ShutdownPresses DEF Engine
  <1>5. CASE UNCHANGED vars
    <2>1. TypeOK' /\ UNCHANGED <<down, client, source, at, pumping, buf, raced, pressed, queued, rescans>>
      BY <1>0, <1>5 DEF vars, pump, kernel, Structure, TypeOK
    <2>2. Structure'
      BY <1>0, <2>1, SameSources DEF Structure, SourcesKept
    <2> QED BY <1>0, <2>1, <2>2, IdlePackets, IdleKeys, IdlePresses DEF Engine
  <1> QED BY <1>1, <1>2, <1>3, <1>4, <1>5 DEF Next

LEMMA EngineAlways == Spec => []Engine
  BY InitEngine, StepEngine, PTL DEF Spec

-----------------------------------------------------------------------------
(* What follows *)

\* The sources that have the axis have a first.
LEMMA FirstOwner ==
    ASSUME NEW O, O \subseteq Nat, O # {}
    PROVE  \E i \in O : \A j \in O : i <= j
  <1>1. PICK i \in O : \A j \in O : ~(<<j, i>> \in OpToRel(<, Nat))
    BY NatLessThanWellFounded, WFMin
  <1>2. ASSUME NEW j \in O PROVE i <= j
    <2>1. j \in Nat /\ i \in Nat
      OBVIOUS
    <2>2. j < i => <<j, i>> \in OpToRel(<, Nat)
      BY <2>1 DEF OpToRel
    <2>3. ~(j < i)
      BY <1>1, <2>2, Zenon
    <2> QED BY <2>1, <2>3
  <1> QED BY <1>2

LEMMA FrameFacts == Structure => FrameIsLive /\ AxisFromBest
  <1> SUFFICES ASSUME Structure PROVE FrameIsLive /\ AxisFromBest
    OBVIOUS
  <1>1. /\ Frame.connected_mask = Present
        /\ Frame.held_keys = UNION {source[i].held_keys : i \in Present}
        /\ Frame.axis_owner = IF Owners = {} THEN 0
                              ELSE CHOOSE i \in Owners : \A j \in Owners : i <= j
    BY DEF Frame
  <1>2. \A i \in Slots : i \in Present <=> Open(i)
    BY DEF Present, Structure, SourcesKept
  <1>3. \A i \in Slots : ~Open(i) => source[i].held_keys = {}
    BY DEF Structure, SourcesKept
  <1>4. FrameIsLive
    <2>1. Present = {i \in Slots : source[i].fd # NoFd}
      BY <1>2 DEF Present, Open
    <2>2. ASSUME NEW i \in Slots PROVE source[i].held_keys \subseteq Frame.held_keys
      <3>1. CASE Open(i)
        BY <1>1, <1>2, <3>1
      <3>2. CASE ~Open(i)
        BY <1>3, <3>2
      <3> QED BY <3>1, <3>2
    <2> QED BY <1>1, <2>1, <2>2 DEF FrameIsLive
  <1>5. AxisFromBest
    <2> SUFFICES ASSUME rescans = 0, Frame.axis_owner # 0, NEW j \in Owners
                 PROVE  Rank[source[Frame.axis_owner].node] >= Rank[source[j].node]
      BY DEF AxisFromBest
    <2>1. Owners \subseteq Slots /\ Owners \subseteq Nat /\ Owners # {}
      BY Places DEF Owners, Present
    <2>2. \E i \in Owners : \A k \in Owners : i <= k
      BY <2>1, FirstOwner
    <2>3. PICK a : a = Frame.axis_owner
      OBVIOUS
    <2>4. a = CHOOSE i \in Owners : \A k \in Owners : i <= k
      BY <1>1, <2>1, <2>3
    <2>5. a \in Owners /\ a <= j
      BY <2>2, <2>4
    <2>6. Open(a) /\ Open(j) /\ a \in Slots /\ j \in Slots /\ a \in Nat /\ j \in Nat
      BY <1>2, <2>1, <2>5 DEF Owners
    <2>7. CASE a < j
      BY <2>3, <2>6, <2>7 DEF Structure, RanksKept
    <2>8. CASE a = j
      <3>1. Rank[source[j].node] \in Nat
        BY <2>6, OwnDescriptor, RankTyped
      <3> QED BY <2>3, <2>8, <3>1
    <2> QED BY <2>5, <2>6, <2>7, <2>8
  <1> QED BY <1>4, <1>5

LEMMA KeysSettled == Engine => NoStuckKey
  <1> SUFFICES ASSUME Engine, NEW i \in Slots \ raced
               PROVE  IF source[i].fd = NoFd THEN source[i].held_keys = {}
                      ELSE LET c == client[source[i].fd]
                           IN  c.queue = <<>> /\ ~c.gone /\ (at = i => buf = <<>>) =>
                                   source[i].held_keys \subseteq down[source[i].node]
    BY DEF NoStuckKey
  <1>0. Structure /\ PacketsKept /\ KeysKept
    BY DEF Engine
  <1>1. CASE source[i].fd = NoFd
    BY <1>0, <1>1 DEF Structure, SourcesKept, Open
  <1>2. CASE source[i].fd # NoFd
    <2> SUFFICES ASSUME client[source[i].fd].queue = <<>>, ~client[source[i].fd].gone,
                        at = i => buf = <<>>, NEW k \in source[i].held_keys
                 PROVE  k \in down[source[i].node]
      BY <1>2
    <2>1. Open(i) /\ Queue(i) = <<>> /\ Buffer(i) = <<>>
      BY <1>2 DEF Open, Queue, Buffer
    <2>2. source[i].state # "DESYNC"
      BY <1>0, <2>1 DEF PacketsKept
    <2>3. k \in Tracked /\ k \in Keys
      BY <1>0 DEF Structure, TypeOK, Source, Tracked
    <2>4. ~Settling(<<>>, <<>>, k, source[i].state = "DESYNC")
      BY <2>2, <2>3, EmptyFacts DEF Settling
    <2>5. ASSUME k \notin down[source[i].node] PROVE FALSE
      BY <1>0, <2>1, <2>3, <2>4, <2>5 DEF KeysKept
    <2> QED BY <2>5
  <1> QED BY <1>1, <1>2

LEMMA ActionsCounted == Engine => OnePressOneAction
  <1> SUFFICES ASSUME Engine, rescans = 0
               PROVE  queued[0] = 0 /\ \A p \in Numbers : queued[p] <= 1
    BY DEF OnePressOneAction
  <1>1. PressesKept /\ queued \in [Numbers -> Nat]
    BY DEF Engine, Structure, TypeOK
  <1>2. queued[0] = 0 /\ \A p \in Numbers : queued[p] <= IF p > pressed THEN 0 ELSE 1
    BY <1>1 DEF PressesKept
  <1> QED BY <1>1, <1>2

\* The engine keeps its invariant: every descriptor discovery opened belongs to
\* one source and is closed with it, a frame shows live sources only and takes an
\* axis from the best ranked, and every stream holds what the properties below
\* need, for any devices and any interleaving of the kernel with a poll.
THEOREM InputCorrect == Spec => []InputInv
  <1>1. Engine => InputInv
    BY FrameFacts DEF Engine, Structure, InputInv
  <1> QED BY <1>1, EngineAlways, PTL

\* No key sticks (NoStuckKey): whatever SYN_DROPPED swallowed, however the reads
\* cut the packets and whatever was plugged in between, a source that has been
\* read to the end reports no key the device does not have down, unless its last
\* resync had keys both before and behind it.
THEOREM KeysNeverStick == Spec => []NoStuckKey
  BY KeysSettled, EngineAlways, PTL

\* A press acts once (OnePressOneAction): it queues an action at most once,
\* however it is split over reads, dropped or flushed, and nothing but a press
\* queues one, for the devices found at init.
THEOREM PressActsOnce == Spec => []OnePressOneAction
  BY ActionsCounted, EngineAlways, PTL

-----------------------------------------------------------------------------
(* The scale of an axis *)

\* C's division of what is not negative.
LEMMA DivFacts ==
    ASSUME NEW a \in Nat, NEW n \in Nat \ {0}
    PROVE  /\ a \div n \in Nat
           /\ n * (a \div n) <= a
           /\ a < n * (a \div n) + n
  BY SMT

LEMMA DivOrder ==
    ASSUME NEW a \in Nat, NEW b \in Nat, a <= b, NEW n \in Nat \ {0}
    PROVE  a \div n <= b \div n
  <1> DEFINE p == a \div n
             q == b \div n
  <1>1. p \in Nat /\ n * p <= a
    BY DivFacts
  <1>2. q \in Nat /\ b < n * q + n
    BY DivFacts
  <1> HIDE DEF p, q
  <1>3. ASSUME q < p PROVE FALSE
    <2>1. q + 1 <= p
      BY <1>1, <1>2, <1>3
    <2>2. n * (q + 1) <= n * p
      BY <1>1, <1>2, <2>1
    <2>3. n * (q + 1) = n * q + n
      BY <1>2
    <2> QED BY <1>1, <1>2, <2>2, <2>3
  <1>4. p <= q
    BY <1>1, <1>2, <1>3
  <1> QED BY <1>4 DEF p, q

\* A part of n in percent, as both sides of the deadzone scale it.
Percentage(x, n) == (x * 100) \div n

LEMMA WholeThrow ==
    ASSUME NEW n \in Nat \ {0}
    PROVE  Percentage(n, n) = 100
  <1> DEFINE q == (n * 100) \div n
  <1>1. q \in Nat /\ n * q <= n * 100 /\ n * 100 < n * q + n
    BY DivFacts
  <1> HIDE DEF q
  <1>2. ASSUME q < 100 PROVE FALSE
    <2>1. n * (q + 1) <= n * 100
      BY <1>1, <1>2
    <2>2. n * (q + 1) = n * q + n
      BY <1>1
    <2> QED BY <1>1, <2>1, <2>2
  <1>3. ASSUME q > 100 PROVE FALSE
    <2>1. n * 101 <= n * q
      BY <1>1, <1>3
    <2> QED BY <1>1, <2>1
  <1>4. q = 100
    BY <1>1, <1>2, <1>3
  <1> QED BY <1>4 DEF q, Percentage

LEMMA PercentageFacts ==
    ASSUME NEW n \in Nat \ {0}, NEW x \in 0 .. n, NEW y \in 0 .. n, x <= y
    PROVE  /\ Percentage(x, n) \in 0 .. 100 /\ Percentage(y, n) \in 0 .. 100
           /\ Percentage(x, n) <= Percentage(y, n)
  <1>1. x * 100 \in Nat /\ y * 100 \in Nat /\ n * 100 \in Nat /\ x * 100 <= y * 100 /\ y * 100 <= n * 100
    OBVIOUS
  <1>2. Percentage(x, n) \in Nat /\ Percentage(y, n) \in Nat
    BY <1>1, DivFacts DEF Percentage
  <1>3. Percentage(x, n) <= Percentage(y, n) /\ Percentage(y, n) <= Percentage(n, n)
    BY <1>1, DivOrder DEF Percentage
  <1> QED BY <1>2, <1>3, WholeThrow

\* The half deadzone is at most a quarter of the span.
LEMMA HalfFacts ==
    ASSUME NEW s \in Nat, NEW d \in 0 .. 50
    PROVE  /\ (s * d) \div 200 \in Nat /\ 4 * ((s * d) \div 200) <= s
           /\ s \div 2 \in Nat /\ 2 * (s \div 2) <= s /\ s < 2 * (s \div 2) + 2
  <1>1. s * d \in Nat /\ s * d <= s * 50
    OBVIOUS
  <1>2. PICK p \in Nat : p = s * d
    BY <1>1
  <1>3. p \div 200 \in Nat /\ 200 * (p \div 200) <= p
    BY DivFacts
  <1>4. 4 * (p \div 200) <= s
    BY <1>1, <1>2, <1>3
  <1> QED BY <1>2, <1>3, <1>4, DivFacts

\* The span of a range, or what an overflow makes of it.
LEMMA WrapFacts ==
    ASSUME NEW v \in 1 .. 2 * Limit - 1
    PROVE  Wrap(v) = IF v <= IntMax THEN v ELSE v - 2 * Limit
  <1>0. Limit \in Nat \ {0}
    BY AxisAssumption
  <1>1. PICK n \in Nat \ {0}, x \in Nat : n = 2 * Limit /\ x = v + Limit
    BY <1>0
  <1>2. Wrap(v) = (x % n) - Limit
    BY <1>0, <1>1 DEF Wrap, IntMin
  <1>3. x = n * (x \div n) + (x % n) /\ x % n \in 0 .. n - 1 /\ x \div n \in Nat
    BY SMT
  <1>4. PICK q \in Nat, m \in 0 .. n - 1 : q = x \div n /\ m = x % n /\ x = n * q + m
    BY <1>3
  <1>5. x < n + n
    BY <1>0, <1>1
  <1>6. q = 0 \/ q = 1
    <2>1. ASSUME q >= 2 PROVE FALSE
      <3>1. n * q >= n * 2
        BY <2>1
      <3> QED BY <1>4, <1>5, <3>1
    <2> QED BY <2>1
  <1>7. CASE q = 0
    BY <1>0, <1>1, <1>2, <1>4, <1>7 DEF IntMax
  <1>8. CASE q = 1
    BY <1>0, <1>1, <1>2, <1>4, <1>8 DEF IntMax
  <1> QED BY <1>6, <1>7, <1>8

Ranges == [min : Ints, max : Ints, deadzone_pct : Deadzones]

\* Where the deadzone lies: inside the range, or, if the span overflowed, below it.
LEMMA BandFacts ==
    ASSUME NEW r \in Ranges, Accepted(r)
    PROVE  /\ r.min \in Int /\ r.max \in Int /\ Low(r) \in Int /\ High(r) \in Int
           /\ r.min < r.max /\ High(r) < r.max
           /\ (r.min <= Low(r) /\ Low(r) <= High(r)) \/ (High(r) <= Low(r) /\ Low(r) <= r.min)
           /\ r.max - r.min \in 2 .. IntMax => r.min < Low(r) /\ Low(r) <= High(r)
  <1>0. Limit \in Nat \ {0}
    BY AxisAssumption
  <1>1. PICK a \in Int, b \in Int, d \in 0 .. 50 : a = r.min /\ b = r.max /\ d = r.deadzone_pct
    BY <1>0 DEF Ranges, Accepted, Ints, IntMin, IntMax
  <1>2. a < b /\ b - a \in 1 .. 2 * Limit - 1
    BY <1>0, <1>1 DEF Ranges, Accepted, Ints, IntMin, IntMax
  <1>3. PICK v \in 1 .. 2 * Limit - 1 : v = b - a
    BY <1>2
  <1>4. Span(r) = IF v <= IntMax THEN v ELSE v - 2 * Limit
    BY <1>1, <1>3, WrapFacts DEF Span
  <1>5. CASE v <= IntMax
    <2>1. PICK s \in Nat : s = v
      OBVIOUS
    <2>2. PICK h, m : h = (s * d) \div 200 /\ m = s \div 2
      OBVIOUS
    <2>3. h \in Nat /\ 4 * h <= s /\ m \in Nat /\ 2 * m <= s /\ s < 2 * m + 2
      BY <2>2, HalfFacts
    <2>4. Half(r) = h /\ Quotient(Span(r), 2) = m
      BY <1>1, <1>4, <1>5, <2>1, <2>2 DEF Half, Quotient
    <2>5. Low(r) = a + m - h /\ High(r) = a + m + h
      BY <1>1, <2>3, <2>4 DEF Low, High
    <2> QED BY <1>1, <1>2, <1>3, <2>1, <2>3, <2>5
  <1>6. CASE v > IntMax
    <2>0. v \in Int /\ 2 * Limit - v \in Nat \ {0}
      BY <1>0
    <2>1. PICK s \in Nat \ {0} : s = 2 * Limit - v
      BY <2>0
    <2>2. PICK h, m : h = (s * d) \div 200 /\ m = s \div 2
      OBVIOUS
    <2>3. h \in Nat /\ 4 * h <= s /\ m \in Nat /\ 2 * m <= s /\ s < 2 * m + 2
      BY <2>2, HalfFacts
    <2>4. Span(r) = -s
      BY <1>0, <1>4, <1>6, <2>1 DEF IntMax
    <2>5. Quotient(Span(r), 2) = -m
      BY <2>2, <2>4 DEF Quotient
    <2>6. Half(r) = -h
      <3>1. PICK p : p = s * d
        OBVIOUS
      <3>2. p \in Nat /\ Span(r) * r.deadzone_pct = -p
        BY <1>1, <2>4, <3>1
      <3>3. Half(r) = Quotient(-p, 200)
        BY <3>2 DEF Half
      <3>4. Quotient(-p, 200) = -(p \div 200)
        BY <3>2 DEF Quotient
      <3> QED BY <2>2, <3>1, <3>3, <3>4
    <2>7. Low(r) = a - m + h /\ High(r) = a - m - h
      BY <1>1, <2>3, <2>5, <2>6 DEF Low, High
    <2>8. ~(v \in 2 .. IntMax)
      BY <1>0, <1>6 DEF IntMax
    <2> QED BY <1>1, <1>2, <1>3, <2>3, <2>7, <2>8
  <1> QED BY <1>0, <1>5, <1>6 DEF IntMax

\* Between the ends of a range the result is the percentage of its side.
Scaled(c, r) ==
    IF c \in Low(r) .. High(r) THEN 0
    ELSE IF c < Low(r) THEN Negative(c, r) ELSE Positive(c, r)

LEMMA ScaledFacts ==
    ASSUME NEW r \in Ranges, Accepted(r), NEW c \in r.min .. r.max, NEW e \in r.min .. r.max, c <= e
    PROVE  /\ Scaled(c, r) \in -100 .. 100 /\ Scaled(e, r) \in -100 .. 100
           /\ Scaled(c, r) <= Scaled(e, r)
           /\ c < Low(r) /\ c = r.min => Scaled(c, r) = -100
           /\ Low(r) <= High(r) /\ e = r.max => Scaled(e, r) = 100
  <1>1. PICK a \in Int, b \in Int, l \in Int, h \in Int :
            a = r.min /\ b = r.max /\ l = Low(r) /\ h = High(r)
    BY BandFacts
  <1>2. a < b /\ h < b /\ ((a <= l /\ l <= h) \/ (h <= l /\ l <= a))
    BY <1>1, BandFacts
  <1>3. c \in Int /\ e \in Int /\ a <= c /\ c <= e /\ e <= b
    BY <1>1
  <1>4. ASSUME NEW x \in Int, a <= x, x < l
        PROVE  l - a \in Nat \ {0} /\ l - x \in 0 .. l - a /\ Negative(x, r) = -Percentage(l - x, l - a)
    <2>1. l - a \in Nat \ {0} /\ l - x \in 0 .. l - a
      BY <1>4
    <2>2. (x - l) * 100 = -((l - x) * 100) /\ (x - l) * 100 < 0 /\ (l - x) * 100 \in Nat
      BY <1>4
    <2>3. Negative(x, r) = Quotient((x - l) * 100, l - a)
      BY <1>1 DEF Negative
    <2>4. PICK p \in Int, n \in Int : p = (x - l) * 100 /\ n = l - a /\ p < 0 /\ -p = (l - x) * 100
      BY <2>2
    <2>5. Quotient(p, n) = -((-p) \div n)
      BY <2>4 DEF Quotient
    <2> QED BY <2>1, <2>3, <2>4, <2>5 DEF Percentage
  <1>5. ASSUME NEW x \in Int, h < x, x <= b
        PROVE  b - h \in Nat \ {0} /\ x - h \in 0 .. b - h /\ Positive(x, r) = Percentage(x - h, b - h)
    <2>1. b - h \in Nat \ {0} /\ x - h \in 0 .. b - h
      BY <1>5
    <2>2. (x - h) * 100 >= 0
      BY <1>5
    <2>3. Positive(x, r) = Quotient((x - h) * 100, b - h)
      BY <1>1 DEF Positive
    <2>4. PICK p, n : p = (x - h) * 100 /\ n = b - h /\ p >= 0
      BY <2>2
    <2>5. Quotient(p, n) = p \div n
      BY <2>4 DEF Quotient
    <2> QED BY <2>1, <2>3, <2>4, <2>5 DEF Percentage
  <1>6. ASSUME NEW x \in Int, a <= x, x <= b
        PROVE  \/ x < l /\ Scaled(x, r) = -Percentage(l - x, l - a)
               \/ l <= x /\ x <= h /\ Scaled(x, r) = 0
               \/ h < x /\ l <= x /\ Scaled(x, r) = Percentage(x - h, b - h)
    <2>1. CASE x < l
      BY <1>1, <1>4, <1>6, <2>1 DEF Scaled
    <2>2. CASE l <= x /\ x <= h
      BY <1>1, <2>2 DEF Scaled
    <2>3. CASE l <= x /\ h < x
      BY <1>1, <1>5, <1>6, <2>3 DEF Scaled
    <2> QED BY <2>1, <2>2, <2>3
  <1>7. ASSUME NEW x \in Int, a <= x, x < l, NEW y \in Int, x <= y, y < l
        PROVE  /\ Percentage(l - x, l - a) \in 0 .. 100 /\ Percentage(l - y, l - a) \in 0 .. 100
               /\ Percentage(l - y, l - a) <= Percentage(l - x, l - a)
    <2>1. l - y <= l - x /\ l - y \in 0 .. l - a /\ l - x \in 0 .. l - a /\ l - a \in Nat \ {0}
      BY <1>7
    <2> QED BY <2>1, PercentageFacts
  <1>8. ASSUME NEW x \in Int, h < x, NEW y \in Int, x <= y, y <= b
        PROVE  /\ Percentage(x - h, b - h) \in 0 .. 100 /\ Percentage(y - h, b - h) \in 0 .. 100
               /\ Percentage(x - h, b - h) <= Percentage(y - h, b - h)
    <2>1. x - h <= y - h /\ y - h \in 0 .. b - h /\ x - h \in 0 .. b - h /\ b - h \in Nat \ {0}
      BY <1>8
    <2> QED BY <2>1, PercentageFacts
  <1>9. PICK P, Q, S, T : /\ P = Percentage(l - c, l - a) /\ Q = Percentage(l - e, l - a)
                          /\ S = Percentage(c - h, b - h) /\ T = Percentage(e - h, b - h)
    OBVIOUS
  <1>10. /\ c < l => P \in 0 .. 100
         /\ e < l => Q \in 0 .. 100 /\ Q <= P
         /\ h < c => S \in 0 .. 100 /\ S <= T
         /\ h < e => T \in 0 .. 100
    <2>1. c < l => P \in 0 .. 100
      BY <1>3, <1>7, <1>9
    <2>2. e < l => Q \in 0 .. 100 /\ Q <= P
      BY <1>3, <1>7, <1>9
    <2>3. h < c => S \in 0 .. 100 /\ S <= T
      BY <1>3, <1>8, <1>9
    <2>4. h < e => T \in 0 .. 100
      BY <1>3, <1>8, <1>9
    <2> QED BY <2>1, <2>2, <2>3, <2>4
  <1>11. /\ \/ c < l /\ Scaled(c, r) = -P
            \/ l <= c /\ c <= h /\ Scaled(c, r) = 0
            \/ h < c /\ l <= c /\ Scaled(c, r) = S
         /\ \/ e < l /\ Scaled(e, r) = -Q
            \/ l <= e /\ e <= h /\ Scaled(e, r) = 0
            \/ h < e /\ l <= e /\ Scaled(e, r) = T
    BY <1>3, <1>6, <1>9
  <1>12. /\ Scaled(c, r) \in -100 .. 100 /\ Scaled(e, r) \in -100 .. 100
         /\ Scaled(c, r) <= Scaled(e, r)
    BY <1>3, <1>10, <1>11
  <1>13. ASSUME c < l, c = a PROVE Scaled(c, r) = -100
    <2>1. l - a \in Nat \ {0}
      BY <1>3, <1>13
    <2>2. P = 100
      BY <1>9, <1>13, <2>1, WholeThrow
    <2> QED BY <1>11, <1>13, <2>2, <1>3, <1>2
  <1>14. ASSUME l <= h, e = b PROVE Scaled(e, r) = 100
    <2>1. b - h \in Nat \ {0}
      BY <1>2
    <2>2. T = 100
      BY <1>9, <1>14, <2>1, WholeThrow
    <2> QED BY <1>2, <1>11, <1>14, <2>2
  <1> QED BY <1>1, <1>12, <1>13, <1>14

AxisTyped == range \in Ranges /\ raw \in Ints

LEMMA ClampFacts ==
    ASSUME NEW r \in Ranges, Accepted(r), NEW v \in Ints
    PROVE  /\ Clamp(v, r) \in r.min .. r.max /\ Normalize(v, r) = Scaled(Clamp(v, r), r)
           /\ v <= r.min => Clamp(v, r) = r.min
           /\ v >= r.max => Clamp(v, r) = r.max
           /\ \A w \in Ints : v <= w => Clamp(v, r) <= Clamp(w, r)
  <1>0. Ints \subseteq Int
    BY AxisAssumption DEF Ints, IntMin, IntMax
  <1>1. PICK a \in Int, b \in Int : a = r.min /\ b = r.max /\ a < b
    BY BandFacts
  <1>2. \A w \in Ints : Clamp(w, r) = IF w < a THEN a ELSE IF w > b THEN b ELSE w
    BY <1>1 DEF Clamp
  <1>3. Normalize(v, r) = Scaled(Clamp(v, r), r)
    BY DEF Normalize, Scaled
  <1> QED BY <1>0, <1>1, <1>2, <1>3

LEMMA AxisAlways == AxisSpec => []AxisTyped
  <1>1. AxisInit => AxisTyped
    BY AxisAssumption DEF AxisInit, AxisTyped, Ranges, Ints, IntMin, IntMax
  <1>2. AxisTyped /\ [Push]_axisVars => AxisTyped'
    BY AxisAssumption DEF AxisTyped, Push, axisVars, Ints, IntMin, IntMax
  <1> QED BY <1>1, <1>2, PTL DEF AxisSpec

\* Every axis is well scaled (WellScaled), for every width of the integers, every
\* calibration and deadzone: a percentage or the sentinel, an overflowing span
\* included, and the full throw on a range with a middle.
THEOREM AxesWellScaled == AxisSpec => []WellScaled
  <1>1. AxisTyped => WellScaled
    <2> SUFFICES ASSUME AxisTyped PROVE WellScaled
      OBVIOUS
    <2>1. range \in Ranges /\ raw \in Ints
      BY DEF AxisTyped
    <2>2. CASE ~Accepted(range)
      BY <2>2 DEF WellScaled, Percent, FullThrowWide, Normalize
    <2>3. CASE Accepted(range)
      <3>1. PICK c \in range.min .. range.max : c = Clamp(raw, range)
        BY <2>1, <2>3, ClampFacts
      <3>2. c <= c
        BY <2>1, <2>3, BandFacts
      <3>3. Normalize(raw, range) = Scaled(c, range)
        BY <2>1, <2>3, <3>1, ClampFacts
      <3>4. /\ Scaled(c, range) \in -100 .. 100
            /\ c < Low(range) /\ c = range.min => Scaled(c, range) = -100
            /\ Low(range) <= High(range) /\ c = range.max => Scaled(c, range) = 100
        BY <2>1, <2>3, <3>2, ScaledFacts
      <3>5. /\ raw <= range.min => c = range.min
            /\ raw >= range.max => c = range.max
        BY <2>1, <2>3, <3>1, ClampFacts
      <3>6. range.max - range.min \in 2 .. IntMax => range.min < Low(range) /\ Low(range) <= High(range)
        BY <2>1, <2>3, BandFacts
      <3> QED BY <2>3, <3>3, <3>4, <3>5, <3>6 DEF WellScaled, Percent, FullThrowWide
    <2> QED BY <2>2, <2>3
  <1> QED BY <1>1, AxisAlways, PTL

\* The result follows the stick (Monotone), for every width, calibration and
\* deadzone, across both rims of the deadzone and with an overflowing span.
THEOREM AxesFollow == AxisSpec => Monotone
  <1>1. AxisTyped /\ [Push]_axisVars =>
           [Accepted(range) => Normalize(raw, range) <= Normalize(raw', range)]_axisVars
    <2> SUFFICES ASSUME AxisTyped, Push, Accepted(range)
                 PROVE  Normalize(raw, range) <= Normalize(raw', range)
      BY DEF axisVars
    <2>1. range \in Ranges /\ raw \in Ints /\ raw' \in Ints /\ raw <= raw'
      BY AxisAssumption DEF AxisTyped, Push, Ints, IntMin, IntMax
    <2>2. PICK c \in range.min .. range.max, e \in range.min .. range.max :
              c = Clamp(raw, range) /\ e = Clamp(raw', range)
      BY <2>1, ClampFacts
    <2>3. c <= e
      BY <2>1, <2>2, ClampFacts
    <2>4. Scaled(c, range) <= Scaled(e, range)
      BY <2>1, <2>3, ScaledFacts
    <2> QED BY <2>1, <2>2, <2>4, ClampFacts
  <1> QED BY <1>1, AxisAlways, PTL DEF AxisSpec, Monotone
=============================================================================
