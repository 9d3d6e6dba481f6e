-------------------------- MODULE QuicStreamProofs --------------------------
(***************************************************************************)
(* What TLAPS proves of QuicStream for all constants: the types; that no   *)
(* byte is forgotten, and none held twice by the sender; that what is      *)
(* under way stays within the credit; that the sender always has a timer   *)
(* to wake it; and that the receiving application is handed the stream in  *)
(* order (ByteStream).                                                     *)
(***************************************************************************)
EXTENDS QuicStream, FiniteSetTheorems, SequenceTheorems, WellFoundedInduction, TLAPS

------------------------------------------------------------------------------
(* Numbers and sets.                                                       *)

\* A set of naturals has a least element.
LEMMA LeastNatural ==
  ASSUME NEW S, S \subseteq Nat, S # {}
  PROVE  \E m \in S : \A k \in S : m <= k
<1>1. PICK m \in S : \A k \in S : ~(<<k, m>> \in OpToRel(<, Nat))
  BY WFMin, NatLessThanWellFounded
<1>2. \A k \in S : ~(k < m)
  BY <1>1 DEF OpToRel
<1> QED BY <1>2

\* Min is the least element of a set of naturals.
LEMMA MinNatural ==
  ASSUME NEW S, S \subseteq Nat, S # {}
  PROVE  Min(S) \in S /\ \A k \in S : Min(S) <= k
<1>1. PICK m \in S : \A k \in S : m <= k
  BY LeastNatural
<1> QED BY <1>1 DEF Min

\* Max is the greatest element of a set of naturals that has a bound.
LEMMA MaxNatural ==
  ASSUME NEW n \in Nat, NEW S, S \subseteq 0 .. n, S # {}
  PROVE  Max(S) \in S /\ \A k \in S : Max(S) >= k
<1> DEFINE T == {i \in Nat : n - i \in S}
<1>1. PICK s \in S : TRUE
  OBVIOUS
<1>2. s \in 0 .. n /\ n - s \in T
  BY <1>1
<1>3. PICK m \in T : \A k \in T : m <= k
  BY <1>2, LeastNatural
<1>4. \A k \in S : n - m >= k
  <2> TAKE k \in S
  <2>1. k \in 0 .. n /\ n - k \in T
    OBVIOUS
  <2> QED BY <1>3, <2>1
<1>5. n - m \in S
  BY <1>3
<1> QED BY <1>4, <1>5 DEF Max

------------------------------------------------------------------------------
(* Frames.                                                                 *)

\* The frames that carry some of the first w bytes.
Fr(w) == {f \in Frames : f.from < f.to /\ f.to <= w}
Pk(w) == [pn : Nat, frames : SUBSET Fr(w)]

LEMMA FrFields ==
  ASSUME NEW w \in 0 .. Total, NEW f \in Fr(w)
  PROVE  /\ f \in Frames /\ f.from \in Nat /\ f.to \in Nat /\ f.retx \in BOOLEAN
         /\ f.from < f.to /\ f.to <= w
         /\ f = [from |-> f.from, to |-> f.to, retx |-> f.retx]
BY QuicStreamAssumption DEF Fr, Frames

LEMMA MakeFr ==
  ASSUME NEW w \in 0 .. Total, NEW a \in Nat, NEW b \in Nat, NEW r \in BOOLEAN,
         a < b, b <= w
  PROVE  [from |-> a, to |-> b, retx |-> r] \in Fr(w)
BY QuicStreamAssumption DEF Fr, Frames

\* More bytes written do no harm to a frame.
LEMMA FrGrows ==
  ASSUME NEW w \in 0 .. Total, NEW v \in 0 .. Total, w <= v
  PROVE  Fr(w) \subseteq Fr(v) /\ Pk(w) \subseteq Pk(v)
<1>1. Fr(w) \subseteq Fr(v)
  <2> SUFFICES ASSUME NEW f \in Fr(w) PROVE f \in Fr(v)
    OBVIOUS
  <2>1. f \in Frames /\ f.to \in 0 .. Total /\ f.from < f.to /\ f.to <= w
    BY QuicStreamAssumption DEF Fr, Frames
  <2> QED BY <2>1, QuicStreamAssumption DEF Fr
<1> QED BY <1>1 DEF Pk

LEMMA BytesInRange ==
  ASSUME NEW w \in 0 .. Total, NEW F, F \subseteq Fr(w)
  PROVE  BytesOf(F) \subseteq 0 .. (w - 1)
<1> SUFFICES ASSUME NEW b \in BytesOf(F) PROVE b \in 0 .. (w - 1)
  OBVIOUS
<1>1. PICK f \in F : b \in f.from .. (f.to - 1)
  BY DEF BytesOf, Bytes
<1>2. f.from \in Nat /\ f.to \in Nat /\ f.to <= w /\ w \in Nat
  BY FrFields, QuicStreamAssumption
<1> QED BY <1>1, <1>2

LEMMA BytesOfUnion ==
  ASSUME NEW F, NEW G
  PROVE  BytesOf(F \union G) = BytesOf(F) \union BytesOf(G)
BY DEF BytesOf

LEMMA BytesOfMonotone ==
  ASSUME NEW F, NEW G, F \subseteq G
  PROVE  BytesOf(F) \subseteq BytesOf(G)
BY DEF BytesOf

\* There are finitely many frames, so a size is a number.
LEMMA FramesFinite == IsFiniteSet(Frames)
<1> DEFINE R == 0 .. Total
           T == R \X (R \X BOOLEAN)
           code == [f \in Frames |-> <<f.from, <<f.to, f.retx>>>>]
<1>1. IsFiniteSet(R)
  BY FS_Interval, QuicStreamAssumption
<1>2. IsFiniteSet(BOOLEAN)
  BY FS_AddElement, FS_EmptySet, BOOLEAN = ({} \cup {TRUE}) \cup {FALSE}
<1>3. IsFiniteSet(T)
  <2>1. IsFiniteSet(R \X BOOLEAN)
    BY <1>1, <1>2, FS_Product
  <2> QED BY <1>1, <2>1, FS_Product
<1>4. code \in Injection(Frames, T)
  <2>1. code \in [Frames -> T]
    BY DEF Frames
  <2>2. ASSUME NEW f \in Frames, NEW g \in Frames, code[f] = code[g] PROVE f = g
    <3>1. f.from = g.from /\ f.to = g.to /\ f.retx = g.retx
      BY <2>2
    <3>2. /\ f = [from |-> f.from, to |-> f.to, retx |-> f.retx]
          /\ g = [from |-> g.from, to |-> g.to, retx |-> g.retx]
      BY DEF Frames
    <3> QED BY <3>1, <3>2
  <2> HIDE DEF code, T
  <2> QED BY <2>1, <2>2 DEF Injection, IsInjective
<1> QED BY <1>3, <1>4, FS_Injection

LEMMA SetsFinite ==
  ASSUME NEW w \in 0 .. Total, NEW F, F \subseteq Fr(w)
  PROVE  /\ IsFiniteSet(F) /\ Cardinality(F) \in Nat
         /\ IsFiniteSet(BytesOf(F)) /\ Cardinality(BytesOf(F)) \in Nat
<1>1. IsFiniteSet(F)
  BY FramesFinite, FS_Subset DEF Fr
<1>2. IsFiniteSet(BytesOf(F))
  <2>1. IsFiniteSet(0 .. (w - 1))
    BY FS_Interval, QuicStreamAssumption
  <2>2. BytesOf(F) \in SUBSET (0 .. (w - 1))
    BY BytesInRange
  <2> QED BY <2>1, <2>2, FS_Subset
<1> QED BY <1>1, <1>2, FS_CardinalityType

LEMMA SizeNatural ==
  ASSUME NEW w \in 0 .. Total, NEW F, F \subseteq Fr(w)
  PROVE  Size(F) \in Nat
BY SetsFinite DEF Size

\* The queue of frames has a first one.
LEMMA FirstFrame ==
  ASSUME NEW w \in 0 .. Total, NEW F, F \subseteq Fr(w), F # {}
  PROVE  First(F) \in F
<1>1. \E f \in F : \A g \in F : ~Before(g, f)
  <2> DEFINE G == {f \in F : f.retx}
             H == IF G # {} THEN G ELSE F
             starts == {f.from : f \in H}
  <2>1. H \subseteq F /\ H # {}
    OBVIOUS
  <2>2. \A f \in F : f.from \in Nat /\ f.retx \in BOOLEAN
    BY FrFields
  <2>3. starts \subseteq Nat /\ starts # {}
    BY <2>1, <2>2
  <2>4. PICK m \in starts : \A k \in starts : m <= k
    BY <2>3, LeastNatural
  <2>5. PICK f \in H : m = f.from
    BY <2>4
  <2>6. \A g \in H : f.from <= g.from
    BY <2>4, <2>5
  <2>7. \A g \in F : ~Before(g, f)
    <3> SUFFICES ASSUME NEW g \in F, Before(g, f) PROVE FALSE
      OBVIOUS
    <3>1. g \in H
      BY <2>1, <2>2, <2>5 DEF Before
    <3>2. f.from <= g.from /\ f.from \in Nat /\ g.from \in Nat
      BY <2>1, <2>2, <2>5, <2>6, <3>1
    <3>3. f.retx = g.retx
      BY <2>1, <2>2, <2>5, <3>1 DEF Before
    <3> QED BY <3>2, <3>3 DEF Before
  <2> QED BY <2>1, <2>5, <2>7
<1> QED BY <1>1 DEF First

\* Cutting a frame in two keeps its bytes.
LEMMA FrameCut ==
  ASSUME NEW w \in 0 .. Total, NEW f \in Fr(w), NEW k \in 1 .. (f.to - f.from - 1)
  PROVE  /\ [f EXCEPT !.to = f.from + k] \in Fr(w)
         /\ [f EXCEPT !.from = f.from + k] \in Fr(w)
         /\ Bytes(f) = Bytes([f EXCEPT !.to = f.from + k])
                         \union Bytes([f EXCEPT !.from = f.from + k])
<1> DEFINE a == f.from
           b == f.to
           r == f.retx
<1>1. /\ a \in Nat /\ b \in Nat /\ r \in BOOLEAN /\ a < b /\ b <= w
      /\ f = [from |-> a, to |-> b, retx |-> r]
  BY FrFields
<1>2. PICK c : c = f.from + k
  OBVIOUS
<1>3. /\ [f EXCEPT !.to = c] = [from |-> a, to |-> c, retx |-> r]
      /\ [f EXCEPT !.from = c] = [from |-> c, to |-> b, retx |-> r]
  BY <1>1
<1>4. c \in Nat /\ a < c /\ c < b /\ c <= w
  <2>1. w \in Nat /\ k \in Nat
    BY QuicStreamAssumption
  <2> QED BY <1>1, <1>2, <2>1
<1> HIDE DEF a, b, r
<1>5. [from |-> a, to |-> c, retx |-> r] \in Fr(w)
  BY <1>1, <1>4, MakeFr
<1>6. [from |-> c, to |-> b, retx |-> r] \in Fr(w)
  BY <1>1, <1>4, MakeFr
<1>7. a .. (b - 1) = (a .. (c - 1)) \union (c .. (b - 1))
  BY <1>1, <1>4
<1>8. Bytes([from |-> a, to |-> b, retx |-> r]) =
        Bytes([from |-> a, to |-> c, retx |-> r])
          \union Bytes([from |-> c, to |-> b, retx |-> r])
  BY <1>7 DEF Bytes
<1> QED BY <1>1, <1>2, <1>3, <1>5, <1>6, <1>8

\* A segment and what is left of the queue carry what the queue did.
LEMMA SegmentKeeps ==
  ASSUME NEW w \in 0 .. Total, NEW F, F \subseteq Fr(w), NEW n
  PROVE  LET segment == NewSegment(F, n)
         IN /\ segment.frames \subseteq Fr(w)
            /\ segment.rest \subseteq Fr(w)
            /\ BytesOf(F) \subseteq BytesOf(segment.frames) \union BytesOf(segment.rest)
<1> DEFINE whole == Whole(F, n)
           rest == F \ whole
           next == First(rest)
           room == n - Size(whole) - 1
<1>1. whole \subseteq F
  BY DEF Whole
<1>2. BytesOf(F) \subseteq BytesOf(whole) \union BytesOf(rest)
  BY DEF BytesOf
<1>3. CASE rest = {} \/ room \notin 1 .. (next.to - next.from - 1)
  <2>1. NewSegment(F, n) = [frames |-> whole, rest |-> rest]
    BY <1>3 DEF NewSegment
  <2> QED BY <1>1, <1>2, <2>1
<1>4. CASE ~(rest = {} \/ room \notin 1 .. (next.to - next.from - 1))
  <2> DEFINE head == [next EXCEPT !.to = next.from + room]
             tail == [next EXCEPT !.from = next.from + room]
  <2>1. NewSegment(F, n) = [frames |-> whole \union {head},
                            rest |-> (rest \ {next}) \union {tail}]
    BY <1>4 DEF NewSegment
  <2>2. next \in rest /\ rest \subseteq Fr(w)
    BY <1>4, FirstFrame
  <2>3. room \in 1 .. (next.to - next.from - 1)
    BY <1>4
  <2> HIDE DEF whole, rest, next, room
  <2>4. /\ head \in Fr(w) /\ tail \in Fr(w)
        /\ Bytes(next) = Bytes(head) \union Bytes(tail)
    BY <2>2, <2>3, FrameCut
  <2> HIDE DEF head, tail
  <2>5. BytesOf(rest) \subseteq BytesOf({head}) \union BytesOf((rest \ {next}) \union {tail})
    BY <2>4 DEF BytesOf
  <2>6. BytesOf(whole \union {head}) = BytesOf(whole) \union BytesOf({head})
    BY BytesOfUnion
  <2>7. BytesOf(F) \subseteq BytesOf(whole \union {head})
                               \union BytesOf((rest \ {next}) \union {tail})
    BY <1>2, <2>5, <2>6
  <2> QED BY <1>1, <2>1, <2>2, <2>4, <2>7
<1> QED BY <1>3, <1>4

------------------------------------------------------------------------------
(* The sender.                                                             *)

\* The sender's states while w bytes are written.
Sender(w) ==
  [queue : SUBSET Fr(w), list : SUBSET Pk(w), next : Nat, high : Nat, cwnd : Windows,
   tlp : Nat, rto : Nat, epoch : Nat, stuck : 0 .. 2, lastBiF : Nat,
   pacing : BOOLEAN, armed : BOOLEAN, out : SUBSET Pk(w)]

\* The bytes the sender can still send, or send again.
Has(s) == BytesOf(s.queue) \union BytesOf(UNION {p.frames : p \in s.list})

Numbers(s) == s.list \union s.out

\* Packet numbers are taken in order and each only once.
Good(s, w) ==
  /\ s \in Sender(w)
  /\ \A p \in Numbers(s) : p.pn <= s.next
  /\ \A p, q \in Numbers(s) : p.pn = q.pn => p = q

\* From s to t the sender forgets no byte and numbers what it sends anew.
Keeps(s, t) ==
  /\ s.next <= t.next
  /\ Has(s) \subseteq Has(t)
  /\ s.out \subseteq t.out
  /\ \A p \in t.list : p \in s.list \/ (p \in t.out /\ p.pn > s.next)
  /\ \A p \in t.out : p \in s.out \/ p.pn > s.next

LEMMA KeepsItself ==
  ASSUME NEW w, NEW s \in Sender(w)
  PROVE  Keeps(s, s)
BY DEF Keeps, Sender

LEMMA KeepsOn ==
  ASSUME NEW w, NEW s \in Sender(w), NEW t \in Sender(w), NEW u \in Sender(w),
         Keeps(s, t), Keeps(t, u)
  PROVE  Keeps(s, u)
<1>1. s.next \in Nat /\ t.next \in Nat /\ u.next \in Nat
  BY DEF Sender
<1>2. \A p \in u.list \union u.out \union t.list \union t.out : p.pn \in Nat
  BY DEF Sender, Pk
<1>3. \A p \in u.list : p \in s.list \/ (p \in u.out /\ p.pn > s.next)
  BY <1>1, <1>2 DEF Keeps
<1>4. \A p \in u.out : p \in s.out \/ p.pn > s.next
  BY <1>1, <1>2 DEF Keeps
<1>5. s.next <= u.next /\ Has(s) \subseteq Has(u) /\ s.out \subseteq u.out
  BY <1>1 DEF Keeps
<1> QED BY <1>3, <1>4, <1>5 DEF Keeps

\* Operations on the timers, the counts and the window change no packet.
Aside(s, t) ==
  /\ t.queue = s.queue /\ t.list = s.list /\ t.out = s.out /\ t.next = s.next

LEMMA AsideKeeps ==
  ASSUME NEW w, NEW s, Good(s, w), NEW t \in Sender(w), Aside(s, t)
  PROVE  Good(t, w) /\ Keeps(s, t)
<1>1. s \in Sender(w)
  BY DEF Good
<1>2. Has(t) = Has(s) /\ Numbers(t) = Numbers(s)
  BY DEF Has, Numbers, Aside
<1>3. Good(t, w)
  BY <1>2 DEF Good, Aside
<1>4. Keeps(s, t)
  BY <1>1, <1>2 DEF Keeps, Aside, Sender
<1> QED BY <1>3, <1>4

\* A number that no packet has.
Fresh(s) == \A p \in Numbers(s) : p.pn < s.next

LEMMA NumberedKeeps ==
  ASSUME NEW w, NEW s, Good(s, w)
  PROVE  /\ Good(Numbered(s), w) /\ Fresh(Numbered(s)) /\ Keeps(s, Numbered(s))
         /\ Numbered(s).next > s.next /\ Numbered(s).tlp = s.tlp
         /\ Numbered(s).list = s.list
<1> DEFINE t == Numbered(s)
<1>1. s \in Sender(w) /\ s.next \in Nat
  BY DEF Good, Sender
<1>2. /\ t \in Sender(w) /\ t.next = s.next + 1 /\ t.queue = s.queue /\ t.list = s.list
      /\ t.out = s.out /\ t.tlp = s.tlp
  BY <1>1 DEF Numbered, Sender
<1> HIDE DEF t
<1>3. Numbers(t) = Numbers(s) /\ Has(t) = Has(s)
  BY <1>2 DEF Numbers, Has
<1>4. \A p \in Numbers(s) : p.pn \in Nat
  BY <1>1 DEF Numbers, Sender, Pk
<1>5. Good(t, w) /\ Fresh(t)
  BY <1>1, <1>2, <1>3, <1>4 DEF Good, Fresh
<1>6. Keeps(s, t)
  BY <1>1, <1>2, <1>3 DEF Keeps
<1> QED BY <1>1, <1>2, <1>5, <1>6 DEF t

\* What an operation does that never forgets a byte; it leaves the count of
\* probes alone.
Safe(s, t, w) == Good(t, w) /\ Keeps(s, t) /\ t.tlp = s.tlp

LEMMA SafeOn ==
  ASSUME NEW w, NEW s, NEW t, NEW u, Good(s, w), Safe(s, t, w), Safe(t, u, w)
  PROVE  Safe(s, u, w)
BY KeepsOn DEF Safe, Good

LEMMA SafeItself ==
  ASSUME NEW w, NEW s, Good(s, w)
  PROVE  Safe(s, s, w)
BY KeepsItself DEF Safe, Good

LEMMA SafeAside ==
  ASSUME NEW w, NEW s, Good(s, w), NEW t \in Sender(w), Aside(s, t), t.tlp = s.tlp
  PROVE  Safe(s, t, w)
BY AsideKeeps DEF Safe

\* A packet with a fresh number takes what it carries from the queue.
LEMMA SendSafe ==
  ASSUME NEW w \in 0 .. Total, NEW s, NEW u, Good(s, w), Safe(s, u, w), Fresh(u),
         u.next > s.next, NEW n, NEW t \in SendDataPacket(u, n)
  PROVE  Safe(s, t, w)
<1>1. PICK segment : /\ segment = NewSegment(u.queue, n)
                     /\ t = [u EXCEPT !.queue = segment.rest,
                                !.list = IF segment.frames = {} THEN @
                                         ELSE @ \union {[pn |-> u.next, frames |-> segment.frames]},
                                !.out = @ \union {[pn |-> u.next, frames |-> segment.frames]},
                                !.high = u.next,
                                !.pacing = TRUE,
                                !.armed = @ \/ segment.frames # {}]
  BY DEF SendDataPacket
<1>2. /\ u \in Sender(w) /\ s \in Sender(w) /\ u.queue \subseteq Fr(w)
      /\ u.next \in Nat /\ s.next \in Nat /\ u.list \subseteq Pk(w) /\ u.out \subseteq Pk(w)
  BY DEF Safe, Good, Sender
<1>3. /\ segment.frames \subseteq Fr(w) /\ segment.rest \subseteq Fr(w)
      /\ BytesOf(u.queue) \subseteq BytesOf(segment.frames) \union BytesOf(segment.rest)
  BY <1>1, <1>2, SegmentKeeps
<1>4. PICK packet : packet = [pn |-> u.next, frames |-> segment.frames]
  OBVIOUS
<1>5. packet \in Pk(w) /\ packet.pn = u.next /\ packet.frames = segment.frames
  BY <1>2, <1>3, <1>4 DEF Pk
<1>6. t.list = IF segment.frames = {} THEN u.list ELSE u.list \union {packet}
  BY <1>1, <1>2, <1>4 DEF Sender
<1>7. /\ t.queue = segment.rest /\ t.out = u.out \union {packet} /\ t.next = u.next
      /\ t.tlp = u.tlp
  BY <1>1, <1>2, <1>4 DEF Sender
<1>8. t \in Sender(w)
  <2>1. t.list \subseteq Pk(w) /\ t.out \subseteq Pk(w) /\ t.queue \subseteq Fr(w)
    BY <1>2, <1>3, <1>5, <1>6, <1>7
  <2>2. u.armed \in BOOLEAN /\ (u.armed \/ segment.frames # {}) \in BOOLEAN
    BY <1>2 DEF Sender
  <2>3. t = [u EXCEPT !.queue = t.queue, !.list = t.list, !.out = t.out,
                      !.high = u.next, !.pacing = TRUE,
                      !.armed = u.armed \/ segment.frames # {}]
    BY <1>1, <1>2 DEF Sender
  <2> HIDE <1>1
  <2> QED BY <1>2, <2>1, <2>2, <2>3 DEF Sender
<1>9. Numbers(t) \subseteq Numbers(u) \union {packet}
  BY <1>6, <1>7 DEF Numbers
<1>10. Good(t, w)
  <2>1. \A p \in Numbers(u) : p.pn < u.next
    BY DEF Fresh
  <2>2. \A p \in Numbers(u) : p.pn \in Nat
    BY <1>2 DEF Numbers, Pk
  <2>3. \A p \in Numbers(t) : p.pn <= t.next
    BY <1>2, <1>5, <1>7, <1>9, <2>1, <2>2
  <2>4. ASSUME NEW p \in Numbers(t), NEW q \in Numbers(t), p.pn = q.pn
        PROVE  p = q
    <3>1. CASE p \in Numbers(u) /\ q \in Numbers(u)
      BY <2>4, <3>1 DEF Safe, Good
    <3>2. CASE p = packet /\ q \in Numbers(u)
      BY <1>2, <1>5, <2>1, <2>2, <2>4, <3>2
    <3>3. CASE p \in Numbers(u) /\ q = packet
      BY <1>2, <1>5, <2>1, <2>2, <2>4, <3>3
    <3> QED BY <1>9, <3>1, <3>2, <3>3
  <2> QED BY <1>8, <2>3, <2>4 DEF Good
<1>11. Has(u) \subseteq Has(t)
  <2>1. BytesOf(UNION {p.frames : p \in u.list}) \union BytesOf(segment.frames)
          \subseteq BytesOf(UNION {p.frames : p \in t.list})
    BY <1>5, <1>6 DEF BytesOf
  <2> QED BY <1>3, <1>7, <2>1 DEF Has
<1>12. Keeps(s, t)
  <2>1. Keeps(s, u)
    BY DEF Safe
  <2>2. packet \in t.out /\ packet.pn > s.next
    BY <1>5, <1>7
  <2>3. \A p \in t.list : p \in s.list \/ (p \in t.out /\ p.pn > s.next)
    BY <1>6, <1>7, <2>1, <2>2 DEF Keeps
  <2>4. \A p \in t.out : p \in s.out \/ p.pn > s.next
    BY <1>7, <2>1, <2>2 DEF Keeps
  <2>5. s.next <= t.next /\ Has(s) \subseteq Has(t) /\ s.out \subseteq t.out
    BY <1>7, <1>11, <2>1 DEF Keeps
  <2> QED BY <2>3, <2>4, <2>5 DEF Keeps
<1> QED BY <1>7, <1>10, <1>12 DEF Safe

\* A packet after a new number.
LEMMA SendNumbered ==
  ASSUME NEW w \in 0 .. Total, NEW s, Good(s, w), NEW n,
         NEW t \in SendDataPacket(Numbered(s), n)
  PROVE  Safe(s, t, w)
<1>1. Good(Numbered(s), w) /\ Fresh(Numbered(s)) /\ Safe(s, Numbered(s), w)
      /\ Numbered(s).next > s.next
  BY NumberedKeeps DEF Safe
<1> QED BY <1>1, SendSafe

LEMMA NumberedSafe ==
  ASSUME NEW w, NEW s, Good(s, w)
  PROVE  Safe(s, Numbered(s), w)
BY NumberedKeeps DEF Safe

LEMMA PendingSafe ==
  ASSUME NEW w \in 0 .. Total, NEW s, Good(s, w), NEW t \in SendPendingData(s)
  PROVE  Safe(s, t, w)
<1>1. t = s \/ \E n : t \in SendDataPacket(Numbered(s), n)
  BY DEF SendPendingData
<1> QED BY <1>1, SafeItself, SendNumbered

\* What is in flight is a number.
LEMMA InFlightNatural ==
  ASSUME NEW w \in 0 .. Total, NEW s \in Sender(w)
  PROVE  InFlight(s) \in Nat
<1>1. UNION {p.frames : p \in s.list} \subseteq Fr(w)
  BY DEF Sender, Pk
<1> QED BY <1>1, SizeNatural DEF InFlight

\* Marking a frame for retransmission keeps its bytes.
LEMMA MarkedFrame ==
  ASSUME NEW w \in 0 .. Total, NEW f \in Fr(w)
  PROVE  /\ [f EXCEPT !.retx = TRUE] \in Fr(w)
         /\ Bytes([f EXCEPT !.retx = TRUE]) = Bytes(f)
<1> DEFINE a == f.from
           b == f.to
           r == f.retx
<1>1. /\ a \in Nat /\ b \in Nat /\ a < b /\ b <= w
      /\ f = [from |-> a, to |-> b, retx |-> r]
  BY FrFields
<1>2. [f EXCEPT !.retx = TRUE] = [from |-> a, to |-> b, retx |-> TRUE]
  <2>1. PICK yes : yes = TRUE
    OBVIOUS
  <2>2. [f EXCEPT !.retx = yes] = [from |-> a, to |-> b, retx |-> yes]
    BY <1>1
  <2> QED BY <2>1, <2>2
<1> HIDE DEF a, b, r
<1>3. [from |-> a, to |-> b, retx |-> TRUE] \in Fr(w)
  BY <1>1, MakeFr
<1>4. Bytes([from |-> a, to |-> b, retx |-> TRUE]) = Bytes([from |-> a, to |-> b, retx |-> r])
  BY DEF Bytes
<1> QED BY <1>1, <1>2, <1>3, <1>4

\* What is lost goes back to the queue.
LEMMA RequeueSafe ==
  ASSUME NEW w \in 0 .. Total, NEW s, Good(s, w), NEW lost, lost \subseteq s.list
  PROVE  /\ Safe(s, Requeue(s, lost), w)
         /\ Requeue(s, lost).next = s.next
         /\ Fresh(s) => Fresh(Requeue(s, lost))
<1> DEFINE F == UNION {p.frames : p \in lost}
           M == {[f EXCEPT !.retx = TRUE] : f \in F}
<1>1. PICK t : t = Requeue(s, lost)
  OBVIOUS
<1>2. s \in Sender(w) /\ s.list \subseteq Pk(w) /\ s.queue \subseteq Fr(w) /\ s.next \in Nat
  BY DEF Good, Sender
<1>3. F \subseteq Fr(w)
  BY <1>2 DEF Pk
<1>4. M \subseteq Fr(w)
  BY <1>3, MarkedFrame
<1>5. BytesOf(F) \subseteq BytesOf(M)
  <2> SUFFICES ASSUME NEW f \in F PROVE Bytes(f) \subseteq BytesOf(M)
    BY DEF BytesOf
  <2>1. Bytes([f EXCEPT !.retx = TRUE]) = Bytes(f) /\ [f EXCEPT !.retx = TRUE] \in M
    BY <1>3, MarkedFrame
  <2> HIDE DEF M
  <2> QED BY <2>1 DEF BytesOf
<1>6. /\ t.list = s.list \ lost /\ t.queue = s.queue \union M /\ t.out = s.out
      /\ t.next = s.next /\ t.tlp = s.tlp
  BY <1>1, <1>2 DEF Requeue, Sender
<1>7. t = [s EXCEPT !.list = s.list \ lost, !.queue = s.queue \union M]
  BY <1>1, <1>2 DEF Requeue, Sender
<1> HIDE DEF M
<1>8. t \in Sender(w)
  <2>1. s.list \ lost \subseteq Pk(w) /\ s.queue \union M \subseteq Fr(w)
    BY <1>2, <1>4
  <2> QED BY <1>2, <1>7, <2>1 DEF Sender
<1>9. Numbers(t) \subseteq Numbers(s)
  BY <1>6 DEF Numbers
<1>10. Good(t, w)
  BY <1>6, <1>8, <1>9 DEF Good
<1>11. Has(s) \subseteq Has(t)
  <2>1. BytesOf(UNION {p.frames : p \in s.list})
          \subseteq BytesOf(UNION {p.frames : p \in s.list \ lost}) \union BytesOf(F)
    BY DEF BytesOf
  <2>2. BytesOf(t.queue) = BytesOf(s.queue) \union BytesOf(M)
    BY <1>6, BytesOfUnion
  <2> HIDE DEF F
  <2> QED BY <1>5, <1>6, <2>1, <2>2 DEF Has
<1>12. Keeps(s, t)
  BY <1>2, <1>6, <1>11 DEF Keeps
<1>13. Fresh(s) => Fresh(t)
  BY <1>6, <1>9 DEF Fresh
<1> QED BY <1>1, <1>6, <1>10, <1>12, <1>13 DEF Safe

LEMMA SecondPacketSafe ==
  ASSUME NEW w \in 0 .. Total, NEW s, Good(s, w), NEW sent, NEW total,
         NEW t \in SecondPacket(s, sent, total)
  PROVE  Safe(s, t, w)
<1>1. \/ t = s
      \/ t = Numbered(s)
      \/ \E n : \E u \in SendDataPacket(Numbered(s), n) : t = u \/ t = Numbered(u)
  BY DEF SecondPacket
<1>2. ASSUME NEW n, NEW u \in SendDataPacket(Numbered(s), n), t = u \/ t = Numbered(u)
      PROVE  Safe(s, t, w)
  <2>1. Safe(s, u, w) /\ Good(u, w)
    BY SendNumbered DEF Safe
  <2>2. Safe(u, Numbered(u), w)
    BY <2>1, NumberedSafe
  <2> QED BY <1>2, <2>1, <2>2, SafeOn
<1> QED BY <1>1, <1>2, SafeItself, NumberedSafe

LEMMA RetransmitSafe ==
  ASSUME NEW w \in 0 .. Total, NEW s, Good(s, w), NEW lost, lost \subseteq s.list,
         NEW t \in DoRetransmit(s, lost)
  PROVE  Safe(s, t, w)
<1>1. PICK start : start = Requeue(Numbered(s), lost)
  OBVIOUS
<1>2. /\ Good(Numbered(s), w) /\ Fresh(Numbered(s)) /\ Safe(s, Numbered(s), w)
      /\ Numbered(s).next > s.next /\ Numbered(s).list = s.list
  BY NumberedKeeps DEF Safe
<1>3. Safe(Numbered(s), start, w) /\ start.next = Numbered(s).next /\ Fresh(start)
  BY <1>1, <1>2, RequeueSafe
<1>4. Safe(s, start, w) /\ start.next > s.next
  BY <1>2, <1>3, SafeOn
<1>5. \/ t = start
      \/ \E n, sent, total : \E u \in SendDataPacket(start, n) :
           t \in SecondPacket(u, sent, total)
  <2> DEFINE total == Size(UNION {p.frames : p \in lost})
             packets == SendDataPacket(start, Min({total, SegSize}))
             both == {SecondPacket(u, InFlight(u) - InFlight(start), total) : u \in packets}
  <2>1. DoRetransmit(s, lost) = IF total = 0 THEN {start} ELSE UNION both
    BY <1>1 DEF DoRetransmit
  <2>2. CASE total = 0
    BY <2>1, <2>2
  <2>3. CASE total # 0
    <3>1. PICK u \in packets : t \in SecondPacket(u, InFlight(u) - InFlight(start), total)
      BY <2>1, <2>3
    <3> HIDE DEF total
    <3> QED BY <3>1
  <2> QED BY <2>2, <2>3
<1>6. ASSUME NEW n, NEW sent, NEW total, NEW u \in SendDataPacket(start, n),
             t \in SecondPacket(u, sent, total)
      PROVE  Safe(s, t, w)
  <2>1. Safe(s, u, w) /\ Good(u, w)
    BY <1>3, <1>4, SendSafe DEF Safe
  <2>2. Safe(u, t, w)
    BY <1>6, <2>1, SecondPacketSafe
  <2> QED BY <2>1, <2>2, SafeOn
<1> QED BY <1>4, <1>5, <1>6

LEMMA FlushSafe ==
  ASSUME NEW w \in 0 .. Total, NEW s, Good(s, w)
  PROVE  Safe(s, Flush(s), w)
<1>1. CASE s.list = {}
  BY <1>1, SafeItself DEF Flush
<1>2. CASE s.list # {}
  <2>1. Safe(s, Numbered(s), w) /\ Good(Numbered(s), w) /\ Numbered(s).list = s.list
    BY NumberedKeeps DEF Safe
  <2>2. Safe(Numbered(s), Requeue(Numbered(s), s.list), w)
    BY <2>1, RequeueSafe
  <2>3. Flush(s) = Requeue(Numbered(s), s.list)
    BY <1>2 DEF Flush
  <2> QED BY <2>1, <2>2, <2>3, SafeOn
<1> QED BY <1>1, <1>2

\* The alarm's operations.
LEMMA ProbeSafe ==
  ASSUME NEW w \in 0 .. Total, NEW s, Good(s, w), NEW window, NEW t \in Probe(s, window)
  PROVE  Safe(s, t, w)
<1>1. PICK u : u = [s EXCEPT !.pacing = FALSE]
  OBVIOUS
<1>2. s \in Sender(w)
  BY DEF Good
<1>3. u \in Sender(w) /\ Aside(s, u) /\ u.tlp = s.tlp
  BY <1>1, <1>2 DEF Sender, Aside
<1>4. Safe(s, u, w) /\ Good(u, w)
  BY <1>3, SafeAside DEF Safe
<1>5. Oldest(s) \subseteq u.list
  BY <1>3 DEF Oldest, Aside
<1>6. t \in DoRetransmit(u, Oldest(s)) \/ \E n : t \in SendDataPacket(Numbered(u), n)
  BY <1>1 DEF Probe
<1>7. Safe(u, t, w)
  BY <1>4, <1>5, <1>6, RetransmitSafe, SendNumbered
<1> QED BY <1>4, <1>7, SafeOn

LEMMA TailLossProbeKeeps ==
  ASSUME NEW w \in 0 .. Total, NEW s, Good(s, w), NEW t \in TailLossProbe(s)
  PROVE  Good(t, w) /\ Keeps(s, t) /\ t.tlp = s.tlp + 1
<1>1. PICK u \in Probe(s, ConnectionWindow(s)) : t = [u EXCEPT !.tlp = @ + 1]
  BY DEF TailLossProbe
<1>2. Safe(s, u, w)
  BY <1>1, ProbeSafe
<1>3. u \in Sender(w) /\ s \in Sender(w) /\ u.tlp = s.tlp /\ Keeps(s, u) /\ Good(u, w)
  BY <1>2 DEF Safe, Good
<1>4. t \in Sender(w) /\ Aside(u, t) /\ t.tlp = s.tlp + 1
  BY <1>1, <1>3 DEF Sender, Aside
<1>5. Good(t, w) /\ Keeps(u, t)
  BY <1>3, <1>4, AsideKeeps
<1> QED BY <1>3, <1>4, <1>5, KeepsOn

LEMMA WindowsNatural == MinWindow \in Windows /\ Windows \subseteq Nat
BY QuicStreamAssumption

LEMMA TimeoutSafe ==
  ASSUME NEW w \in 0 .. Total, NEW s, Good(s, w), NEW t \in RetransmissionTimeout(s)
  PROVE  Safe(s, t, w)
<1> DEFINE probed == UNION {Probe(x, AvailableWindow(x)) : x \in Probe(s, AvailableWindow(s))}
           counted == {[x EXCEPT !.rto = @ + 1] : x \in probed}
<1>1. ASSUME NEW x \in counted
      PROVE  Safe(s, x, w)
  <2>1. PICK p1 \in Probe(s, AvailableWindow(s)) :
          \E p2 \in Probe(p1, AvailableWindow(p1)) : x = [p2 EXCEPT !.rto = @ + 1]
    BY <1>1
  <2>2. PICK p2 \in Probe(p1, AvailableWindow(p1)) : x = [p2 EXCEPT !.rto = @ + 1]
    BY <2>1
  <2>3. Safe(s, p1, w) /\ Good(p1, w)
    BY ProbeSafe DEF Safe
  <2>4. Safe(p1, p2, w) /\ Good(p2, w)
    BY <2>3, ProbeSafe DEF Safe
  <2>5. p2 \in Sender(w)
    BY <2>4 DEF Good
  <2>6. x \in Sender(w) /\ Aside(p2, x) /\ x.tlp = p2.tlp
    BY <2>2, <2>5 DEF Sender, Aside
  <2>7. Safe(p2, x, w)
    BY <2>4, <2>6, SafeAside
  <2>8. Safe(s, p2, w)
    BY <2>3, <2>4, SafeOn
  <2> QED BY <2>7, <2>8, SafeOn
<1>2. ASSUME NEW x \in counted, t \in SendPendingData(Flush([x EXCEPT !.cwnd = MinWindow]))
      PROVE  Safe(s, t, w)
  <2>1. PICK y : y = [x EXCEPT !.cwnd = MinWindow]
    OBVIOUS
  <2>2. Safe(s, x, w)
    BY <1>1
  <2>3. Good(x, w) /\ x \in Sender(w)
    BY <2>2 DEF Safe, Good
  <2>4. y \in Sender(w) /\ Aside(x, y) /\ y.tlp = x.tlp
    BY <2>1, <2>3, WindowsNatural DEF Sender, Aside
  <2>5. Safe(x, y, w) /\ Good(y, w)
    BY <2>3, <2>4, SafeAside DEF Safe
  <2>6. Safe(y, Flush(y), w) /\ Good(Flush(y), w)
    BY <2>5, FlushSafe DEF Safe
  <2>7. Safe(Flush(y), t, w)
    BY <1>2, <2>1, <2>6, PendingSafe
  <2>8. Safe(s, y, w)
    BY <2>2, <2>5, SafeOn
  <2>9. Safe(s, Flush(y), w)
    BY <2>6, <2>8, SafeOn
  <2> QED BY <2>7, <2>9, SafeOn
<1>3. \/ t \in counted
      \/ \E x \in counted : t \in SendPendingData(Flush([x EXCEPT !.cwnd = MinWindow]))
  <2>1. RetransmissionTimeout(s) =
          IF s.rto = 0 THEN counted
          ELSE UNION {SendPendingData(Flush([x EXCEPT !.cwnd = MinWindow])) : x \in counted}
    BY DEF RetransmissionTimeout
  <2> HIDE DEF counted
  <2> QED BY <2>1
<1> HIDE DEF counted
<1> QED BY <1>1, <1>2, <1>3

LEMMA UnstickSafe ==
  ASSUME NEW w \in 0 .. Total, NEW s, Good(s, w), NEW t \in Unstick(s)
  PROVE  Safe(s, t, w)
<1>1. s \in Sender(w) /\ InFlight(s) \in Nat /\ s.stuck \in 0 .. 2
  <2>1. s \in Sender(w)
    BY DEF Good
  <2> QED BY <2>1, InFlightNatural DEF Sender
<1> DEFINE pinned == InFlight(s) > 0 /\ AvailableWindow(s) < SegSize
           count == IF pinned /\ InFlight(s) >= s.lastBiF THEN s.stuck + 1 ELSE 0
           freed == [s EXCEPT !.cwnd = MinWindow, !.stuck = 0, !.lastBiF = 0]
<1>2. Unstick(s) = IF count < 3 THEN {[s EXCEPT !.stuck = count, !.lastBiF = InFlight(s)]}
                   ELSE SendPendingData(Flush(freed))
  BY DEF Unstick
<1>3. CASE count < 3
  <2>1. t = [s EXCEPT !.stuck = count, !.lastBiF = InFlight(s)]
    BY <1>2, <1>3
  <2>2. count \in 0 .. 2
    BY <1>1, <1>3
  <2> HIDE DEF count
  <2>3. t \in Sender(w) /\ Aside(s, t) /\ t.tlp = s.tlp
    BY <1>1, <2>1, <2>2 DEF Sender, Aside
  <2> QED BY <2>3, SafeAside
<1>4. CASE ~(count < 3)
  <2>1. t \in SendPendingData(Flush(freed))
    BY <1>2, <1>4
  <2>2. PICK y : y = freed
    OBVIOUS
  <2>3. y \in Sender(w) /\ Aside(s, y) /\ y.tlp = s.tlp
    <3>1. y = [s EXCEPT !.cwnd = MinWindow, !.stuck = 0, !.lastBiF = 0]
      BY <2>2
    <3> HIDE DEF pinned, count, freed
    <3>2. y \in Sender(w)
      BY <1>1, <3>1, WindowsNatural, 0 \in 0 .. 2 DEF Sender
    <3> QED BY <1>1, <3>1, <3>2 DEF Sender, Aside
  <2>4. Safe(s, y, w) /\ Good(y, w)
    BY <2>3, SafeAside DEF Safe
  <2>5. Safe(y, Flush(y), w) /\ Good(Flush(y), w)
    BY <2>4, FlushSafe DEF Safe
  <2>6. Safe(Flush(y), t, w)
    BY <2>1, <2>2, <2>5, PendingSafe
  <2>7. Safe(s, Flush(y), w)
    BY <2>4, <2>5, SafeOn
  <2> QED BY <2>6, <2>7, SafeOn
<1> QED BY <1>3, <1>4

LEMMA AlarmKeeps ==
  ASSUME NEW w \in 0 .. Total, NEW s, Good(s, w), NEW t \in ReTxTimeout(s)
  PROVE  /\ Good(t, w) /\ Keeps(s, t)
         /\ t.tlp = s.tlp \/ (s.tlp < MaxTLPs /\ t.tlp = s.tlp + 1)
<1> DEFINE begun == [s EXCEPT !.armed = FALSE,
                              !.epoch = IF s.tlp = 0 /\ s.rto = 0 THEN s.high ELSE @]
           tried == IF s.tlp < MaxTLPs THEN TailLossProbe(begun) ELSE RetransmissionTimeout(begun)
<1>1. PICK x \in tried : \E y \in Unstick(x) : t = [y EXCEPT !.armed = @ \/ InFlight(y) > 0]
  BY DEF ReTxTimeout
<1>2. PICK y \in Unstick(x) : t = [y EXCEPT !.armed = @ \/ InFlight(y) > 0]
  BY <1>1
<1>3. PICK b : b = begun
  OBVIOUS
<1>4. s \in Sender(w)
  BY DEF Good
<1>5. b \in Sender(w) /\ Aside(s, b) /\ b.tlp = s.tlp
  <2>1. PICK e : e = IF s.tlp = 0 /\ s.rto = 0 THEN s.high ELSE s.epoch
    OBVIOUS
  <2>2. e \in Nat
    BY <1>4, <2>1 DEF Sender
  <2>3. b = [s EXCEPT !.armed = FALSE, !.epoch = e]
    BY <1>3, <1>4, <2>1 DEF Sender
  <2> QED BY <1>4, <2>2, <2>3 DEF Sender, Aside
<1>6. Safe(s, b, w) /\ Good(b, w)
  BY <1>5, SafeAside DEF Safe
<1>7. x \in IF s.tlp < MaxTLPs THEN TailLossProbe(b) ELSE RetransmissionTimeout(b)
  BY <1>1, <1>3
<1> HIDE DEF begun, tried
<1>8. /\ Good(x, w) /\ Keeps(s, x)
      /\ x.tlp = s.tlp \/ (s.tlp < MaxTLPs /\ x.tlp = s.tlp + 1)
  <2>1. /\ Good(x, w) /\ Keeps(b, x)
        /\ x.tlp = b.tlp \/ (s.tlp < MaxTLPs /\ x.tlp = b.tlp + 1)
    <3>1. CASE s.tlp < MaxTLPs
      BY <1>6, <1>7, <3>1, TailLossProbeKeeps
    <3>2. CASE ~(s.tlp < MaxTLPs)
      BY <1>6, <1>7, <3>2, TimeoutSafe DEF Safe
    <3> QED BY <3>1, <3>2
  <2>2. Keeps(s, x)
    BY <1>4, <1>5, <1>6, <2>1, KeepsOn DEF Safe, Good
  <2> QED BY <1>5, <2>1, <2>2
<1>9. Safe(x, y, w)
  BY <1>2, <1>8, UnstickSafe
<1>10. Good(y, w) /\ y \in Sender(w) /\ y.tlp = x.tlp /\ Keeps(x, y) /\ x \in Sender(w)
  BY <1>8, <1>9 DEF Safe, Good
<1>11. t \in Sender(w) /\ Aside(y, t) /\ t.tlp = y.tlp
  <2>1. PICK r : r = (y.armed \/ InFlight(y) > 0)
    OBVIOUS
  <2>2. r \in BOOLEAN
    BY <2>1
  <2>3. t = [y EXCEPT !.armed = r]
    BY <1>2, <1>10, <2>1 DEF Sender
  <2> QED BY <1>10, <2>2, <2>3 DEF Sender, Aside
<1>12. Good(t, w) /\ Keeps(y, t)
  BY <1>10, <1>11, AsideKeeps
<1>13. Keeps(s, y)
  BY <1>4, <1>8, <1>10, KeepsOn
<1>14. Keeps(s, t)
  BY <1>4, <1>10, <1>11, <1>12, <1>13, KeepsOn
<1> QED BY <1>8, <1>10, <1>11, <1>12, <1>14

\* The sender once an ACK frame has taken the acknowledged packets out.
Cleaned(s, ack) ==
  [s EXCEPT !.list = @ \ Sacked(s, ack),
            !.tlp = IF Sacked(s, ack) # {} /\ s.epoch < ack.largest THEN 0 ELSE @]

LEMMA CleanedGood ==
  ASSUME NEW w \in 0 .. Total, NEW s, Good(s, w), NEW ack
  PROVE  /\ Good(Cleaned(s, ack), w)
         /\ Cleaned(s, ack).next = s.next /\ Cleaned(s, ack).out = s.out
         /\ Cleaned(s, ack).list = s.list \ Sacked(s, ack)
         /\ Cleaned(s, ack).tlp \in {0, s.tlp}
         /\ Has(s) \subseteq Has(Cleaned(s, ack))
                               \union BytesOf(UNION {p.frames : p \in Sacked(s, ack)})
<1>1. PICK c : c = Cleaned(s, ack)
  OBVIOUS
<1>2. PICK k : k = IF Sacked(s, ack) # {} /\ s.epoch < ack.largest THEN 0 ELSE s.tlp
  OBVIOUS
<1>3. s \in Sender(w)
  BY DEF Good
<1>4. PICK L : L = s.list \ Sacked(s, ack)
  OBVIOUS
<1>5. c = [s EXCEPT !.list = L, !.tlp = k]
  BY <1>1, <1>2, <1>3, <1>4 DEF Cleaned, Sender
<1>6. k \in Nat /\ k \in {0, s.tlp} /\ L \subseteq s.list
  BY <1>2, <1>3, <1>4 DEF Sender
<1>7. c \in Sender(w)
  BY <1>3, <1>5, <1>6 DEF Sender
<1>8. c.next = s.next /\ c.out = s.out /\ c.list = L /\ c.tlp = k /\ c.queue = s.queue
  BY <1>3, <1>5 DEF Sender
<1>9. Good(c, w)
  <2>1. Numbers(c) \subseteq Numbers(s)
    BY <1>6, <1>8 DEF Numbers
  <2> QED BY <1>7, <1>8, <2>1 DEF Good
<1>10. Has(s) \subseteq Has(c) \union BytesOf(UNION {p.frames : p \in Sacked(s, ack)})
  BY <1>4, <1>8 DEF Has, BytesOf
<1> QED BY <1>1, <1>4, <1>6, <1>8, <1>9, <1>10

LEMMA AckKeeps ==
  ASSUME NEW w \in 0 .. Total, NEW s, Good(s, w), NEW ack, NEW t \in OnReceivedAckFrame(s, ack)
  PROVE  Safe(Cleaned(s, ack), t, w)
<1>1. PICK c : c = Cleaned(s, ack)
  OBVIOUS
<1>2. Good(c, w) /\ c.list = s.list \ Sacked(s, ack)
  BY <1>1, CleanedGood
<1> DEFINE repaired == IF Lost(s, ack) = {} THEN {c} ELSE DoRetransmit(c, Lost(s, ack))
           counted == UNION {{[x EXCEPT !.cwnd = v, !.rto = IF Resumed(s, ack) THEN 0 ELSE @] :
                                v \in WindowsAfter(s, ack)} : x \in repaired}
<1>3. OnReceivedAckFrame(s, ack) =
        {[x EXCEPT !.armed = TRUE] : x \in UNION {SendPendingData(y) : y \in counted}}
  BY <1>1 DEF OnReceivedAckFrame, Cleaned
<1>4. \A y \in counted : \E x \in repaired, v \in WindowsAfter(s, ack) :
        y = [x EXCEPT !.cwnd = v, !.rto = IF Resumed(s, ack) THEN 0 ELSE @]
  <2> TAKE y \in counted
  <2>1. PICK x \in repaired :
          y \in {[x EXCEPT !.cwnd = v, !.rto = IF Resumed(s, ack) THEN 0 ELSE @] :
                   v \in WindowsAfter(s, ack)}
    OBVIOUS
  <2>2. PICK v \in WindowsAfter(s, ack) :
          y = [x EXCEPT !.cwnd = v, !.rto = IF Resumed(s, ack) THEN 0 ELSE @]
    BY <2>1
  <2> HIDE DEF counted, repaired
  <2> QED BY <2>2
<1> HIDE DEF counted
<1>5. \E y \in counted : \E z \in SendPendingData(y) : t = [z EXCEPT !.armed = TRUE]
  BY <1>3
<1>6. PICK y \in counted : \E z \in SendPendingData(y) : t = [z EXCEPT !.armed = TRUE]
  BY <1>5
<1>7. PICK z \in SendPendingData(y) : t = [z EXCEPT !.armed = TRUE]
  BY <1>6
<1>8. PICK x \in repaired, v \in WindowsAfter(s, ack) :
        y = [x EXCEPT !.cwnd = v, !.rto = IF Resumed(s, ack) THEN 0 ELSE @]
  BY <1>4
<1>9. Safe(c, x, w)
  <2>1. Lost(s, ack) \subseteq c.list
    BY <1>2 DEF Lost
  <2>2. CASE Lost(s, ack) = {}
    BY <1>2, <1>8, <2>2, SafeItself
  <2>3. CASE Lost(s, ack) # {}
    BY <1>2, <1>8, <2>1, <2>3, RetransmitSafe
  <2> QED BY <2>2, <2>3
<1> HIDE DEF repaired
<1>10. Good(x, w) /\ x \in Sender(w)
  BY <1>9 DEF Safe, Good
<1>11. Safe(x, y, w)
  <2>1. PICK r : r = IF Resumed(s, ack) THEN 0 ELSE x.rto
    OBVIOUS
  <2>2. r \in Nat /\ v \in Windows
    BY <1>10, <2>1 DEF Sender, WindowsAfter
  <2>3. y = [x EXCEPT !.cwnd = v, !.rto = r]
    BY <1>8, <1>10, <2>1 DEF Sender
  <2>4. y \in Sender(w) /\ Aside(x, y) /\ y.tlp = x.tlp
    BY <1>10, <2>2, <2>3 DEF Sender, Aside
  <2> QED BY <1>10, <2>4, SafeAside
<1>12. Good(y, w)
  BY <1>11 DEF Safe
<1>13. Safe(y, z, w) /\ Good(z, w) /\ z \in Sender(w)
  BY <1>7, <1>12, PendingSafe DEF Safe, Good
<1>14. Safe(z, t, w)
  <2>1. t \in Sender(w) /\ Aside(z, t) /\ t.tlp = z.tlp
    BY <1>7, <1>13 DEF Sender, Aside
  <2> QED BY <1>13, <2>1, SafeAside
<1>15. Safe(c, y, w)
  BY <1>2, <1>9, <1>11, SafeOn
<1>16. Safe(c, z, w)
  BY <1>2, <1>13, <1>15, SafeOn
<1> QED BY <1>1, <1>2, <1>14, <1>16, SafeOn

------------------------------------------------------------------------------
(* The receiver.                                                           *)

\* The order in which three runs of bytes are put together does not matter.
LEMMA ConcatNat ==
  ASSUME NEW x \in Seq(Nat), NEW y \in Seq(Nat), NEW z \in Seq(Nat)
  PROVE  (x \o y) \o z = x \o (y \o z)
BY ConcatAssociative

\* Runs that meet make one run.
LEMMA RunsJoin ==
  ASSUME NEW a \in Nat, NEW b \in Nat, NEW c \in Nat, a <= b, b <= c
  PROVE  Stream!Run(a, b) \o Stream!Run(b, c) = Stream!Run(a, c)
<1> DEFINE x == Stream!Run(a, b)
           y == Stream!Run(b, c)
           z == Stream!Run(a, c)
<1>1. x \in Seq(Nat) /\ Len(x) = b - a /\ \A i \in 1 .. (b - a) : x[i] = a + i - 1
  BY DEF Stream!Run
<1>2. y \in Seq(Nat) /\ Len(y) = c - b /\ \A i \in 1 .. (c - b) : y[i] = b + i - 1
  BY DEF Stream!Run
<1>3. z \in Seq(Nat) /\ Len(z) = c - a /\ \A i \in 1 .. (c - a) : z[i] = a + i - 1
  BY DEF Stream!Run
<1> HIDE DEF x, y, z
<1>4. x \o y \in Seq(Nat) /\ Len(x \o y) = c - a
  <2>1. x \o y \in Seq(Nat) /\ Len(x \o y) = Len(x) + Len(y)
    BY <1>1, <1>2, ConcatProperties
  <2>2. (b - a) + (c - b) = c - a
    OBVIOUS
  <2> QED BY <1>1, <1>2, <2>1, <2>2
<1>5. ASSUME NEW i \in 1 .. (c - a)
      PROVE  (x \o y)[i] = z[i]
  <2>1. CASE i <= b - a
    BY <1>1, <1>2, <1>3, <2>1, ConcatProperties
  <2>2. CASE ~(i <= b - a)
    <3>1. (x \o y)[i] = y[i - (b - a)]
      BY <1>1, <1>2, <2>2, ConcatProperties
    <3>2. i - (b - a) \in 1 .. (c - b)
      BY <2>2
    <3> QED BY <1>2, <1>3, <3>1, <3>2
  <2> QED BY <2>1, <2>2
<1>6. x \o y = z
  BY <1>3, <1>4, <1>5, SeqEqual
<1> QED BY <1>6 DEF x, y, z

\* Where the bytes held without a gap end.
LEMMA ChainEnds ==
  ASSUME NEW n \in Nat, NEW held, held \subseteq 0 .. n, NEW from \in Nat
  PROVE  /\ ChainEnd(held, from) \in Nat
         /\ from <= ChainEnd(held, from)
         /\ \A b \in from .. (ChainEnd(held, from) - 1) : b \in held
<1>1. IsFiniteSet(held) /\ Cardinality(held) \in Nat
  <2>1. IsFiniteSet(0 .. n)
    BY FS_Interval
  <2>2. held \in SUBSET (0 .. n)
    OBVIOUS
  <2>3. IsFiniteSet(held)
    BY <2>1, <2>2, FS_Subset
  <2> QED BY <2>3, FS_CardinalityType
<1> DEFINE k == Cardinality(held)
           S == {to \in from .. (from + k) : to \notin held}
<1>2. S # {}
  <2> SUFFICES ASSUME S = {} PROVE FALSE
    OBVIOUS
  <2>1. from .. (from + k) \subseteq held
    OBVIOUS
  <2>2. Cardinality(from .. (from + k)) <= k
    BY <1>1, <2>1, FS_Subset
  <2>3. Cardinality(from .. (from + k)) = k + 1
    BY <1>1, FS_Interval
  <2> QED BY <1>1, <2>2, <2>3
<1>3. S \subseteq Nat
  BY <1>1
<1>4. Min(S) \in S /\ \A m \in S : Min(S) <= m
  BY <1>2, <1>3, MinNatural
<1>5. PICK e : e = Min(S)
  OBVIOUS
<1>6. e \in Nat /\ from <= e /\ e <= from + k
  BY <1>1, <1>4, <1>5
<1>7. \A b \in from .. (e - 1) : b \in held
  <2> SUFFICES ASSUME NEW b \in from .. (e - 1), b \notin held PROVE FALSE
    OBVIOUS
  <2>1. b \in S
    BY <1>1, <1>6
  <2>2. e <= b
    BY <1>4, <1>5, <2>1
  <2> QED BY <1>6, <2>2
<1>8. ChainEnd(held, from) = e
  BY <1>5 DEF ChainEnd
<1> QED BY <1>6, <1>7, <1>8

------------------------------------------------------------------------------
(* The inductive invariant.                                                *)

Reached == Arrived \union history.dropped

SenderInv == Good(tx, written) /\ tx.out = {} /\ tx.tlp <= MaxTLPs

WireInv ==
  /\ wire \subseteq Pk(written)
  /\ \A q \in wire : q.pn <= tx.next
  /\ \A q \in wire : \A p \in tx.list : p.pn = q.pn => p = q

ReceiverInv ==
  /\ rx \in [got : SUBSET (0 .. tx.next), due : BOOLEAN, inbox : SUBSET Fr(written),
             recvSize : 0 .. written, held : SUBSET (0 .. (written - 1)), open : BOOLEAN]
  /\ 0 \in rx.got
  /\ Cardinality(rx.held) <= RxMax
  /\ history \in [cut : BOOLEAN, dropped : SUBSET Nat]

\* Unless one was cut, an ACK frame tells the truth.
AckInv ==
  /\ acks \subseteq [largest : Nat, missing : SUBSET Nat]
  /\ ~history.cut =>
       \A a \in acks : \A n \in 0 .. a.largest : n \notin a.missing => n \in rx.got

\* What the receiver got is kept there.
GotInv ==
  \A p \in tx.list : p.pn \in rx.got => BytesOf(p.frames) \subseteq Reached

Kept == ~history.cut => 0 .. (written - 1) \subseteq Has(tx) \union Reached

HandedOver == app = Stream!Run(0, rx.recvSize)

IInv ==
  /\ written \in 0 .. Total
  /\ SenderInv
  /\ WireInv
  /\ ReceiverInv
  /\ AckInv
  /\ GotInv
  /\ Kept
  /\ HandedOver

\* A step of the sender that goes from c, which may hold more written bytes
\* and less of what arrived than tx, to t.
LEMMA SenderStep ==
  ASSUME IInv, NEW c, NEW t,
         written' \in 0 .. Total, written <= written',
         Good(c, written'), c.next = tx.next, c.out = {}, c.list \subseteq tx.list,
         ~history.cut => 0 .. (written' - 1) \subseteq Has(c) \union Reached,
         Good(t, written'), Keeps(c, t), t.tlp <= MaxTLPs,
         tx' = [t EXCEPT !.out = {}], wire' = wire \union t.out,
         UNCHANGED <<rx, app, history>>, acks' \subseteq acks
  PROVE  IInv'
<1>1. PICK w : w = written'
  OBVIOUS
<1>2. PICK v : v = tx'
  OBVIOUS
<1>3. PICK W : W = wire'
  OBVIOUS
<1>4. /\ written \in 0 .. Total /\ w \in 0 .. Total /\ written <= w
      /\ written \in Nat /\ w \in Nat
  BY <1>1, QuicStreamAssumption DEF IInv
<1>5. Good(t, w) /\ Good(c, w) /\ t \in Sender(w) /\ c \in Sender(w)
  BY <1>1 DEF Good
<1>6. /\ v.list = t.list /\ v.queue = t.queue /\ v.next = t.next /\ v.tlp = t.tlp
      /\ v.out = {} /\ v \in Sender(w)
  BY <1>2, <1>5 DEF Sender
<1>7. Good(v, w)
  <2>1. Numbers(v) \subseteq Numbers(t)
    BY <1>6 DEF Numbers
  <2> QED BY <1>5, <1>6, <2>1 DEF Good
<1>8. SenderInv'
  BY <1>1, <1>2, <1>6, <1>7 DEF SenderInv, Good
<1>9. /\ tx.next \in Nat /\ t.next \in Nat /\ tx.next <= t.next
  BY <1>5 DEF Keeps, Sender
<1>10. Fr(written) \subseteq Fr(w) /\ Pk(written) \subseteq Pk(w)
  BY <1>4, FrGrows
<1>11. /\ wire \subseteq Pk(w) /\ t.out \subseteq Pk(w) /\ t.list \subseteq Pk(w)
       /\ \A p \in Pk(w) : p.pn \in Nat
  BY <1>5, <1>10 DEF IInv, WireInv, Sender, Pk
<1>12. \A p \in t.out : p.pn > tx.next
  BY DEF Keeps
<1>13. \A p \in t.list : p \in tx.list \/ (p \in t.out /\ p.pn > tx.next)
  BY DEF Keeps
<1>14. WireInv'
  <2>1. W \subseteq Pk(w)
    BY <1>3, <1>11
  <2>2. ASSUME NEW q \in W PROVE q.pn <= v.next
    <3>1. CASE q \in wire
      BY <1>6, <1>9, <1>11, <3>1 DEF IInv, WireInv
    <3>2. CASE q \in t.out
      BY <1>5, <1>6, <3>2 DEF Good, Numbers
    <3> QED BY <1>3, <3>1, <3>2
  <2>3. ASSUME NEW q \in W, NEW p \in v.list, p.pn = q.pn PROVE p = q
    <3>1. q \in wire => q.pn <= tx.next
      BY DEF IInv, WireInv
    <3>2. q.pn \in Nat /\ p.pn \in Nat
      BY <1>6, <1>11, <2>1
    <3>3. CASE q \in wire /\ p \in tx.list
      BY <2>3, <3>3 DEF IInv, WireInv
    <3>4. CASE q \in wire /\ p.pn > tx.next
      BY <1>9, <2>3, <3>1, <3>2, <3>4
    <3>5. CASE q \in t.out
      BY <1>5, <1>6, <2>3, <3>5 DEF Good, Numbers
    <3> QED BY <1>3, <1>6, <1>13, <3>3, <3>4, <3>5
  <2> QED BY <1>1, <1>2, <1>3, <2>1, <2>2, <2>3 DEF WireInv
<1>15. rx \in [got : SUBSET (0 .. tx.next), due : BOOLEAN, inbox : SUBSET Fr(written),
               recvSize : 0 .. written, held : SUBSET (0 .. (written - 1)), open : BOOLEAN]
  BY DEF IInv, ReceiverInv
<1>16. ReceiverInv'
  <2>1. rx \in [got : SUBSET (0 .. v.next), due : BOOLEAN, inbox : SUBSET Fr(w),
                recvSize : 0 .. w, held : SUBSET (0 .. (w - 1)), open : BOOLEAN]
    <3>1. 0 .. tx.next \subseteq 0 .. v.next
      BY <1>6, <1>9
    <3>2. 0 .. written \subseteq 0 .. w /\ 0 .. (written - 1) \subseteq 0 .. (w - 1)
      BY <1>4
    <3> QED BY <1>10, <1>15, <3>1, <3>2
  <2> QED BY <1>1, <1>2, <2>1 DEF IInv, ReceiverInv
<1>17. AckInv'
  BY DEF IInv, AckInv
<1>18. Reached' = Reached
  BY DEF Reached, Arrived
<1>19. GotInv'
  <2>1. ASSUME NEW p \in v.list, p.pn \in rx.got PROVE BytesOf(p.frames) \subseteq Reached
    <3>1. p.pn \in Nat /\ p.pn <= tx.next
      BY <1>9, <1>15, <2>1
    <3>2. p \in tx.list
      BY <1>6, <1>9, <1>13, <3>1
    <3> QED BY <2>1, <3>2 DEF IInv, GotInv
  <2> QED BY <1>2, <1>18, <2>1 DEF GotInv
<1>20. Kept'
  <2>1. Has(v) = Has(t)
    BY <1>6 DEF Has
  <2>2. ~history.cut => 0 .. (w - 1) \subseteq Has(v) \union Reached
    BY <1>1, <2>1 DEF Keeps
  <2> QED BY <1>1, <1>2, <1>18, <2>2 DEF Kept
<1>21. HandedOver'
  BY DEF IInv, HandedOver
<1> QED BY <1>1, <1>4, <1>8, <1>14, <1>16, <1>17, <1>19, <1>20, <1>21 DEF IInv

------------------------------------------------------------------------------
(* The steps of the sender.                                                *)

\* What the steps of the sender start from.
LEMMA SenderNow ==
  ASSUME IInv
  PROVE  /\ written \in 0 .. Total /\ Good(tx, written) /\ tx \in Sender(written)
         /\ tx.out = {} /\ tx.tlp <= MaxTLPs /\ tx.tlp \in Nat
         /\ ~history.cut => 0 .. (written - 1) \subseteq Has(tx) \union Reached
BY DEF IInv, SenderInv, Kept, Good, Sender

\* A frame that the stream passes to the socket joins the queue.
Appended(s, frame) == [s EXCEPT !.queue = @ \union {frame}]

Written(w, v) == [from |-> w, to |-> v, retx |-> FALSE]

LEMMA AppendedGood ==
  ASSUME NEW w \in 0 .. Total, NEW v \in 0 .. Total, w < v, NEW s, Good(s, w),
         NEW frame, frame = Written(w, v), NEW c, c = Appended(s, frame)
  PROVE  /\ Good(c, v) /\ Bytes(frame) = w .. (v - 1)
         /\ c.list = s.list /\ c.next = s.next /\ c.out = s.out /\ c.tlp = s.tlp
         /\ c.armed = s.armed /\ c.queue = s.queue \union {frame}
<1>1. w \in Nat /\ v \in Nat /\ v <= v /\ w <= v /\ s \in Sender(w)
  BY QuicStreamAssumption DEF Good
<1>2. frame \in Fr(v)
  <2>1. PICK no : no = FALSE
    OBVIOUS
  <2>2. no \in BOOLEAN
    BY <2>1
  <2>3. [from |-> w, to |-> v, retx |-> no] \in Fr(v)
    BY <1>1, <2>2, MakeFr
  <2> QED BY <2>1, <2>3 DEF Written
<1>3. Bytes(frame) = w .. (v - 1)
  BY DEF Bytes, Written
<1>4. /\ c.list = s.list /\ c.next = s.next /\ c.out = s.out /\ c.tlp = s.tlp
      /\ c.armed = s.armed /\ c.queue = s.queue \union {frame}
  BY <1>1 DEF Appended, Sender
<1>5. c \in Sender(v)
  <2>1. Fr(w) \subseteq Fr(v) /\ Pk(w) \subseteq Pk(v)
    BY <1>1, FrGrows
  <2>2. s \in Sender(v)
    BY <1>1, <2>1 DEF Sender
  <2>3. PICK Q : Q = s.queue \union {frame}
    OBVIOUS
  <2>4. Q \in SUBSET Fr(v)
    BY <1>2, <2>2, <2>3 DEF Sender
  <2>5. c = [s EXCEPT !.queue = Q]
    BY <2>2, <2>3 DEF Appended, Sender
  <2> QED BY <2>2, <2>4, <2>5 DEF Sender
<1>6. Good(c, v)
  <2>1. Numbers(c) = Numbers(s)
    BY <1>4 DEF Numbers
  <2> QED BY <1>4, <1>5, <2>1 DEF Good
<1> QED BY <1>3, <1>4, <1>6

LEMMA AppendingTxStep ==
  ASSUME IInv, AppendingTx
  PROVE  IInv' /\ written' \in (written + 1) .. Total /\ app' = app
<1>1. PICK size \in WriteSizes :
        /\ written + size <= Total
        /\ written' = written + size
        /\ LET frame == [from |-> written, to |-> written + size, retx |-> FALSE]
           IN Becomes(SendPendingData([tx EXCEPT !.queue = @ \union {frame}]))
        /\ UNCHANGED <<rx, app, acks, troubles, history>>
  BY DEF AppendingTx
<1>2. PICK w : w = written
  OBVIOUS
<1>3. PICK v : v = written'
  OBVIOUS
<1>4. PICK frame : frame = Written(w, v)
  OBVIOUS
<1>5. PICK s : s = tx
  OBVIOUS
<1>6. PICK c : c = Appended(s, frame)
  OBVIOUS
<1>7. /\ w \in 0 .. Total /\ Good(s, w) /\ s \in Sender(w) /\ s.out = {}
      /\ s.tlp <= MaxTLPs /\ s.tlp \in Nat
      /\ ~history.cut => 0 .. (w - 1) \subseteq Has(s) \union Reached
  BY <1>2, <1>5, SenderNow
<1>8. size \in Nat /\ size >= 1 /\ w \in Nat /\ v = w + size /\ v <= Total /\ v \in 0 .. Total
  <2>1. size \in Nat /\ size >= 1
    BY QuicStreamAssumption
  <2> QED BY <1>1, <1>2, <1>3, <1>7, <2>1, QuicStreamAssumption
<1>9. v \in Nat /\ w < v
  BY <1>8, QuicStreamAssumption
<1>10. Becomes(SendPendingData(c))
  BY <1>1, <1>2, <1>3, <1>4, <1>5, <1>6 DEF Written, Appended
<1>11. PICK t \in SendPendingData(c) : tx' = [t EXCEPT !.out = {}] /\ wire' = wire \union t.out
  BY <1>10 DEF Becomes
<1>12. /\ Good(c, v) /\ Bytes(frame) = w .. (v - 1)
       /\ c.list = s.list /\ c.next = s.next /\ c.out = s.out /\ c.tlp = s.tlp
       /\ c.queue = s.queue \union {frame}
  BY <1>4, <1>6, <1>7, <1>8, <1>9, AppendedGood
<1>16. Has(s) \union (w .. (v - 1)) \subseteq Has(c)
  <2>1. BytesOf(c.queue) = BytesOf(s.queue) \union BytesOf({frame})
    BY <1>12, BytesOfUnion
  <2>2. BytesOf({frame}) = w .. (v - 1)
    BY <1>12 DEF BytesOf
  <2> QED BY <1>12, <2>1, <2>2 DEF Has
<1>17. ~history.cut => 0 .. (v - 1) \subseteq Has(c) \union Reached
  <2>1. 0 .. (v - 1) \subseteq (0 .. (w - 1)) \union (w .. (v - 1))
    BY <1>8, <1>9
  <2> QED BY <1>7, <1>16, <2>1
<1>18. Safe(c, t, v)
  BY <1>8, <1>11, <1>12, PendingSafe
<1>19. Good(t, v) /\ Keeps(c, t) /\ t.tlp <= MaxTLPs
  BY <1>7, <1>12, <1>18 DEF Safe
<1>20. /\ written' \in 0 .. Total /\ written <= written' /\ Good(c, written')
       /\ c.next = tx.next /\ c.out = {} /\ c.list \subseteq tx.list
       /\ ~history.cut => 0 .. (written' - 1) \subseteq Has(c) \union Reached
       /\ Good(t, written')
       /\ UNCHANGED <<rx, app, history>> /\ acks' \subseteq acks
  BY <1>1, <1>2, <1>3, <1>5, <1>7, <1>8, <1>9, <1>12, <1>17, <1>19
<1>21. IInv'
  BY <1>11, <1>19, <1>20, SenderStep
<1> QED BY <1>1, <1>2, <1>3, <1>8, <1>9, <1>21, QuicStreamAssumption

LEMMA PacingStep ==
  ASSUME IInv, NotifyPacingPerformed
  PROVE  IInv'
<1>1. PICK w : w = written
  OBVIOUS
<1>2. PICK s : s = tx
  OBVIOUS
<1>3. PICK c : c = [s EXCEPT !.pacing = FALSE]
  OBVIOUS
<1>4. /\ w \in 0 .. Total /\ Good(s, w) /\ s \in Sender(w) /\ s.out = {}
      /\ s.tlp <= MaxTLPs
      /\ ~history.cut => 0 .. (w - 1) \subseteq Has(s) \union Reached
  BY <1>1, <1>2, SenderNow
<1>5. PICK t \in SendPendingData(c) : tx' = [t EXCEPT !.out = {}] /\ wire' = wire \union t.out
  BY <1>2, <1>3 DEF NotifyPacingPerformed, Becomes
<1>6. c \in Sender(w) /\ Aside(s, c) /\ c.tlp = s.tlp
  BY <1>3, <1>4 DEF Sender, Aside
<1>7. Good(c, w) /\ Has(c) = Has(s) /\ c.next = s.next /\ c.out = {} /\ c.list = s.list
  BY <1>4, <1>6, AsideKeeps DEF Aside, Has
<1>8. Safe(c, t, w)
  BY <1>4, <1>5, <1>7, PendingSafe
<1>9. Good(t, w) /\ Keeps(c, t) /\ t.tlp <= MaxTLPs
  BY <1>4, <1>6, <1>8 DEF Safe
<1>10. UNCHANGED <<written, rx, app, acks, history>>
  BY DEF NotifyPacingPerformed
<1>11. /\ written' \in 0 .. Total /\ written <= written' /\ Good(c, written')
       /\ c.next = tx.next /\ c.out = {} /\ c.list \subseteq tx.list
       /\ ~history.cut => 0 .. (written' - 1) \subseteq Has(c) \union Reached
       /\ Good(t, written')
       /\ UNCHANGED <<rx, app, history>> /\ acks' \subseteq acks
  BY <1>1, <1>2, <1>4, <1>7, <1>9, <1>10, QuicStreamAssumption
<1> QED BY <1>5, <1>9, <1>11, SenderStep

LEMMA AlarmStep ==
  ASSUME IInv, Alarm
  PROVE  IInv'
<1>1. PICK w : w = written
  OBVIOUS
<1>2. PICK s : s = tx
  OBVIOUS
<1>3. /\ w \in 0 .. Total /\ Good(s, w) /\ s \in Sender(w) /\ s.out = {}
      /\ s.tlp <= MaxTLPs /\ s.tlp \in Nat
      /\ ~history.cut => 0 .. (w - 1) \subseteq Has(s) \union Reached
  BY <1>1, <1>2, SenderNow
<1>4. PICK t \in ReTxTimeout(s) : tx' = [t EXCEPT !.out = {}] /\ wire' = wire \union t.out
  BY <1>2 DEF Alarm, Becomes
<1>5. /\ Good(t, w) /\ Keeps(s, t)
      /\ t.tlp = s.tlp \/ (s.tlp < MaxTLPs /\ t.tlp = s.tlp + 1)
  BY <1>3, <1>4, AlarmKeeps
<1>6. t.tlp <= MaxTLPs
  BY <1>3, <1>5, QuicStreamAssumption
<1>7. UNCHANGED <<written, rx, app, acks, history>>
  BY DEF Alarm
<1>8. /\ written' \in 0 .. Total /\ written <= written' /\ Good(s, written')
      /\ s.next = tx.next /\ s.out = {} /\ s.list \subseteq tx.list
      /\ ~history.cut => 0 .. (written' - 1) \subseteq Has(s) \union Reached
      /\ Good(t, written')
      /\ UNCHANGED <<rx, app, history>> /\ acks' \subseteq acks
  BY <1>1, <1>2, <1>3, <1>5, <1>7, QuicStreamAssumption
<1> QED BY <1>4, <1>5, <1>6, <1>8, SenderStep

\* Without a cut ACK frame, what is taken off the list is with the receiver.
LEMMA AckStep ==
  ASSUME IInv, NEW ack \in acks, ReceiveAck(ack)
  PROVE  IInv'
<1>1. PICK w : w = written
  OBVIOUS
<1>2. PICK s : s = tx
  OBVIOUS
<1>3. PICK c : c = Cleaned(s, ack)
  OBVIOUS
<1>4. /\ w \in 0 .. Total /\ Good(s, w) /\ s \in Sender(w) /\ s.out = {}
      /\ s.tlp <= MaxTLPs /\ s.tlp \in Nat
      /\ ~history.cut => 0 .. (w - 1) \subseteq Has(s) \union Reached
  BY <1>1, <1>2, SenderNow
<1>5. PICK t \in OnReceivedAckFrame(s, ack) :
        tx' = [t EXCEPT !.out = {}] /\ wire' = wire \union t.out
  BY <1>2 DEF ReceiveAck, Becomes
<1>6. /\ Good(c, w) /\ c.next = s.next /\ c.out = s.out /\ c.list = s.list \ Sacked(s, ack)
      /\ c.tlp \in {0, s.tlp}
      /\ Has(s) \subseteq Has(c) \union BytesOf(UNION {p.frames : p \in Sacked(s, ack)})
  BY <1>3, <1>4, CleanedGood
<1>7. Safe(c, t, w)
  BY <1>3, <1>4, <1>5, AckKeeps
<1>8. Good(t, w) /\ Keeps(c, t) /\ t.tlp <= MaxTLPs
  BY <1>4, <1>6, <1>7, QuicStreamAssumption DEF Safe
<1>9. ~history.cut => BytesOf(UNION {p.frames : p \in Sacked(s, ack)}) \subseteq Reached
  <2> SUFFICES ASSUME ~history.cut, NEW p \in Sacked(s, ack)
               PROVE  BytesOf(p.frames) \subseteq Reached
    BY DEF BytesOf
  <2>1. p \in s.list /\ p.pn <= ack.largest /\ p.pn \notin ack.missing
    BY DEF Sacked
  <2>2. p.pn \in Nat /\ ack.largest \in Nat
    BY <1>4, <2>1 DEF Sender, Pk, IInv, AckInv
  <2>3. p.pn \in rx.got
    BY <2>1, <2>2 DEF IInv, AckInv
  <2> QED BY <1>2, <2>1, <2>3 DEF IInv, GotInv
<1>10. ~history.cut => 0 .. (w - 1) \subseteq Has(c) \union Reached
  BY <1>4, <1>6, <1>9
<1>11. UNCHANGED <<written, rx, app, history>> /\ acks' \subseteq acks
  BY DEF ReceiveAck
<1>12. /\ written' \in 0 .. Total /\ written <= written' /\ Good(c, written')
       /\ c.next = tx.next /\ c.out = {} /\ c.list \subseteq tx.list
       /\ ~history.cut => 0 .. (written' - 1) \subseteq Has(c) \union Reached
       /\ Good(t, written')
       /\ UNCHANGED <<rx, app, history>>
  BY <1>1, <1>2, <1>4, <1>6, <1>8, <1>10, <1>11, QuicStreamAssumption
<1> QED BY <1>5, <1>8, <1>11, <1>12, SenderStep

------------------------------------------------------------------------------
(* The steps of the receiver and of the network.                           *)

\* The receiver's record, field by field.
LEMMA ReceiverNow ==
  ASSUME IInv
  PROVE  /\ written \in 0 .. Total /\ written \in Nat
         /\ rx = [got |-> rx.got, due |-> rx.due, inbox |-> rx.inbox,
                  recvSize |-> rx.recvSize, held |-> rx.held, open |-> rx.open]
         /\ rx.got \subseteq 0 .. tx.next /\ 0 \in rx.got /\ rx.due \in BOOLEAN
         /\ rx.inbox \subseteq Fr(written) /\ rx.open \in BOOLEAN
         /\ rx.recvSize \in Nat /\ rx.recvSize <= written
         /\ rx.held \subseteq 0 .. (written - 1)
         /\ Cardinality(rx.held) <= RxMax
         /\ history \in [cut : BOOLEAN, dropped : SUBSET Nat]
         /\ tx.next \in Nat
<1>1. written \in 0 .. Total /\ written \in Nat
  BY QuicStreamAssumption DEF IInv
<1>2. tx.next \in Nat
  BY DEF IInv, SenderInv, Good, Sender
<1> QED BY <1>1, <1>2 DEF IInv, ReceiverInv

\* A step that only changes the receiver.
LEMMA ReceiverStep ==
  ASSUME IInv, UNCHANGED <<written, tx, wire, acks>>,
         rx.got \subseteq rx'.got, Reached \subseteq Reached',
         history.cut = history'.cut,
         \A p \in tx.list : p.pn \in rx'.got => p.pn \in rx.got,
         ReceiverInv', HandedOver'
  PROVE  IInv'
<1>1. written' \in 0 .. Total /\ SenderInv' /\ WireInv'
  BY DEF IInv, SenderInv, WireInv
<1>2. AckInv'
  BY DEF IInv, AckInv
<1>3. GotInv'
  BY DEF IInv, GotInv
<1>4. Kept'
  BY DEF IInv, Kept, Has
<1> QED BY <1>1, <1>2, <1>3, <1>4 DEF IInv

LEMMA ArriveStep ==
  ASSUME IInv, NEW packet \in wire, Arrive(packet)
  PROVE  IInv'
<1>1. /\ UNCHANGED <<written, tx, app, acks, history>>
      /\ rx.inbox = {} /\ wire' = wire \ {packet}
      /\ rx' = [rx EXCEPT !.got = @ \union {packet.pn}, !.due = TRUE, !.inbox = packet.frames]
  BY DEF Arrive
<1>2. packet \in Pk(written) /\ packet.pn \in Nat /\ packet.pn <= tx.next
      /\ packet.frames \subseteq Fr(written)
  BY DEF IInv, WireInv, Pk
<1>3. /\ rx'.got = rx.got \union {packet.pn} /\ rx'.inbox = packet.frames
      /\ rx'.recvSize = rx.recvSize /\ rx'.held = rx.held
  BY <1>1, ReceiverNow
<1>4. Reached' = Reached \union BytesOf(packet.frames)
  BY <1>1, <1>3 DEF Reached, Arrived, BytesOf
<1>5. ReceiverInv'
  <2>1. rx.got \union {packet.pn} \subseteq 0 .. tx.next
    BY <1>2, ReceiverNow
  <2>2. rx' \in [got : SUBSET (0 .. tx.next), due : BOOLEAN, inbox : SUBSET Fr(written),
                 recvSize : 0 .. written, held : SUBSET (0 .. (written - 1)), open : BOOLEAN]
    BY <1>1, <1>2, <2>1 DEF IInv, ReceiverInv
  <2>3. tx' = tx /\ written' = written /\ history' = history
    BY <1>1
  <2> QED BY <1>3, <2>2, <2>3, ReceiverNow DEF ReceiverInv
<1>6. written' \in 0 .. Total /\ SenderInv' /\ WireInv'
  BY <1>1 DEF IInv, SenderInv, WireInv
<1>7. AckInv'
  BY <1>1, <1>3 DEF IInv, AckInv
<1>8. GotInv'
  <2> SUFFICES ASSUME NEW p \in tx.list, p.pn \in rx'.got
               PROVE  BytesOf(p.frames) \subseteq Reached'
    BY <1>1 DEF GotInv
  <2>1. CASE p.pn \in rx.got
    BY <1>4, <2>1 DEF IInv, GotInv
  <2>2. CASE p.pn = packet.pn
    <3>1. p = packet
      BY <2>2 DEF IInv, WireInv
    <3> QED BY <1>4, <3>1
  <2> QED BY <1>3, <2>1, <2>2
<1>9. Kept'
  BY <1>1, <1>4 DEF IInv, Kept, Has
<1>10. HandedOver'
  BY <1>1, <1>3 DEF IInv, HandedOver
<1> QED BY <1>5, <1>6, <1>7, <1>8, <1>9, <1>10 DEF IInv

\* What the application is handed continues what it had.
LEMMA RecvInOrderStep ==
  ASSUME IInv, rx.inbox # {}, UNCHANGED <<written, tx, wire, acks, troubles>>,
         RecvInOrder(First(rx.inbox))
  PROVE  /\ IInv'
         /\ rx'.recvSize \in (rx.recvSize + 1) .. written
         /\ app' = app \o Stream!Run(rx.recvSize, rx'.recvSize)
<1>1. PICK frame : frame = First(rx.inbox)
  OBVIOUS
<1>2. frame \in rx.inbox /\ frame \in Fr(written)
  BY <1>1, ReceiverNow, FirstFrame
<1>3. /\ frame.from \in Nat /\ frame.to \in Nat /\ frame.from < frame.to /\ frame.to <= written
  BY <1>2, ReceiverNow, FrFields
<1>4. PICK end : end = ChainEnd(rx.held, frame.to)
  OBVIOUS
<1>5. /\ frame.from <= rx.recvSize
      /\ frame.from = rx.recvSize \/ frame.to > rx.recvSize
      /\ app' = app \o Stream!Run(rx.recvSize, frame.to) \o Stream!Run(frame.to, end)
      /\ rx' = [rx EXCEPT !.inbox = @ \ {frame},
                          !.recvSize = end,
                          !.held = IF end > frame.to THEN {b \in @ : b >= end} ELSE @]
      /\ history' = history
  BY <1>1, <1>4 DEF RecvInOrder
<1>6. /\ end \in Nat /\ frame.to <= end
      /\ \A b \in frame.to .. (end - 1) : b \in rx.held
  <2>1. rx.held \subseteq 0 .. written
    BY ReceiverNow
  <2> QED BY <1>3, <1>4, <2>1, ReceiverNow, ChainEnds
<1>7. end <= written
  <2>1. CASE end = frame.to
    BY <1>3, <2>1
  <2>2. CASE end # frame.to
    <3>1. end - 1 \in frame.to .. (end - 1)
      BY <1>3, <1>6, <2>2
    <3>2. end - 1 \in 0 .. (written - 1)
      BY <1>6, <3>1, ReceiverNow
    <3> QED BY <1>6, <3>2, ReceiverNow
  <2> QED BY <2>1, <2>2
<1>8. rx.recvSize < frame.to /\ rx.recvSize \in Nat
  BY <1>3, <1>5, ReceiverNow
<1>9. PICK H : H = IF end > frame.to THEN {b \in rx.held : b >= end} ELSE rx.held
  OBVIOUS
<1>10. H \subseteq rx.held
  BY <1>9
<1>11. rx' = [rx EXCEPT !.inbox = @ \ {frame}, !.recvSize = end, !.held = H]
  BY <1>5, <1>9, ReceiverNow
<1>12. /\ rx'.got = rx.got /\ rx'.inbox = rx.inbox \ {frame} /\ rx'.recvSize = end
       /\ rx'.held = H
  BY <1>11, ReceiverNow
<1>13. ReceiverInv'
  <2>1. rx' \in [got : SUBSET (0 .. tx.next), due : BOOLEAN, inbox : SUBSET Fr(written),
                 recvSize : 0 .. written, held : SUBSET (0 .. (written - 1)), open : BOOLEAN]
    <3>1. PICK I : I = rx.inbox \ {frame}
      OBVIOUS
    <3>2. end \in 0 .. written /\ H \in SUBSET (0 .. (written - 1)) /\ I \in SUBSET Fr(written)
      BY <1>6, <1>7, <1>10, <3>1, ReceiverNow
    <3>3. rx' = [rx EXCEPT !.inbox = I, !.recvSize = end, !.held = H]
      BY <1>11, <3>1, ReceiverNow
    <3>4. rx \in [got : SUBSET (0 .. tx.next), due : BOOLEAN, inbox : SUBSET Fr(written),
                  recvSize : 0 .. written, held : SUBSET (0 .. (written - 1)), open : BOOLEAN]
      BY DEF IInv, ReceiverInv
    <3> QED BY <3>2, <3>3, <3>4
  <2>2. Cardinality(H) <= RxMax
    <3>1. IsFiniteSet(0 .. (written - 1))
      BY FS_Interval, ReceiverNow
    <3>2. rx.held \in SUBSET (0 .. (written - 1)) /\ H \in SUBSET rx.held
      BY <1>10, ReceiverNow
    <3>3. IsFiniteSet(rx.held)
      BY <3>1, <3>2, FS_Subset
    <3>4. IsFiniteSet(H) /\ Cardinality(H) <= Cardinality(rx.held)
      BY <3>2, <3>3, FS_Subset
    <3>5. Cardinality(H) \in Nat /\ Cardinality(rx.held) \in Nat
      BY <3>3, <3>4, FS_CardinalityType
    <3> QED BY <3>4, <3>5, ReceiverNow, QuicStreamAssumption
  <2>3. tx' = tx /\ written' = written /\ history' = history
    BY <1>5
  <2> QED BY <1>12, <2>1, <2>2, <2>3, ReceiverNow DEF ReceiverInv
<1>14. Reached \subseteq Reached'
  <2>1. 0 .. (rx.recvSize - 1) \subseteq 0 .. (end - 1)
    BY <1>3, <1>6, <1>8
  <2>2. rx.held \subseteq (0 .. (end - 1)) \union H
    BY <1>6, <1>9, ReceiverNow
  <2>3. Bytes(frame) \subseteq 0 .. (end - 1)
    BY <1>3, <1>6 DEF Bytes
  <2>4. BytesOf(rx.inbox) \subseteq Bytes(frame) \union BytesOf(rx.inbox \ {frame})
    BY DEF BytesOf
  <2>5. Reached' = ((0 .. (end - 1)) \union H \union BytesOf(rx.inbox \ {frame}))
                     \union history.dropped
    BY <1>5, <1>12 DEF Reached, Arrived, BytesOf, Bytes
  <2> QED BY <2>1, <2>2, <2>3, <2>4, <2>5 DEF Reached, Arrived
<1>15. app' = app \o Stream!Run(rx.recvSize, end) /\ app' = Stream!Run(0, end)
  <2>1. \A a, b \in Nat : Stream!Run(a, b) \in Seq(Nat)
    BY DEF Stream!Run
  <2>2. PICK r : r = rx.recvSize
    OBVIOUS
  <2>3. PICK m : m = frame.to
    OBVIOUS
  <2>4. r \in Nat /\ m \in Nat /\ r <= m /\ m <= end /\ 0 <= r
    BY <1>3, <1>6, <1>8, <2>2, <2>3
  <2>5. app = Stream!Run(0, r)
    BY <2>2 DEF IInv, HandedOver
  <2>6. /\ Stream!Run(0, r) \in Seq(Nat) /\ Stream!Run(r, m) \in Seq(Nat)
        /\ Stream!Run(m, end) \in Seq(Nat)
    BY <1>6, <2>1, <2>4
  <2>7. (Stream!Run(0, r) \o Stream!Run(r, m)) \o Stream!Run(m, end)
          = Stream!Run(0, r) \o (Stream!Run(r, m) \o Stream!Run(m, end))
    <3>1. PICK x \in Seq(Nat) : x = Stream!Run(0, r)
      BY <2>6
    <3>2. PICK y \in Seq(Nat) : y = Stream!Run(r, m)
      BY <2>6
    <3>3. PICK z \in Seq(Nat) : z = Stream!Run(m, end)
      BY <2>6
    <3>4. (x \o y) \o z = x \o (y \o z)
      BY ConcatNat
    <3> QED BY <3>1, <3>2, <3>3, <3>4
  <2>8. Stream!Run(r, m) \o Stream!Run(m, end) = Stream!Run(r, end)
    BY <1>6, <2>4, RunsJoin
  <2>9. Stream!Run(0, r) \o Stream!Run(r, end) = Stream!Run(0, end)
    <3>1. r <= end
      BY <1>6, <2>4
    <3> QED BY <1>6, <2>4, <3>1, RunsJoin
  <2>10. app' = (Stream!Run(0, r) \o Stream!Run(r, m)) \o Stream!Run(m, end)
    BY <1>5, <2>2, <2>3, <2>5
  <2> QED BY <2>2, <2>5, <2>7, <2>8, <2>9, <2>10
<1>16. HandedOver'
  BY <1>12, <1>15 DEF HandedOver, Stream!Run
<1>17. rx'.recvSize \in (rx.recvSize + 1) .. written
  BY <1>3, <1>6, <1>7, <1>8, <1>12, ReceiverNow
<1>18. IInv'
  BY <1>5, <1>12, <1>13, <1>14, <1>16, ReceiverStep
<1> QED BY <1>12, <1>15, <1>17, <1>18

\* A frame that comes too early keeps the application's bytes as they are.
LEMMA RecvBufferedStep ==
  ASSUME IInv, rx.inbox # {}, UNCHANGED <<written, tx, wire, acks, troubles>>,
         RecvBuffered(First(rx.inbox))
  PROVE  IInv' /\ app' = app
<1>1. PICK frame : frame = First(rx.inbox)
  OBVIOUS
<1>2. frame \in rx.inbox /\ frame \in Fr(written)
  BY <1>1, ReceiverNow, FirstFrame
<1>3. /\ frame.from \in Nat /\ frame.to \in Nat /\ frame.from < frame.to /\ frame.to <= written
  BY <1>2, ReceiverNow, FrFields
<1>4. PICK free : free = {b \in Bytes(frame) : b >= rx.recvSize /\ b \notin rx.held}
  OBVIOUS
<1>5. PICK room : room = RxMax - Cardinality(rx.held)
  OBVIOUS
<1>6. PICK ends : ends = {c \in frame.from .. frame.to : c \in free => c - 1 \notin free}
  OBVIOUS
<1>7. PICK kept :
        kept = {b \in free : b < Max({c \in ends \union {frame.from} :
                                        Cardinality({d \in free : d < c}) <= room})}
  OBVIOUS
<1>8. PICK open : open = (kept # {} \/ frame.to - frame.from <= room)
  OBVIOUS
<1>9. /\ rx' = [rx EXCEPT !.inbox = @ \ {frame}, !.held = @ \union kept, !.open = open]
      /\ history' = [history EXCEPT !.dropped = @ \union (free \ kept)]
      /\ app' = app
  BY <1>1, <1>4, <1>5, <1>6, <1>7, <1>8 DEF RecvBuffered
<1>10. /\ IsFiniteSet(rx.held) /\ Cardinality(rx.held) \in Nat /\ room \in Nat
  <2>1. IsFiniteSet(0 .. (written - 1))
    BY FS_Interval, ReceiverNow
  <2>2. rx.held \in SUBSET (0 .. (written - 1))
    BY ReceiverNow
  <2>3. IsFiniteSet(rx.held)
    BY <2>1, <2>2, FS_Subset
  <2>4. Cardinality(rx.held) \in Nat
    BY <2>3, FS_CardinalityType
  <2> QED BY <1>5, <2>3, <2>4, ReceiverNow, QuicStreamAssumption
<1>11. free \subseteq frame.from .. (frame.to - 1) /\ ends \subseteq frame.from .. frame.to
  BY <1>4, <1>6 DEF Bytes
<1>12. kept \subseteq free /\ Cardinality(kept) <= room
  <2>1. PICK S : S = {c \in ends \union {frame.from} : Cardinality({b \in free : b < c}) <= room}
    OBVIOUS
  <2>2. {b \in free : b < frame.from} = {}
    <3> SUFFICES ASSUME NEW b \in free, b < frame.from PROVE FALSE
      OBVIOUS
    <3>1. b \in frame.from .. (frame.to - 1)
      BY <1>11
    <3> QED BY <1>3, <3>1
  <2>3. Cardinality({b \in free : b < frame.from}) <= room
    BY <1>10, <2>2, FS_EmptySet
  <2>4. frame.from \in S
    BY <2>1, <2>3
  <2>5. S \subseteq 0 .. frame.to
    <3>1. frame.from .. frame.to \subseteq 0 .. frame.to /\ frame.from \in 0 .. frame.to
      BY <1>3
    <3>2. S \subseteq ends \union {frame.from}
      BY <2>1
    <3> QED BY <1>11, <3>1, <3>2
  <2>6. Max(S) \in S
    BY <1>3, <2>4, <2>5, MaxNatural
  <2>7. Cardinality({b \in free : b < Max(S)}) <= room
    BY <2>1, <2>6
  <2>8. kept = {b \in free : b < Max(S)}
    BY <1>7, <2>1
  <2> QED BY <2>7, <2>8
<1>13. kept \subseteq free
  BY <1>12
<1>14. kept \subseteq 0 .. (written - 1) /\ free \subseteq Nat
  BY <1>3, <1>11, <1>13, ReceiverNow
<1>15. PICK H : H = rx.held \union kept
  OBVIOUS
<1>16. H \subseteq 0 .. (written - 1) /\ Cardinality(H) <= RxMax
  <2>1. H \subseteq 0 .. (written - 1)
    BY <1>14, <1>15, ReceiverNow
  <2>2. IsFiniteSet(kept)
    <3>1. IsFiniteSet(0 .. (written - 1))
      BY FS_Interval, ReceiverNow
    <3>2. kept \in SUBSET (0 .. (written - 1))
      BY <1>14
    <3> QED BY <3>1, <3>2, FS_Subset
  <2>3. Cardinality(kept) \in Nat
    BY <2>2, FS_CardinalityType
  <2>4. rx.held \cap kept = {}
    BY <1>4, <1>13
  <2>5. Cardinality(H) = Cardinality(rx.held) + Cardinality(kept) - Cardinality(rx.held \cap kept)
    BY <1>10, <1>15, <2>2, FS_Union
  <2>6. Cardinality(rx.held \cap kept) = 0
    BY <2>4, FS_EmptySet
  <2>7. Cardinality(H) = Cardinality(rx.held) + Cardinality(kept)
    BY <1>10, <2>3, <2>5, <2>6
  <2> QED BY <1>5, <1>10, <1>12, <2>1, <2>3, <2>7, QuicStreamAssumption
<1>17. PICK I : I = rx.inbox \ {frame}
  OBVIOUS
<1>18. rx' = [rx EXCEPT !.inbox = I, !.held = H, !.open = open]
  BY <1>9, <1>15, <1>17, ReceiverNow
<1>19. open \in BOOLEAN
  BY <1>8
<1>20. /\ rx'.got = rx.got /\ rx'.inbox = I /\ rx'.held = H /\ rx'.recvSize = rx.recvSize
  BY <1>18, ReceiverNow
<1>21. PICK D : D = history.dropped \union (free \ kept)
  OBVIOUS
<1>22. /\ history' = [history EXCEPT !.dropped = D] /\ history'.cut = history.cut
       /\ history'.dropped = D /\ D \in SUBSET Nat
       /\ history' \in [cut : BOOLEAN, dropped : SUBSET Nat]
  BY <1>9, <1>14, <1>21, ReceiverNow
<1>23. ReceiverInv'
  <2>1. rx' \in [got : SUBSET (0 .. tx.next), due : BOOLEAN, inbox : SUBSET Fr(written),
                 recvSize : 0 .. written, held : SUBSET (0 .. (written - 1)), open : BOOLEAN]
    <3>1. I \in SUBSET Fr(written) /\ H \in SUBSET (0 .. (written - 1))
      BY <1>16, <1>17, ReceiverNow
    <3>2. rx \in [got : SUBSET (0 .. tx.next), due : BOOLEAN, inbox : SUBSET Fr(written),
                  recvSize : 0 .. written, held : SUBSET (0 .. (written - 1)), open : BOOLEAN]
      BY DEF IInv, ReceiverInv
    <3> QED BY <1>18, <1>19, <3>1, <3>2
  <2> QED BY <1>16, <1>20, <1>22, <2>1, ReceiverNow DEF ReceiverInv
<1>24. Reached \subseteq Reached'
  <2>1. \A b \in Bytes(frame) : b < rx.recvSize => b \in 0 .. (rx.recvSize - 1)
    BY <1>3, ReceiverNow DEF Bytes
  <2>2. \A b \in Bytes(frame) : b < rx.recvSize \/ b >= rx.recvSize
    BY <1>3, ReceiverNow DEF Bytes
  <2>3. Bytes(frame) \subseteq (0 .. (rx.recvSize - 1)) \union H \union D
    BY <1>4, <1>15, <1>21, <2>1, <2>2
  <2>4. BytesOf(rx.inbox) \subseteq Bytes(frame) \union BytesOf(I)
    BY <1>17 DEF BytesOf
  <2>5. Reached' = ((0 .. (rx.recvSize - 1)) \union H \union BytesOf(I)) \union D
    BY <1>20, <1>22 DEF Reached, Arrived, BytesOf, Bytes
  <2> QED BY <1>15, <1>21, <2>3, <2>4, <2>5 DEF Reached, Arrived
<1>25. HandedOver'
  BY <1>9, <1>20 DEF IInv, HandedOver, Stream!Run
<1>26. IInv'
  BY <1>20, <1>22, <1>23, <1>24, <1>25, ReceiverStep
<1> QED BY <1>9, <1>26

LEMMA SendAckStep ==
  ASSUME IInv, SendAck
  PROVE  IInv'
<1>1. /\ UNCHANGED <<written, tx, wire, app>>
      /\ acks' = acks \union {[largest |-> Max(rx.got), missing |-> Told(rx.got)]}
      /\ rx' = [rx EXCEPT !.due = FALSE]
      /\ history' = [history EXCEPT !.cut = @ \/ Told(rx.got) # Missing(rx.got)]
  BY DEF SendAck
<1>2. PICK got : got = rx.got
  OBVIOUS
<1>3. got \subseteq 0 .. tx.next /\ 0 \in got /\ got \subseteq Nat /\ tx.next \in Nat
  BY <1>2, ReceiverNow
<1>4. Max(got) \in got
  BY <1>3, MaxNatural
<1>5. Min(got) = 0
  <2>1. Min(got) \in got /\ \A k \in got : Min(got) <= k
    BY <1>3, MinNatural
  <2>2. Min(got) \in Nat /\ Min(got) <= 0
    BY <1>3, <2>1
  <2> QED BY <2>2
<1>6. PICK ack : ack = [largest |-> Max(got), missing |-> Told(got)]
  OBVIOUS
<1>7. Missing(got) \subseteq Nat /\ Told(got) \subseteq Missing(got)
  BY <1>3, <1>4, <1>5 DEF Missing, Told
<1>8. /\ ack \in [largest : Nat, missing : SUBSET Nat]
      /\ ack.largest = Max(got) /\ ack.missing = Told(got)
  BY <1>3, <1>4, <1>6, <1>7
<1>9. Told(got) = Missing(got) =>
        \A n \in 0 .. ack.largest : n \notin ack.missing => n \in got
  BY <1>5, <1>8 DEF Missing
<1>10. PICK cut : cut = (history.cut \/ Told(got) # Missing(got))
  OBVIOUS
<1>11. /\ history' = [history EXCEPT !.cut = cut] /\ history'.cut = cut
       /\ history'.dropped = history.dropped
       /\ history' \in [cut : BOOLEAN, dropped : SUBSET Nat]
  <2>1. cut \in BOOLEAN
    BY <1>10
  <2>2. history' = [history EXCEPT !.cut = cut]
    BY <1>1, <1>2, <1>10, ReceiverNow
  <2> QED BY <2>1, <2>2, ReceiverNow
<1>12. /\ rx'.got = rx.got /\ rx'.inbox = rx.inbox /\ rx'.held = rx.held
       /\ rx'.recvSize = rx.recvSize
  BY <1>1, ReceiverNow
<1>13. AckInv'
  <2>1. acks' \subseteq [largest : Nat, missing : SUBSET Nat]
    BY <1>1, <1>2, <1>6, <1>8 DEF IInv, AckInv
  <2>2. ASSUME ~cut, NEW a \in acks', NEW n \in 0 .. a.largest, n \notin a.missing
        PROVE  n \in got
    <3>1. CASE a \in acks
      BY <1>2, <1>10, <2>2, <3>1 DEF IInv, AckInv
    <3>2. CASE a = ack
      BY <1>9, <1>10, <2>2, <3>2
    <3> QED BY <1>1, <1>2, <1>6, <3>1, <3>2
  <2> QED BY <1>2, <1>11, <1>12, <2>1, <2>2 DEF AckInv
<1>14. Reached' = Reached
  BY <1>11, <1>12 DEF Reached, Arrived, BytesOf, Bytes
<1>15. ReceiverInv'
  <2>1. rx' \in [got : SUBSET (0 .. tx.next), due : BOOLEAN, inbox : SUBSET Fr(written),
                 recvSize : 0 .. written, held : SUBSET (0 .. (written - 1)), open : BOOLEAN]
    BY <1>1 DEF IInv, ReceiverInv
  <2> QED BY <1>1, <1>11, <1>12, <2>1, ReceiverNow DEF ReceiverInv
<1>16. written' \in 0 .. Total /\ SenderInv' /\ WireInv'
  BY <1>1 DEF IInv, SenderInv, WireInv
<1>17. GotInv'
  BY <1>1, <1>12, <1>14 DEF IInv, GotInv
<1>18. Kept'
  <2>1. ~cut => ~history.cut
    BY <1>10
  <2> QED BY <1>1, <1>11, <1>14, <2>1 DEF IInv, Kept, Has
<1>19. HandedOver'
  BY <1>1, <1>12 DEF IInv, HandedOver
<1> QED BY <1>13, <1>15, <1>16, <1>17, <1>18, <1>19 DEF IInv

LEMMA LoseStep ==
  ASSUME IInv, Lose
  PROVE  IInv'
<1>1. UNCHANGED <<written, tx, rx, app, history>> /\ wire' \subseteq wire /\ acks' \subseteq acks
  BY DEF Lose
<1>2. SenderInv' /\ ReceiverInv' /\ HandedOver' /\ written' \in 0 .. Total
  BY <1>1 DEF IInv, SenderInv, ReceiverInv, HandedOver
<1>3. WireInv' /\ AckInv'
  BY <1>1 DEF IInv, WireInv, AckInv
<1>4. GotInv' /\ Kept'
  BY <1>1 DEF IInv, GotInv, Kept, Has, Reached, Arrived
<1> QED BY <1>2, <1>3, <1>4 DEF IInv

------------------------------------------------------------------------------
(* Sizes.                                                                  *)

\* A frame has a byte: frames that share none are different ones.
LEMMA FrameHasByte ==
  ASSUME NEW w \in 0 .. Total, NEW f \in Fr(w)
  PROVE  f.from \in Bytes(f)
<1>1. f.from \in Nat /\ f.to \in Nat /\ f.from < f.to
  BY FrFields
<1> QED BY <1>1 DEF Bytes

\* What two sets of frames take together, at most, and exactly when they share
\* no byte.
LEMMA SizeOfUnion ==
  ASSUME NEW w \in 0 .. Total, NEW F, F \subseteq Fr(w), NEW G, G \subseteq Fr(w)
  PROVE  /\ Size(F \union G) <= Size(F) + Size(G)
         /\ BytesOf(F) \intersect BytesOf(G) = {} => Size(F \union G) = Size(F) + Size(G)
<1>1. /\ IsFiniteSet(F) /\ IsFiniteSet(G) /\ IsFiniteSet(BytesOf(F)) /\ IsFiniteSet(BytesOf(G))
      /\ Cardinality(F) \in Nat /\ Cardinality(G) \in Nat
      /\ Cardinality(BytesOf(F)) \in Nat /\ Cardinality(BytesOf(G)) \in Nat
  BY SetsFinite
<1>2. Cardinality(F \union G) = Cardinality(F) + Cardinality(G) - Cardinality(F \intersect G)
  BY <1>1, FS_Union
<1>3. Cardinality(BytesOf(F) \union BytesOf(G)) =
        Cardinality(BytesOf(F)) + Cardinality(BytesOf(G))
          - Cardinality(BytesOf(F) \intersect BytesOf(G))
  BY <1>1, FS_Union
<1>4. BytesOf(F \union G) = BytesOf(F) \union BytesOf(G)
  BY BytesOfUnion
<1>5. Cardinality(F \intersect G) \in Nat
  BY SetsFinite
<1>6. Cardinality(BytesOf(F) \intersect BytesOf(G)) \in Nat
  <2>1. IsFiniteSet(BytesOf(F) \intersect BytesOf(G))
    BY <1>1, FS_Subset
  <2> QED BY <2>1, FS_CardinalityType
<1>7. ASSUME BytesOf(F) \intersect BytesOf(G) = {}
      PROVE  /\ Cardinality(F \intersect G) = 0
             /\ Cardinality(BytesOf(F) \intersect BytesOf(G)) = 0
  <2>1. F \intersect G = {}
    <3> SUFFICES ASSUME NEW f \in F, f \in G PROVE FALSE
      OBVIOUS
    <3>1. f.from \in BytesOf(F) /\ f.from \in BytesOf(G)
      BY FrameHasByte DEF BytesOf
    <3> QED BY <1>7, <3>1
  <2> QED BY <1>7, <2>1, FS_EmptySet
<1>8. /\ Size(F \union G) = Cardinality(BytesOf(F) \union BytesOf(G)) + Cardinality(F \union G)
      /\ Size(F) = Cardinality(BytesOf(F)) + Cardinality(F)
      /\ Size(G) = Cardinality(BytesOf(G)) + Cardinality(G)
  BY <1>4 DEF Size
<1>9. Size(F \union G) <= Size(F) + Size(G)
  BY <1>1, <1>2, <1>3, <1>5, <1>6, <1>8
<1>10. ASSUME BytesOf(F) \intersect BytesOf(G) = {}
       PROVE  Size(F \union G) = Size(F) + Size(G)
  BY <1>1, <1>2, <1>3, <1>7, <1>8, <1>10
<1> QED BY <1>9, <1>10

LEMMA SizeMonotone ==
  ASSUME NEW w \in 0 .. Total, NEW F, F \subseteq Fr(w), NEW G, G \subseteq F
  PROVE  Size(G) <= Size(F)
<1>1. IsFiniteSet(F) /\ IsFiniteSet(BytesOf(F)) /\ Cardinality(F) \in Nat
      /\ Cardinality(BytesOf(F)) \in Nat /\ Cardinality(G) \in Nat
      /\ Cardinality(BytesOf(G)) \in Nat
  BY SetsFinite
<1>2. BytesOf(G) \subseteq BytesOf(F)
  BY BytesOfMonotone
<1>3. Cardinality(G) <= Cardinality(F) /\ Cardinality(BytesOf(G)) <= Cardinality(BytesOf(F))
  BY <1>1, <1>2, FS_Subset
<1> QED BY <1>1, <1>3 DEF Size

LEMMA SizePositive ==
  ASSUME NEW w \in 0 .. Total, NEW F, F \subseteq Fr(w)
  PROVE  /\ F = {} => Size(F) = 0
         /\ F # {} => Size(F) > 0
<1>1. /\ IsFiniteSet(F) /\ Cardinality(F) \in Nat /\ Cardinality(BytesOf(F)) \in Nat
  BY SetsFinite
<1>2. F # {} => Cardinality(F) # 0
  BY <1>1, FS_EmptySet
<1>3. F = {} => Cardinality(F) = 0 /\ Cardinality(BytesOf(F)) = 0
  BY FS_EmptySet DEF BytesOf
<1> QED BY <1>1, <1>2, <1>3 DEF Size

LEMMA SizeOfFrame ==
  ASSUME NEW w \in 0 .. Total, NEW f \in Fr(w)
  PROVE  Size({f}) = (f.to - f.from) + 1
<1>1. f.from \in Nat /\ f.to \in Nat /\ f.from < f.to
  BY FrFields
<1>2. BytesOf({f}) = f.from .. (f.to - 1)
  BY DEF BytesOf, Bytes
<1>3. Cardinality(f.from .. (f.to - 1)) = f.to - f.from
  <2>1. PICK first \in Int : first = f.from
    BY <1>1
  <2>2. PICK last \in Int : last = f.to - 1
    BY <1>1
  <2>3. Cardinality(first .. last) = IF first > last THEN 0 ELSE last - first + 1
    BY FS_Interval
  <2> QED BY <1>1, <2>1, <2>2, <2>3
<1>4. Cardinality({f}) = 1
  BY FS_Singleton
<1> QED BY <1>1, <1>2, <1>3, <1>4 DEF Size

------------------------------------------------------------------------------
(* Segments.                                                               *)

\* The scheduler's queue has a last frame.
LEMMA LastFrame ==
  ASSUME NEW w \in 0 .. Total, NEW F, F \subseteq Fr(w), F # {}
  PROVE  \E f \in F : \A g \in F : ~Before(f, g)
<1> DEFINE G == {f \in F : ~f.retx}
           H == IF G # {} THEN G ELSE F
           starts == {f.from : f \in H}
<1>1. H \subseteq F /\ H # {}
  OBVIOUS
<1>2. \A f \in F : f.from \in Nat /\ f.to \in Nat /\ f.from < f.to /\ f.to <= w /\ f.retx \in BOOLEAN
  BY FrFields
<1>3. starts \subseteq 0 .. w /\ starts # {} /\ w \in Nat
  <2>1. w \in Nat
    BY QuicStreamAssumption
  <2>2. \A f \in H : f.from \in 0 .. w
    BY <1>1, <1>2, <2>1
  <2> QED BY <1>1, <2>1, <2>2
<1>4. Max(starts) \in starts /\ \A k \in starts : Max(starts) >= k
  <2> HIDE DEF starts
  <2> QED BY <1>3, MaxNatural
<1>5. PICK f \in H : Max(starts) = f.from
  BY <1>4
<1>6. \A g \in H : f.from >= g.from
  BY <1>4, <1>5
<1>7. \A g \in F : ~Before(f, g)
  <2> SUFFICES ASSUME NEW g \in F, Before(f, g) PROVE FALSE
    OBVIOUS
  <2>1. g \in H
    BY <1>1, <1>2, <1>5 DEF Before
  <2>2. f.from >= g.from /\ f.from \in Nat /\ g.from \in Nat
    BY <1>1, <1>2, <1>5, <1>6, <2>1
  <2>3. f.retx = g.retx
    BY <1>1, <1>2, <1>5, <2>1 DEF Before
  <2> QED BY <2>2, <2>3 DEF Before
<1> QED BY <1>1, <1>5, <1>7

\* The whole frames of a packet fit it: up to the last of them they do.
LEMMA WholeFits ==
  ASSUME NEW w \in 0 .. Total, NEW F, F \subseteq Fr(w), NEW n \in Nat
  PROVE  Size(Whole(F, n)) <= n /\ Size(Whole(F, n)) \in Nat
<1>1. Whole(F, n) \subseteq F
  BY DEF Whole
<1>2. PICK W : W = Whole(F, n)
  OBVIOUS
<1>3. Size(W) \in Nat
  BY <1>1, <1>2, SizeNatural
<1>4. CASE W = {}
  BY <1>1, <1>2, <1>4, SizePositive
<1>5. CASE W # {}
  <2>1. PICK f \in W : \A g \in W : ~Before(f, g)
    BY <1>1, <1>2, <1>5, LastFrame
  <2>2. PICK U : U = {g \in F : ~Before(f, g)}
    OBVIOUS
  <2>3. Size(U) <= n
    BY <1>2, <2>1, <2>2 DEF Whole
  <2>4. W \subseteq U /\ U \subseteq F
    BY <1>1, <1>2, <2>1, <2>2
  <2>5. Size(W) <= Size(U) /\ Size(U) \in Nat
    BY <2>4, SizeMonotone, SizeNatural
  <2> QED BY <1>2, <1>3, <2>3, <2>5
<1> QED BY <1>2, <1>3, <1>4, <1>5

\* Frames that do not overlap.
Spread(F) == \A f, g \in F : f # g => Bytes(f) \intersect Bytes(g) = {}

LEMMA SpreadParts ==
  ASSUME NEW F, Spread(F), NEW A, NEW B, A \subseteq F, B \subseteq F, A \intersect B = {}
  PROVE  Spread(A) /\ BytesOf(A) \intersect BytesOf(B) = {}
<1>1. Spread(A)
  BY DEF Spread
<1>2. ASSUME NEW b \in BytesOf(A), b \in BytesOf(B) PROVE FALSE
  <2>1. PICK f \in A : b \in Bytes(f)
    BY DEF BytesOf
  <2>2. PICK g \in B : b \in Bytes(g)
    BY <1>2 DEF BytesOf
  <2> QED BY <2>1, <2>2 DEF Spread
<1> QED BY <1>1, <1>2

\* A frame joins frames it does not overlap with.
LEMMA SpreadWith ==
  ASSUME NEW F, Spread(F), NEW f, Bytes(f) \intersect BytesOf(F) = {}
  PROVE  Spread(F \union {f})
<1> SUFFICES ASSUME NEW g \in F \union {f}, NEW h \in F \union {f}, g # h
             PROVE  Bytes(g) \intersect Bytes(h) = {}
  BY DEF Spread
<1>1. \A k \in F : Bytes(k) \subseteq BytesOf(F)
  BY DEF BytesOf
<1> QED BY <1>1 DEF Spread

\* The parts a frame is cut into do not overlap.
LEMMA CutApart ==
  ASSUME NEW w \in 0 .. Total, NEW f \in Fr(w), NEW k \in 1 .. (f.to - f.from - 1)
  PROVE  /\ Bytes([f EXCEPT !.to = f.from + k])
              \intersect Bytes([f EXCEPT !.from = f.from + k]) = {}
         /\ Size({[f EXCEPT !.to = f.from + k]}) = k + 1
<1> DEFINE a == f.from
           b == f.to
           r == f.retx
<1>1. /\ a \in Nat /\ b \in Nat /\ r \in BOOLEAN /\ a < b /\ b <= w
      /\ f = [from |-> a, to |-> b, retx |-> r]
  BY FrFields
<1>2. PICK c : c = f.from + k
  OBVIOUS
<1>3. PICK head : head = [f EXCEPT !.to = c]
  OBVIOUS
<1>4. PICK tail : tail = [f EXCEPT !.from = c]
  OBVIOUS
<1>5. /\ head.from = a /\ head.to = c /\ tail.from = c /\ tail.to = b
  BY <1>1, <1>3, <1>4
<1>6. c \in Nat /\ a < c /\ c < b /\ c = a + k /\ k \in Nat
  BY <1>1, <1>2
<1>7. Bytes(head) \intersect Bytes(tail) = {}
  <2> HIDE DEF a, b, r
  <2> QED BY <1>1, <1>5, <1>6 DEF Bytes
<1>8. head \in Fr(w)
  BY <1>2, <1>3, FrameCut
<1>9. Size({head}) = k + 1
  <2>1. Size({head}) = (head.to - head.from) + 1
    BY <1>8, SizeOfFrame
  <2> HIDE DEF a, b, r
  <2> QED BY <1>1, <1>5, <1>6, <2>1
<1> QED BY <1>2, <1>3, <1>4, <1>7, <1>9

\* A segment fits its packet, and shares no byte with what is left.
LEMMA SegmentParts ==
  ASSUME NEW w \in 0 .. Total, NEW F, F \subseteq Fr(w), Spread(F), NEW n \in Nat
  PROVE  LET segment == NewSegment(F, n)
         IN /\ Spread(segment.frames) /\ Spread(segment.rest)
            /\ BytesOf(segment.frames) \union BytesOf(segment.rest) \subseteq BytesOf(F)
            /\ BytesOf(segment.frames) \intersect BytesOf(segment.rest) = {}
            /\ Size(segment.frames) <= n
<1> DEFINE whole == Whole(F, n)
           rest == F \ whole
           next == First(rest)
           room == n - Size(whole) - 1
<1>1. whole \subseteq F /\ rest \subseteq F /\ whole \intersect rest = {}
  BY DEF Whole
<1>2. Size(whole) <= n /\ Size(whole) \in Nat
  BY WholeFits
<1>3. Spread(whole) /\ Spread(rest) /\ BytesOf(whole) \intersect BytesOf(rest) = {}
  <2> HIDE DEF whole, rest
  <2> QED BY <1>1, SpreadParts
<1>4. BytesOf(whole) \subseteq BytesOf(F) /\ BytesOf(rest) \subseteq BytesOf(F)
  BY <1>1, BytesOfMonotone
<1>5. CASE rest = {} \/ room \notin 1 .. (next.to - next.from - 1)
  <2>1. NewSegment(F, n) = [frames |-> whole, rest |-> rest]
    BY <1>5 DEF NewSegment
  <2> HIDE DEF whole, rest
  <2> QED BY <1>2, <1>3, <1>4, <2>1
<1>6. CASE ~(rest = {} \/ room \notin 1 .. (next.to - next.from - 1))
  <2> DEFINE head == [next EXCEPT !.to = next.from + room]
             tail == [next EXCEPT !.from = next.from + room]
             others == rest \ {next}
  <2>1. NewSegment(F, n) = [frames |-> whole \union {head}, rest |-> others \union {tail}]
    BY <1>6 DEF NewSegment
  <2>2. next \in rest /\ rest \subseteq Fr(w)
    BY <1>6, FirstFrame
  <2>3. room \in 1 .. (next.to - next.from - 1)
    BY <1>6
  <2>4. room \in Nat /\ n = Size(whole) + (room + 1)
    BY <1>2, <2>3
  <2>5. whole \subseteq Fr(w)
    BY <1>1
  <2> HIDE DEF whole, rest, next, room
  <2>6. /\ head \in Fr(w) /\ tail \in Fr(w)
        /\ Bytes(next) = Bytes(head) \union Bytes(tail)
    BY <2>2, <2>3, FrameCut
  <2>7. Bytes(head) \intersect Bytes(tail) = {} /\ Size({head}) = room + 1
    BY <2>2, <2>3, CutApart
  <2> HIDE DEF head, tail
  <2>8. /\ BytesOf({head}) = Bytes(head) /\ BytesOf({tail}) = Bytes(tail)
        /\ BytesOf({next}) = Bytes(next)
    BY DEF BytesOf
  <2>9. /\ others \subseteq rest /\ {next} \subseteq rest /\ others \intersect {next} = {}
    BY <2>2
  <2>10. Spread(others) /\ BytesOf(others) \intersect BytesOf({next}) = {}
    <3> HIDE DEF others
    <3> QED BY <1>3, <2>9, SpreadParts
  <2>11. BytesOf(others) \subseteq BytesOf(rest) /\ BytesOf({next}) \subseteq BytesOf(rest)
    BY <2>9, BytesOfMonotone
  <2> HIDE DEF others
  <2>12. Spread(whole \union {head})
    <3>1. Bytes(head) \intersect BytesOf(whole) = {}
      BY <1>3, <2>6, <2>8, <2>11
    <3> QED BY <1>3, <3>1, SpreadWith
  <2>13. Spread(others \union {tail})
    BY <2>6, <2>8, <2>10, SpreadWith
  <2>14. /\ BytesOf(whole \union {head}) = BytesOf(whole) \union Bytes(head)
         /\ BytesOf(others \union {tail}) = BytesOf(others) \union Bytes(tail)
    BY <2>8, BytesOfUnion
  <2>15. BytesOf(whole \union {head}) \union BytesOf(others \union {tail}) \subseteq BytesOf(F)
    BY <1>4, <2>6, <2>8, <2>11, <2>14
  <2>16. BytesOf(whole \union {head}) \intersect BytesOf(others \union {tail}) = {}
    BY <1>3, <2>6, <2>7, <2>8, <2>10, <2>11, <2>14
  <2>17. Size(whole \union {head}) <= n
    <3>1. Size(whole \union {head}) <= Size(whole) + Size({head})
      BY <2>5, <2>6, SizeOfUnion
    <3> QED BY <2>4, <2>7, <3>1
  <2> QED BY <2>1, <2>12, <2>13, <2>15, <2>16, <2>17
<1> QED BY <1>5, <1>6

------------------------------------------------------------------------------
(* One copy of each byte, and the credit.                                  *)

Carried(L) == UNION {p.frames : p \in L}

\* The sender holds each byte once, and no packet for nothing.
Apart(s) ==
  /\ Spread(s.queue)
  /\ \A p \in s.list : /\ p.frames # {} /\ Spread(p.frames)
                       /\ BytesOf(p.frames) \intersect BytesOf(s.queue) = {}
  /\ \A p, q \in s.list : p # q => BytesOf(p.frames) \intersect BytesOf(q.frames) = {}

Sound(s) == Apart(s) /\ InFlight(s) <= MaxData

\* What is under way needs the alarm.
Watched(s) == s.list # {} => s.armed

\* What can be sent needs a timer, too.
Timed(s) == Watched(s) /\ (s.queue # {} => s.armed \/ s.pacing)

LEMMA AsideSound ==
  ASSUME NEW s, NEW t, t.queue = s.queue, t.list = s.list
  PROVE  /\ InFlight(t) = InFlight(s)
         /\ Apart(s) => Apart(t)
         /\ Sound(s) => Sound(t)
BY DEF Sound, Apart, InFlight

LEMMA CarriedApart ==
  ASSUME NEW s, Apart(s), NEW A, NEW B, A \subseteq s.list, B \subseteq s.list,
         A \intersect B = {}
  PROVE  /\ BytesOf(Carried(A)) \intersect BytesOf(Carried(B)) = {}
         /\ BytesOf(Carried(A)) \intersect BytesOf(s.queue) = {}
         /\ Spread(Carried(A))
<1>1. ASSUME NEW b \in BytesOf(Carried(A)), b \in BytesOf(Carried(B)) PROVE FALSE
  <2>1. PICK p \in A : b \in BytesOf(p.frames)
    BY DEF BytesOf, Carried
  <2>2. PICK q \in B : b \in BytesOf(q.frames)
    BY <1>1 DEF BytesOf, Carried
  <2> QED BY <2>1, <2>2 DEF Apart
<1>2. ASSUME NEW b \in BytesOf(Carried(A)), b \in BytesOf(s.queue) PROVE FALSE
  <2>1. PICK p \in A : b \in BytesOf(p.frames)
    BY DEF BytesOf, Carried
  <2> QED BY <1>2, <2>1 DEF Apart
<1>3. ASSUME NEW f \in Carried(A), NEW g \in Carried(A), f # g
      PROVE  Bytes(f) \intersect Bytes(g) = {}
  <2>1. PICK p \in A : f \in p.frames
    BY DEF Carried
  <2>2. PICK q \in A : g \in q.frames
    BY DEF Carried
  <2>3. CASE p = q
    BY <1>3, <2>1, <2>2, <2>3 DEF Apart, Spread
  <2>4. CASE p # q
    <3>1. BytesOf(p.frames) \intersect BytesOf(q.frames) = {}
      BY <2>4 DEF Apart
    <3>2. Bytes(f) \subseteq BytesOf(p.frames) /\ Bytes(g) \subseteq BytesOf(q.frames)
      BY <2>1, <2>2 DEF BytesOf
    <3> QED BY <3>1, <3>2
  <2> QED BY <2>3, <2>4
<1> QED BY <1>1, <1>2, <1>3 DEF Spread

LEMMA CarriedFrames ==
  ASSUME NEW w, NEW s \in Sender(w), NEW L, L \subseteq s.list
  PROVE  Carried(L) \subseteq Fr(w) /\ s.queue \subseteq Fr(w)
BY DEF Carried, Sender, Pk

\* A packet takes no more than it has room for, and nothing twice.
LEMMA SendSound ==
  ASSUME NEW w \in 0 .. Total, NEW u, Good(u, w), Apart(u), NEW n \in Nat,
         NEW t \in SendDataPacket(u, n)
  PROVE  /\ Apart(t) /\ InFlight(u) <= InFlight(t) /\ InFlight(t) <= InFlight(u) + n
         /\ t.pacing /\ (u.armed => t.armed) /\ (Watched(u) => Watched(t))
         /\ InFlight(t) \in Nat
<1>1. PICK segment : /\ segment = NewSegment(u.queue, n)
                     /\ t = [u EXCEPT !.queue = segment.rest,
                                !.list = IF segment.frames = {} THEN @
                                         ELSE @ \union {[pn |-> u.next, frames |-> segment.frames]},
                                !.out = @ \union {[pn |-> u.next, frames |-> segment.frames]},
                                !.high = u.next,
                                !.pacing = TRUE,
                                !.armed = @ \/ segment.frames # {}]
  BY DEF SendDataPacket
<1>2. u \in Sender(w) /\ u.queue \subseteq Fr(w) /\ u.armed \in BOOLEAN
  BY DEF Good, Sender
<1>3. PICK packet : packet = [pn |-> u.next, frames |-> segment.frames]
  OBVIOUS
<1>4. /\ packet.frames = segment.frames
      /\ t.list = IF segment.frames = {} THEN u.list ELSE u.list \union {packet}
      /\ t.queue = segment.rest /\ t.pacing = TRUE
      /\ t.armed = (u.armed \/ segment.frames # {})
  BY <1>1, <1>2, <1>3 DEF Sender
<1>5. /\ Spread(segment.frames) /\ Spread(segment.rest)
      /\ BytesOf(segment.frames) \union BytesOf(segment.rest) \subseteq BytesOf(u.queue)
      /\ BytesOf(segment.frames) \intersect BytesOf(segment.rest) = {}
      /\ Size(segment.frames) <= n
  BY <1>1, <1>2, SegmentParts DEF Apart
<1>6. segment.frames \subseteq Fr(w)
  BY <1>1, <1>2, SegmentKeeps
<1> HIDE <1>1
<1>7. Apart(t)
  <2>1. Spread(t.queue)
    BY <1>4, <1>5
  <2>2. ASSUME NEW p \in t.list
        PROVE  /\ p.frames # {} /\ Spread(p.frames)
               /\ BytesOf(p.frames) \intersect BytesOf(t.queue) = {}
    <3>1. CASE p \in u.list
      BY <1>4, <1>5, <3>1 DEF Apart
    <3>2. CASE p = packet /\ segment.frames # {}
      BY <1>4, <1>5, <3>2
    <3> QED BY <1>4, <2>2, <3>1, <3>2
  <2>3. ASSUME NEW p \in u.list
        PROVE  BytesOf(p.frames) \intersect BytesOf(packet.frames) = {}
    BY <1>4, <1>5 DEF Apart
  <2>4. ASSUME NEW p \in t.list, NEW q \in t.list, p # q
        PROVE  BytesOf(p.frames) \intersect BytesOf(q.frames) = {}
    BY <1>4, <2>3, <2>4 DEF Apart
  <2> QED BY <2>1, <2>2, <2>4 DEF Apart
<1>8. Carried(t.list) = Carried(u.list) \union segment.frames
  BY <1>4 DEF Carried
<1>9. Carried(u.list) \subseteq Fr(w)
  BY <1>2, CarriedFrames
<1>10. BytesOf(Carried(u.list)) \intersect BytesOf(segment.frames) = {}
  BY <1>5, CarriedApart
<1>11. InFlight(t) = InFlight(u) + Size(segment.frames)
  <2>1. Size(Carried(u.list) \union segment.frames) = Size(Carried(u.list)) + Size(segment.frames)
    BY <1>6, <1>9, <1>10, SizeOfUnion
  <2> QED BY <1>8, <2>1 DEF InFlight, Carried
<1>12. InFlight(u) \in Nat /\ Size(segment.frames) \in Nat
  BY <1>2, <1>6, InFlightNatural, SizeNatural
<1>13. Watched(u) => Watched(t)
  BY <1>4 DEF Watched
<1>14. InFlight(u) <= InFlight(t) /\ InFlight(t) <= InFlight(u) + n /\ InFlight(t) \in Nat
  BY <1>5, <1>11, <1>12
<1>15. t.pacing /\ (u.armed => t.armed)
  BY <1>4
<1> QED BY <1>7, <1>13, <1>14, <1>15

\* What is lost goes back as often as it was under way: once.
LEMMA RequeueSound ==
  ASSUME NEW w \in 0 .. Total, NEW s, Good(s, w), Apart(s), NEW lost, lost \subseteq s.list
  PROVE  /\ Apart(Requeue(s, lost))
         /\ InFlight(s) = InFlight(Requeue(s, lost)) + Size(Carried(lost))
         /\ Requeue(s, lost).pacing = s.pacing /\ Requeue(s, lost).armed = s.armed
         /\ Requeue(s, lost).cwnd = s.cwnd /\ Requeue(s, lost).list = s.list \ lost
<1> DEFINE F == Carried(lost)
           M == {[f EXCEPT !.retx = TRUE] : f \in F}
<1>1. PICK t : t = Requeue(s, lost)
  OBVIOUS
<1>2. s \in Sender(w)
  BY DEF Good
<1>3. F \subseteq Fr(w) /\ Carried(s.list \ lost) \subseteq Fr(w)
  BY <1>2, CarriedFrames
<1>4. /\ t.list = s.list \ lost /\ t.queue = s.queue \union M
      /\ t.pacing = s.pacing /\ t.armed = s.armed /\ t.cwnd = s.cwnd
  BY <1>1, <1>2 DEF Requeue, Sender, Carried
<1>5. \A f \in F : Bytes([f EXCEPT !.retx = TRUE]) = Bytes(f)
  BY <1>3, MarkedFrame
<1>6. /\ BytesOf(F) \intersect BytesOf(Carried(s.list \ lost)) = {}
      /\ BytesOf(F) \intersect BytesOf(s.queue) = {}
      /\ Spread(F)
  BY CarriedApart
<1>7. \A m \in M : Bytes(m) \subseteq BytesOf(F)
  BY <1>5 DEF BytesOf
<1>8. ASSUME NEW m \in M, NEW l \in M, m # l PROVE Bytes(m) \intersect Bytes(l) = {}
  <2>1. PICK f \in F : m = [f EXCEPT !.retx = TRUE]
    OBVIOUS
  <2>2. PICK g \in F : l = [g EXCEPT !.retx = TRUE]
    OBVIOUS
  <2>3. f # g
    BY <1>8, <2>1, <2>2
  <2> HIDE DEF M, F
  <2> QED BY <1>5, <1>6, <2>1, <2>2, <2>3 DEF Spread
<1> HIDE DEF M, F
<1>9. Spread(t.queue)
  <2> SUFFICES ASSUME NEW f \in s.queue \union M, NEW g \in s.queue \union M, f # g
               PROVE  Bytes(f) \intersect Bytes(g) = {}
    BY <1>4 DEF Spread
  <2>1. \A h \in s.queue : Bytes(h) \subseteq BytesOf(s.queue)
    BY DEF BytesOf
  <2>2. \A h, k \in s.queue : h # k => Bytes(h) \intersect Bytes(k) = {}
    BY DEF Apart, Spread
  <2> QED BY <1>6, <1>7, <1>8, <2>1, <2>2
<1>10. BytesOf(t.queue) \subseteq BytesOf(s.queue) \union BytesOf(F)
  <2>1. BytesOf(t.queue) = BytesOf(s.queue) \union BytesOf(M)
    BY <1>4, BytesOfUnion
  <2>2. BytesOf(M) \subseteq BytesOf(F)
    BY <1>7 DEF BytesOf
  <2> QED BY <2>1, <2>2
<1>11. ASSUME NEW p \in t.list
       PROVE  /\ p.frames # {} /\ Spread(p.frames)
              /\ BytesOf(p.frames) \intersect BytesOf(t.queue) = {}
  <2>1. p \in s.list /\ p \notin lost
    BY <1>4
  <2>2. BytesOf(p.frames) \subseteq BytesOf(Carried(s.list \ lost))
    BY <2>1 DEF BytesOf, Carried
  <2>3. /\ p.frames # {} /\ Spread(p.frames)
        /\ BytesOf(p.frames) \intersect BytesOf(s.queue) = {}
    BY <2>1 DEF Apart
  <2> QED BY <1>6, <1>10, <2>2, <2>3
<1>12. Apart(t)
  <2>1. \A p, q \in t.list : p # q => BytesOf(p.frames) \intersect BytesOf(q.frames) = {}
    BY <1>4 DEF Apart
  <2> QED BY <1>9, <1>11, <2>1 DEF Apart
<1>13. InFlight(s) = InFlight(t) + Size(F)
  <2>1. Carried(s.list) = Carried(s.list \ lost) \union F
    BY DEF Carried, F
  <2>2. Size(Carried(s.list \ lost) \union F) = Size(Carried(s.list \ lost)) + Size(F)
    BY <1>3, <1>6, SizeOfUnion
  <2>3. InFlight(s) = Size(Carried(s.list)) /\ InFlight(t) = Size(Carried(s.list \ lost))
    BY <1>4 DEF InFlight, Carried
  <2> QED BY <2>1, <2>2, <2>3
<1> QED BY <1>1, <1>4, <1>12, <1>13 DEF F

\* The room for a packet of at most n units.
LEMMA PacketRoom ==
  ASSUME NEW n \in Nat
  PROVE  /\ Min({n, SegSize}) \in Nat /\ Min({n, SegSize}) <= n
         /\ n > 0 => Min({n, SegSize}) > 0
<1>1. {n, SegSize} \subseteq Nat /\ {n, SegSize} # {} /\ SegSize > 0
  BY QuicStreamAssumption
<1>2. Min({n, SegSize}) \in {n, SegSize} /\ Min({n, SegSize}) <= n
  BY <1>1, MinNatural
<1> QED BY <1>1, <1>2

\* The second packet of a retransmission takes what the first has left.
LEMMA SecondPacketSound ==
  ASSUME NEW w \in 0 .. Total, NEW s, Good(s, w), Apart(s),
         NEW sent \in Nat, NEW total \in Nat, NEW t \in SecondPacket(s, sent, total)
  PROVE  /\ Apart(t) /\ (s.pacing => t.pacing)
         /\ \/ InFlight(t) = InFlight(s)
            \/ sent < total /\ InFlight(t) <= InFlight(s) + (total - sent)
<1>1. /\ Good(Numbered(s), w) /\ Numbered(s).list = s.list /\ Numbered(s).queue = s.queue
      /\ Numbered(s).pacing = s.pacing
  BY NumberedKeeps DEF Good, Sender, Numbered
<1>2. Apart(Numbered(s)) /\ InFlight(Numbered(s)) = InFlight(s)
  BY <1>1, AsideSound
<1>3. CASE t = s \/ t = Numbered(s)
  BY <1>1, <1>2, <1>3
<1>4. CASE sent < total /\ \E u \in SendDataPacket(Numbered(s), Min({total - sent, SegSize})) :
                             t = u \/ t = Numbered(u)
  <2>1. PICK left : left = total - sent
    OBVIOUS
  <2>2. left \in Nat
    BY <1>4, <2>1
  <2>3. Min({left, SegSize}) \in Nat /\ Min({left, SegSize}) <= left
    BY <2>2, PacketRoom
  <2>4. PICK u \in SendDataPacket(Numbered(s), Min({left, SegSize})) : t = u \/ t = Numbered(u)
    BY <1>4, <2>1
  <2>5. /\ Apart(u) /\ InFlight(u) <= InFlight(s) + Min({left, SegSize}) /\ InFlight(u) \in Nat
        /\ u.pacing
    BY <1>1, <1>2, <2>3, <2>4, SendSound
  <2>6. InFlight(s) \in Nat
    BY InFlightNatural DEF Good
  <2>7. InFlight(u) <= InFlight(s) + left
    BY <2>2, <2>3, <2>5, <2>6
  <2>8. Good(u, w)
    BY <2>4, SendNumbered DEF Safe
  <2>9. /\ Numbered(u).list = u.list /\ Numbered(u).queue = u.queue
        /\ Numbered(u).pacing = u.pacing
    BY <2>8 DEF Good, Sender, Numbered
  <2>10. Apart(t) /\ InFlight(t) = InFlight(u) /\ t.pacing
    BY <2>4, <2>5, <2>9, AsideSound
  <2> QED BY <1>4, <2>1, <2>7, <2>10
<1>5. CASE sent = 0 \/ sent >= total
  BY <1>3, <1>5 DEF SecondPacket
<1>6. CASE sent # 0 /\ ~(sent >= total)
  <2>1. t \in {IF InFlight(u) = InFlight(s) THEN u ELSE Numbered(u) :
                u \in SendDataPacket(Numbered(s), Min({total - sent, SegSize}))}
    BY <1>6 DEF SecondPacket
  <2>2. sent < total
    BY <1>6
  <2> QED BY <1>4, <2>1, <2>2
<1> QED BY <1>5, <1>6

\* A retransmission never sends more than it has taken back.
LEMMA RetransmitSound ==
  ASSUME NEW w \in 0 .. Total, NEW s, Good(s, w), Sound(s),
         NEW lost, lost \subseteq s.list, NEW t \in DoRetransmit(s, lost)
  PROVE  Sound(t) /\ (s.pacing \/ lost # {} => t.pacing)
<1>1. PICK start : start = Requeue(Numbered(s), lost)
  OBVIOUS
<1>2. PICK total : total = Size(Carried(lost))
  OBVIOUS
<1>3. /\ Good(Numbered(s), w) /\ Numbered(s).list = s.list /\ Numbered(s).queue = s.queue
      /\ Numbered(s).pacing = s.pacing
  BY NumberedKeeps DEF Good, Sender, Numbered
<1>4. Apart(Numbered(s)) /\ InFlight(Numbered(s)) = InFlight(s)
  BY <1>3, AsideSound DEF Sound
<1>5. /\ Apart(start) /\ InFlight(s) = InFlight(start) + total
      /\ start.pacing = s.pacing /\ Good(start, w)
  <2>1. lost \subseteq Numbered(s).list
    BY <1>3
  <2> QED BY <1>1, <1>2, <1>3, <1>4, <2>1, RequeueSound, RequeueSafe DEF Safe
<1>6. /\ total \in Nat /\ InFlight(start) \in Nat /\ InFlight(s) \in Nat
      /\ MaxData \in Nat /\ InFlight(s) <= MaxData
  <2>1. Carried(lost) \subseteq Fr(w)
    BY CarriedFrames DEF Good
  <2>2. total \in Nat
    BY <1>2, <2>1, SizeNatural
  <2> QED BY <1>5, <2>2, InFlightNatural, QuicStreamAssumption DEF Good, Sound
<1>7. lost # {} => total > 0
  <2>1. Carried(lost) \subseteq Fr(w)
    BY CarriedFrames DEF Good
  <2>2. lost # {} => Carried(lost) # {}
    BY DEF Carried, Sound, Apart
  <2> QED BY <1>2, <2>1, <2>2, SizePositive
<1>8. DoRetransmit(s, lost) =
        IF total = 0 THEN {start}
        ELSE UNION {SecondPacket(u, InFlight(u) - InFlight(start), total) :
                      u \in SendDataPacket(start, Min({total, SegSize}))}
  BY <1>1, <1>2 DEF DoRetransmit, Carried
<1>9. CASE total = 0
  <2>1. t = start
    BY <1>8, <1>9
  <2> QED BY <1>5, <1>6, <1>7, <1>9, <2>1 DEF Sound
<1>10. CASE total # 0
  <2>1. PICK u \in SendDataPacket(start, Min({total, SegSize})) :
          t \in SecondPacket(u, InFlight(u) - InFlight(start), total)
    BY <1>8, <1>10
  <2>2. Min({total, SegSize}) \in Nat /\ Min({total, SegSize}) <= total
    BY <1>6, PacketRoom
  <2>3. /\ Apart(u) /\ InFlight(start) <= InFlight(u) /\ u.pacing
        /\ InFlight(u) <= InFlight(start) + Min({total, SegSize}) /\ InFlight(u) \in Nat
    BY <1>5, <2>1, <2>2, SendSound
  <2>4. Good(u, w)
    <3>1. Fresh(start)
      <4>1. Fresh(Numbered(s)) /\ lost \subseteq Numbered(s).list
        BY <1>3, NumberedKeeps
      <4> QED BY <1>1, <1>3, <4>1, RequeueSafe
    <3>2. Safe(s, start, w) /\ start.next > s.next
      <4>1. Safe(s, Numbered(s), w) /\ Numbered(s).next > s.next
        BY NumberedKeeps DEF Safe
      <4>2. Safe(Numbered(s), start, w) /\ start.next = Numbered(s).next
        BY <1>1, <1>3, RequeueSafe
      <4> QED BY <4>1, <4>2, SafeOn
    <3>3. Safe(s, u, w)
      BY <1>5, <2>1, <3>1, <3>2, SendSafe
    <3> QED BY <3>3 DEF Safe
  <2>5. PICK sent : sent = InFlight(u) - InFlight(start)
    OBVIOUS
  <2>6. sent \in Nat /\ InFlight(u) = InFlight(start) + sent /\ sent <= total
    BY <1>6, <2>2, <2>3, <2>5
  <2>7. /\ Apart(t) /\ (u.pacing => t.pacing)
        /\ \/ InFlight(t) = InFlight(u)
           \/ sent < total /\ InFlight(t) <= InFlight(u) + (total - sent)
    BY <1>6, <2>1, <2>3, <2>4, <2>5, <2>6, SecondPacketSound
  <2>8. InFlight(t) \in Nat
    <3>1. Safe(s, t, w)
      BY RetransmitSafe
    <3> QED BY <3>1, InFlightNatural DEF Safe, Good
  <2>9. InFlight(t) <= InFlight(s)
    BY <1>5, <1>6, <2>3, <2>6, <2>7, <2>8
  <2>10. InFlight(t) <= MaxData
    BY <1>6, <2>8, <2>9
  <2> QED BY <2>3, <2>7, <2>10 DEF Sound
<1> QED BY <1>9, <1>10

\* A window is room within the credit; with nothing under way it has room for a
\* packet.
LEMMA WindowRoom ==
  ASSUME NEW w \in 0 .. Total, NEW s, Good(s, w)
  PROVE  /\ AvailableWindow(s) \in Nat /\ ConnectionWindow(s) \in Nat
         /\ AvailableWindow(s) > 0 => InFlight(s) + AvailableWindow(s) <= MaxData
         /\ ConnectionWindow(s) > 0 => InFlight(s) + ConnectionWindow(s) <= MaxData
         /\ InFlight(s) = 0 => AvailableWindow(s) >= SegSize
         /\ InFlight(s) \in Nat
<1>1. /\ InFlight(s) \in Nat /\ s.cwnd \in Windows
  BY InFlightNatural DEF Good, Sender
<1>2. /\ MaxData \in Nat /\ s.cwnd \in Nat /\ SegSize \in Nat /\ MaxData >= SegSize
      /\ s.cwnd >= SegSize
  <2>1. MinWindow >= SegSize /\ MinWindow \in Nat /\ SegSize \in Nat
    BY QuicStreamAssumption DEF MinWindow
  <2>2. s.cwnd >= MinWindow /\ s.cwnd \in Nat
    BY <1>1, QuicStreamAssumption
  <2>3. s.cwnd >= SegSize
    BY <2>1, <2>2
  <2> QED BY <2>1, <2>2, <2>3, QuicStreamAssumption
<1>3. PICK m : m = Min({MaxData, s.cwnd})
  OBVIOUS
<1>4. m \in Nat /\ m <= MaxData /\ m >= SegSize
  <2>1. {MaxData, s.cwnd} \subseteq Nat /\ {MaxData, s.cwnd} # {}
    BY <1>2
  <2>2. m \in {MaxData, s.cwnd} /\ m <= MaxData
    BY <1>3, <2>1, MinNatural
  <2> QED BY <1>2, <2>2
<1>5. AvailableWindow(s) = IF m - InFlight(s) > 0 THEN m - InFlight(s) ELSE 0
  BY <1>3 DEF AvailableWindow, Positive
<1>6. ConnectionWindow(s) = IF MaxData - InFlight(s) > 0 THEN MaxData - InFlight(s) ELSE 0
  BY DEF ConnectionWindow, Positive
<1> QED BY <1>1, <1>2, <1>4, <1>5, <1>6

\* A packet for no more than a window is within the credit.
LEMMA SendWithin ==
  ASSUME NEW w \in 0 .. Total, NEW s, Good(s, w), Sound(s), NEW n \in Nat,
         n > 0 => InFlight(s) + n <= MaxData,
         NEW t \in SendDataPacket(Numbered(s), Min({n, SegSize}))
  PROVE  Sound(t) /\ t.pacing /\ (Watched(s) => Watched(t))
<1>1. /\ Good(Numbered(s), w) /\ Numbered(s).list = s.list /\ Numbered(s).queue = s.queue
      /\ Numbered(s).armed = s.armed
  BY NumberedKeeps DEF Good, Sender, Numbered
<1>2. /\ Apart(Numbered(s)) /\ InFlight(Numbered(s)) = InFlight(s)
      /\ Watched(s) => Watched(Numbered(s))
  BY <1>1, AsideSound DEF Sound, Watched
<1>3. Min({n, SegSize}) \in Nat /\ Min({n, SegSize}) <= n
  BY PacketRoom
<1>4. /\ Apart(t) /\ InFlight(t) <= InFlight(s) + Min({n, SegSize}) /\ InFlight(t) \in Nat
      /\ t.pacing /\ (Watched(Numbered(s)) => Watched(t))
  BY <1>1, <1>2, <1>3, SendSound
<1>5. InFlight(s) \in Nat /\ MaxData \in Nat /\ InFlight(s) <= MaxData
  BY InFlightNatural, QuicStreamAssumption DEF Good, Sound
<1>6. InFlight(t) <= MaxData
  BY <1>3, <1>4, <1>5
<1> QED BY <1>2, <1>4, <1>6 DEF Sound

\* Pending data stays within the window, and what still waits has a timer.
LEMMA PendingSound ==
  ASSUME NEW w \in 0 .. Total, NEW s, Good(s, w), Sound(s), NEW t \in SendPendingData(s)
  PROVE  Sound(t) /\ (s.pacing => t.pacing) /\ (Watched(s) => Timed(t))
<1> DEFINE available == AvailableWindow(s)
<1>1. /\ available \in Nat /\ InFlight(s) \in Nat
      /\ available > 0 => InFlight(s) + available <= MaxData
      /\ InFlight(s) = 0 => available >= SegSize
  BY WindowRoom
<1>2. SegSize \in Nat /\ SegSize > 0
  BY QuicStreamAssumption
<1>3. CASE s.queue = {} \/ s.pacing
  <2>1. t = s
    BY <1>3 DEF SendPendingData
  <2> QED BY <1>3, <2>1 DEF Timed
<1>4. CASE /\ ~(s.queue = {} \/ s.pacing)
           /\ available = 0 \/ (available < SegSize /\ available < Size(s.queue))
  <2>1. t = s
    BY <1>4 DEF SendPendingData
  <2>2. InFlight(s) # 0
    BY <1>1, <1>2, <1>4
  <2>3. s.list # {}
    <3>1. Carried({}) = {} /\ {} \subseteq Fr(w)
      BY DEF Carried
    <3>2. Size({}) = 0
      BY <3>1, SizePositive
    <3> QED BY <2>2, <3>1, <3>2 DEF InFlight, Carried
  <2> QED BY <2>1, <2>3 DEF Timed, Watched
<1>5. CASE ~(\/ s.queue = {} \/ s.pacing \/ available = 0
             \/ available < SegSize /\ available < Size(s.queue))
  <2>1. t \in SendDataPacket(Numbered(s), Min({available, SegSize}))
    BY <1>5 DEF SendPendingData
  <2> HIDE DEF available
  <2>2. Sound(t) /\ t.pacing /\ (Watched(s) => Watched(t))
    BY <1>1, <2>1, SendWithin
  <2> QED BY <2>2 DEF Timed
<1> QED BY <1>3, <1>4, <1>5

LEMMA FlushSound ==
  ASSUME NEW w \in 0 .. Total, NEW s, Good(s, w), Sound(s)
  PROVE  Sound(Flush(s)) /\ Flush(s).pacing = s.pacing
<1>1. CASE s.list = {}
  BY <1>1 DEF Flush
<1>2. CASE s.list # {}
  <2>1. /\ Good(Numbered(s), w) /\ Numbered(s).list = s.list /\ Numbered(s).queue = s.queue
        /\ Numbered(s).pacing = s.pacing
    BY NumberedKeeps DEF Good, Sender, Numbered
  <2>2. Sound(Numbered(s))
    BY <2>1, AsideSound
  <2>3. PICK t : t = Requeue(Numbered(s), s.list)
    OBVIOUS
  <2>4. /\ Apart(t) /\ InFlight(Numbered(s)) = InFlight(t) + Size(Carried(s.list))
        /\ t.pacing = s.pacing /\ Good(t, w)
    BY <2>1, <2>2, <2>3, RequeueSound, RequeueSafe DEF Sound, Safe
  <2>5. Size(Carried(s.list)) \in Nat /\ InFlight(t) \in Nat /\ MaxData \in Nat
    <3>1. Carried(s.list) \subseteq Fr(w)
      BY CarriedFrames DEF Good
    <3> QED BY <2>4, <3>1, SizeNatural, InFlightNatural, QuicStreamAssumption DEF Good
  <2>6. InFlight(t) <= MaxData
    BY <2>2, <2>4, <2>5 DEF Sound
  <2> QED BY <1>2, <2>3, <2>4, <2>6 DEF Flush, Sound
<1> QED BY <1>1, <1>2

\* A probe is within the credit and leaves the pacing timer running.
LEMMA ProbeSound ==
  ASSUME NEW w \in 0 .. Total, NEW s, Good(s, w), Sound(s), NEW window \in Nat,
         window > 0 => InFlight(s) + window <= MaxData, NEW t \in Probe(s, window)
  PROVE  Sound(t) /\ t.pacing
<1>1. PICK u : u = [s EXCEPT !.pacing = FALSE]
  OBVIOUS
<1>2. s \in Sender(w)
  BY DEF Good
<1>3. u \in Sender(w) /\ Aside(s, u)
  BY <1>1, <1>2 DEF Sender, Aside
<1>4. Good(u, w) /\ Sound(u) /\ InFlight(u) = InFlight(s)
  BY <1>3, AsideKeeps, AsideSound DEF Aside
<1>5. CASE window = 0 /\ InFlight(s) > 0
  <2>1. t \in DoRetransmit(u, Oldest(s))
    BY <1>1, <1>5 DEF Probe
  <2>2. Oldest(s) \subseteq u.list
    BY <1>3 DEF Oldest, Aside
  <2>3. s.list # {}
    <3>1. Carried({}) = {} /\ {} \subseteq Fr(w)
      BY DEF Carried
    <3>2. Size({}) = 0
      BY <3>1, SizePositive
    <3> QED BY <1>5, <3>1, <3>2 DEF InFlight, Carried
  <2>4. Oldest(s) # {}
    <3> DEFINE numbers == {p.pn : p \in s.list}
    <3>1. numbers \subseteq Nat /\ numbers # {}
      BY <1>2, <2>3 DEF Sender, Pk
    <3>2. PICK m \in numbers : \A k \in numbers : m <= k
      <4> HIDE DEF numbers
      <4> QED BY <3>1, LeastNatural
    <3>3. PICK p \in s.list : p.pn = m
      BY <3>2
    <3>4. p \in Oldest(s)
      BY <3>2, <3>3 DEF Oldest
    <3> QED BY <3>4
  <2> QED BY <1>4, <2>1, <2>2, <2>4, RetransmitSound
<1>6. CASE ~(window = 0 /\ InFlight(s) > 0)
  <2>1. t \in SendDataPacket(Numbered(u), Min({window, SegSize}))
    BY <1>1, <1>6 DEF Probe
  <2> QED BY <1>4, <2>1, SendWithin
<1> QED BY <1>5, <1>6

LEMMA TailLossProbeSound ==
  ASSUME NEW w \in 0 .. Total, NEW s, Good(s, w), Sound(s), NEW t \in TailLossProbe(s)
  PROVE  Sound(t) /\ t.pacing
<1>1. PICK u \in Probe(s, ConnectionWindow(s)) : t = [u EXCEPT !.tlp = @ + 1]
  BY DEF TailLossProbe
<1>2. Sound(u) /\ u.pacing
  BY <1>1, WindowRoom, ProbeSound
<1>3. u \in Sender(w)
  BY <1>1, ProbeSafe DEF Safe, Good
<1>4. t.queue = u.queue /\ t.list = u.list /\ t.pacing = u.pacing
  BY <1>1, <1>3 DEF Sender
<1> QED BY <1>2, <1>4, AsideSound

\* Declaring everything lost, with the smallest window.
LEMMA FreedSound ==
  ASSUME NEW w \in 0 .. Total, NEW s, Good(s, w), Sound(s), s.pacing,
         NEW y \in Sender(w), Aside(s, y), y.pacing = s.pacing, NEW t \in SendPendingData(Flush(y))
  PROVE  Sound(t) /\ t.pacing
<1>1. Good(y, w) /\ Sound(y)
  BY AsideKeeps, AsideSound DEF Aside
<1>2. Sound(Flush(y)) /\ Flush(y).pacing /\ Good(Flush(y), w)
  BY <1>1, FlushSound, FlushSafe DEF Safe
<1> QED BY <1>2, PendingSound

LEMMA TimeoutSound ==
  ASSUME NEW w \in 0 .. Total, NEW s, Good(s, w), Sound(s), NEW t \in RetransmissionTimeout(s)
  PROVE  Sound(t) /\ t.pacing
<1> DEFINE probed == UNION {Probe(x, AvailableWindow(x)) : x \in Probe(s, AvailableWindow(s))}
           counted == {[x EXCEPT !.rto = @ + 1] : x \in probed}
<1>1. ASSUME NEW x \in counted
      PROVE  Sound(x) /\ x.pacing /\ Good(x, w) /\ x \in Sender(w)
  <2>1. PICK p1 \in Probe(s, AvailableWindow(s)) :
          \E p2 \in Probe(p1, AvailableWindow(p1)) : x = [p2 EXCEPT !.rto = @ + 1]
    BY <1>1
  <2>2. PICK p2 \in Probe(p1, AvailableWindow(p1)) : x = [p2 EXCEPT !.rto = @ + 1]
    BY <2>1
  <2>3. Sound(p1) /\ Good(p1, w)
    BY WindowRoom, ProbeSound, ProbeSafe DEF Safe
  <2>4. Sound(p2) /\ p2.pacing /\ Good(p2, w)
    BY <2>3, WindowRoom, ProbeSound, ProbeSafe DEF Safe
  <2>5. p2 \in Sender(w)
    BY <2>4 DEF Good
  <2>6. x \in Sender(w) /\ Aside(p2, x) /\ x.pacing = p2.pacing
    BY <2>2, <2>5 DEF Sender, Aside
  <2> QED BY <2>4, <2>6, AsideKeeps, AsideSound DEF Aside
<1>2. ASSUME NEW x \in counted, t \in SendPendingData(Flush([x EXCEPT !.cwnd = MinWindow]))
      PROVE  Sound(t) /\ t.pacing
  <2>1. PICK y : y = [x EXCEPT !.cwnd = MinWindow]
    OBVIOUS
  <2>2. Good(x, w) /\ x \in Sender(w) /\ Sound(x) /\ x.pacing
    BY <1>1
  <2>3. y \in Sender(w) /\ Aside(x, y) /\ y.pacing = x.pacing
    BY <2>1, <2>2, WindowsNatural DEF Sender, Aside
  <2> QED BY <1>2, <2>1, <2>2, <2>3, FreedSound
<1>3. \/ t \in counted
      \/ \E x \in counted : t \in SendPendingData(Flush([x EXCEPT !.cwnd = MinWindow]))
  <2>1. RetransmissionTimeout(s) =
          IF s.rto = 0 THEN counted
          ELSE UNION {SendPendingData(Flush([x EXCEPT !.cwnd = MinWindow])) : x \in counted}
    BY DEF RetransmissionTimeout
  <2> HIDE DEF counted
  <2> QED BY <2>1
<1> HIDE DEF counted
<1> QED BY <1>1, <1>2, <1>3

LEMMA UnstickSound ==
  ASSUME NEW w \in 0 .. Total, NEW s, Good(s, w), Sound(s), s.pacing, NEW t \in Unstick(s)
  PROVE  Sound(t) /\ t.pacing
<1>1. s \in Sender(w)
  BY DEF Good
<1> DEFINE freed == [s EXCEPT !.cwnd = MinWindow, !.stuck = 0, !.lastBiF = 0]
<1>2. \/ \E count : t = [s EXCEPT !.stuck = count, !.lastBiF = InFlight(s)]
      \/ t \in SendPendingData(Flush(freed))
  BY DEF Unstick
<1>3. ASSUME NEW count, t = [s EXCEPT !.stuck = count, !.lastBiF = InFlight(s)]
      PROVE  Sound(t) /\ t.pacing
  <2>1. t.queue = s.queue /\ t.list = s.list /\ t.pacing = s.pacing
    BY <1>1, <1>3 DEF Sender
  <2> QED BY <2>1, AsideSound
<1>4. ASSUME t \in SendPendingData(Flush(freed))
      PROVE  Sound(t) /\ t.pacing
  <2>1. PICK y : y = freed
    OBVIOUS
  <2>2. y \in Sender(w) /\ Aside(s, y) /\ y.pacing = s.pacing
    <3>1. y = [s EXCEPT !.cwnd = MinWindow, !.stuck = 0, !.lastBiF = 0]
      BY <2>1
    <3> HIDE DEF freed
    <3>2. y \in Sender(w)
      BY <1>1, <3>1, WindowsNatural, 0 \in 0 .. 2 DEF Sender
    <3> QED BY <1>1, <3>1, <3>2 DEF Sender, Aside
  <2> QED BY <1>4, <2>1, <2>2, FreedSound
<1> HIDE DEF freed
<1> QED BY <1>2, <1>3, <1>4

\* The alarm leaves the pacing timer running and itself, while anything is
\* under way.
LEMMA AlarmSound ==
  ASSUME NEW w \in 0 .. Total, NEW s, Good(s, w), Sound(s), NEW t \in ReTxTimeout(s)
  PROVE  Sound(t) /\ Timed(t)
<1> DEFINE begun == [s EXCEPT !.armed = FALSE,
                              !.epoch = IF s.tlp = 0 /\ s.rto = 0 THEN s.high ELSE @]
           tried == IF s.tlp < MaxTLPs THEN TailLossProbe(begun) ELSE RetransmissionTimeout(begun)
<1>1. PICK x \in tried : \E y \in Unstick(x) : t = [y EXCEPT !.armed = @ \/ InFlight(y) > 0]
  BY DEF ReTxTimeout
<1>2. PICK y \in Unstick(x) : t = [y EXCEPT !.armed = @ \/ InFlight(y) > 0]
  BY <1>1
<1>3. PICK b : b = begun
  OBVIOUS
<1>4. s \in Sender(w)
  BY DEF Good
<1>5. b \in Sender(w) /\ Aside(s, b)
  <2>1. PICK e : e = IF s.tlp = 0 /\ s.rto = 0 THEN s.high ELSE s.epoch
    OBVIOUS
  <2>2. e \in Nat
    BY <1>4, <2>1 DEF Sender
  <2>3. b = [s EXCEPT !.armed = FALSE, !.epoch = e]
    BY <1>3, <1>4, <2>1 DEF Sender
  <2> QED BY <1>4, <2>2, <2>3 DEF Sender, Aside
<1>6. Good(b, w) /\ Sound(b)
  BY <1>5, AsideKeeps, AsideSound DEF Aside
<1>7. x \in IF s.tlp < MaxTLPs THEN TailLossProbe(b) ELSE RetransmissionTimeout(b)
  BY <1>1, <1>3
<1> HIDE DEF begun, tried
<1>8. Sound(x) /\ x.pacing /\ Good(x, w)
  <2>1. CASE s.tlp < MaxTLPs
    BY <1>6, <1>7, <2>1, TailLossProbeSound, TailLossProbeKeeps
  <2>2. CASE ~(s.tlp < MaxTLPs)
    BY <1>6, <1>7, <2>2, TimeoutSound, TimeoutSafe DEF Safe
  <2> QED BY <2>1, <2>2
<1>9. Sound(y) /\ y.pacing /\ Good(y, w) /\ y \in Sender(w)
  BY <1>2, <1>8, UnstickSound, UnstickSafe DEF Safe, Good
<1>10. /\ t.queue = y.queue /\ t.list = y.list /\ t.pacing = y.pacing
       /\ t.armed = (y.armed \/ InFlight(y) > 0)
  BY <1>2, <1>9 DEF Sender
<1>11. Sound(t) /\ t.pacing
  BY <1>9, <1>10, AsideSound
<1>12. Watched(t)
  <2> SUFFICES ASSUME y.list # {} PROVE InFlight(y) > 0
    BY <1>10 DEF Watched
  <2>1. Carried(y.list) \subseteq Fr(w)
    BY <1>9, CarriedFrames
  <2>2. Carried(y.list) # {}
    BY <1>9 DEF Carried, Sound, Apart
  <2> QED BY <2>1, <2>2, SizePositive DEF InFlight, Carried
<1> QED BY <1>11, <1>12 DEF Timed

LEMMA AckSound ==
  ASSUME NEW w \in 0 .. Total, NEW s, Good(s, w), Sound(s), NEW ack,
         NEW t \in OnReceivedAckFrame(s, ack)
  PROVE  Sound(t) /\ t.armed
<1>1. PICK c : c = Cleaned(s, ack)
  OBVIOUS
<1>2. Good(c, w) /\ c.list = s.list \ Sacked(s, ack) /\ s \in Sender(w)
  BY <1>1, CleanedGood DEF Good
<1>3. c.queue = s.queue
  BY <1>1, <1>2 DEF Cleaned, Sender
<1>4. Sound(c)
  <2>1. Apart(c)
    BY <1>2, <1>3 DEF Sound, Apart
  <2>2. InFlight(c) <= InFlight(s)
    <3>1. Carried(c.list) \subseteq Carried(s.list) /\ Carried(s.list) \subseteq Fr(w)
      BY <1>2, CarriedFrames DEF Carried
    <3> QED BY <3>1, SizeMonotone DEF InFlight, Carried
  <2>3. InFlight(c) \in Nat /\ InFlight(s) \in Nat /\ MaxData \in Nat
    BY <1>2, InFlightNatural, QuicStreamAssumption DEF Good
  <2>4. InFlight(c) <= MaxData
    BY <2>2, <2>3 DEF Sound
  <2> QED BY <2>1, <2>4 DEF Sound
<1> DEFINE repaired == IF Lost(s, ack) = {} THEN {c} ELSE DoRetransmit(c, Lost(s, ack))
           counted == UNION {{[x EXCEPT !.cwnd = v, !.rto = IF Resumed(s, ack) THEN 0 ELSE @] :
                                v \in WindowsAfter(s, ack)} : x \in repaired}
<1>5. OnReceivedAckFrame(s, ack) =
        {[x EXCEPT !.armed = TRUE] : x \in UNION {SendPendingData(y) : y \in counted}}
  BY <1>1 DEF OnReceivedAckFrame, Cleaned
<1>6. \A y \in counted : \E x \in repaired, v \in WindowsAfter(s, ack) :
        y = [x EXCEPT !.cwnd = v, !.rto = IF Resumed(s, ack) THEN 0 ELSE @]
  <2> TAKE y \in counted
  <2>1. PICK x \in repaired :
          y \in {[x EXCEPT !.cwnd = v, !.rto = IF Resumed(s, ack) THEN 0 ELSE @] :
                   v \in WindowsAfter(s, ack)}
    OBVIOUS
  <2>2. PICK v \in WindowsAfter(s, ack) :
          y = [x EXCEPT !.cwnd = v, !.rto = IF Resumed(s, ack) THEN 0 ELSE @]
    BY <2>1
  <2> HIDE DEF counted, repaired
  <2> QED BY <2>2
<1> HIDE DEF counted
<1>7. \E y \in counted : \E z \in SendPendingData(y) : t = [z EXCEPT !.armed = TRUE]
  BY <1>5
<1>8. PICK y \in counted : \E z \in SendPendingData(y) : t = [z EXCEPT !.armed = TRUE]
  BY <1>7
<1>9. PICK z \in SendPendingData(y) : t = [z EXCEPT !.armed = TRUE]
  BY <1>8
<1>10. PICK x \in repaired, v \in WindowsAfter(s, ack) :
         y = [x EXCEPT !.cwnd = v, !.rto = IF Resumed(s, ack) THEN 0 ELSE @]
  BY <1>6
<1>11. Sound(x) /\ Good(x, w)
  <2>1. Lost(s, ack) \subseteq c.list
    BY <1>2 DEF Lost
  <2>2. CASE Lost(s, ack) = {}
    BY <1>2, <1>4, <1>10, <2>2
  <2>3. CASE Lost(s, ack) # {}
    BY <1>2, <1>4, <1>10, <2>1, <2>3, RetransmitSound, RetransmitSafe DEF Safe
  <2> QED BY <2>2, <2>3
<1> HIDE DEF repaired
<1>12. Sound(y) /\ Good(y, w)
  <2>1. x \in Sender(w)
    BY <1>11 DEF Good
  <2>2. PICK r : r = IF Resumed(s, ack) THEN 0 ELSE x.rto
    OBVIOUS
  <2>3. r \in Nat /\ v \in Windows
    BY <2>1, <2>2 DEF Sender, WindowsAfter
  <2>4. y = [x EXCEPT !.cwnd = v, !.rto = r]
    BY <1>10, <2>1, <2>2 DEF Sender
  <2>5. y \in Sender(w) /\ Aside(x, y)
    BY <2>1, <2>3, <2>4 DEF Sender, Aside
  <2> QED BY <1>11, <2>5, AsideKeeps, AsideSound DEF Aside
<1>13. Sound(z) /\ z \in Sender(w)
  BY <1>9, <1>12, PendingSound, PendingSafe DEF Safe, Good
<1>14. t.queue = z.queue /\ t.list = z.list /\ t.armed = TRUE
  BY <1>9, <1>13 DEF Sender
<1> QED BY <1>13, <1>14, AsideSound

------------------------------------------------------------------------------
(* The theorems.                                                           *)

LEMMA InitInv == Init => IInv
<1> SUFFICES ASSUME Init PROVE IInv
  OBVIOUS
<1>1. PICK v \in Windows :
        tx = [queue |-> {}, list |-> {}, next |-> 0, high |-> 0, cwnd |-> v,
              tlp |-> 0, rto |-> 0, epoch |-> 0, stuck |-> 0, lastBiF |-> 0,
              pacing |-> FALSE, armed |-> FALSE, out |-> {}]
  BY DEF Init
<1>2. PICK t : t = tx
  OBVIOUS
<1>3. /\ t.list = {} /\ t.out = {} /\ t.next = 0 /\ t.tlp = 0 /\ t \in Sender(0)
  <2>1. FALSE \in BOOLEAN
    OBVIOUS
  <2> QED BY <1>1, <1>2, <2>1 DEF Sender
<1>4. written = 0 /\ written \in 0 .. Total
  BY QuicStreamAssumption DEF Init
<1>5. SenderInv
  BY <1>2, <1>3, <1>4, QuicStreamAssumption DEF SenderInv, Good, Numbers
<1>6. WireInv
  BY DEF Init, WireInv
<1>7. /\ rx.got = {0} /\ rx.inbox = {} /\ rx.recvSize = 0 /\ rx.held = {}
      /\ rx = [got |-> {0}, due |-> FALSE, inbox |-> {}, recvSize |-> 0, held |-> {},
               open |-> TRUE]
      /\ history = [cut |-> FALSE, dropped |-> {}]
  BY DEF Init
<1>8. ReceiverInv
  <2>1. {0} \subseteq 0 .. tx.next
    BY <1>2, <1>3
  <2>2. Cardinality({}) = 0
    BY FS_EmptySet
  <2>3. rx \in [got : SUBSET (0 .. tx.next), due : BOOLEAN, inbox : SUBSET Fr(written),
                recvSize : 0 .. written, held : SUBSET (0 .. (written - 1)), open : BOOLEAN]
    BY <1>4, <1>7, <2>1
  <2>4. history \in [cut : BOOLEAN, dropped : SUBSET Nat]
    BY <1>7
  <2> QED BY <1>7, <2>2, <2>3, <2>4, QuicStreamAssumption DEF ReceiverInv
<1>9. AckInv
  BY DEF Init, AckInv
<1>10. GotInv
  BY <1>2, <1>3 DEF GotInv
<1>11. Kept
  <2>1. 0 .. (written - 1) = {}
    BY <1>4
  <2> QED BY <2>1 DEF Kept
<1>12. HandedOver
  <2>1. Stream!Run(0, 0) = <<>>
    BY DEF Stream!Run
  <2> QED BY <1>7, <2>1 DEF Init, HandedOver
<1> QED BY <1>4, <1>5, <1>6, <1>8, <1>9, <1>10, <1>11, <1>12 DEF IInv

\* Each step keeps the invariant and, seen as a pipe, is a step of ByteStream.
LEMMA StepInv ==
  ASSUME IInv, [Next]_vars
  PROVE  IInv' /\ [Stream!Next]_(Stream!vars)
<1>1. CASE AppendingTx
  <2>1. IInv' /\ written' \in (written + 1) .. Total /\ app' = app
    BY <1>1, AppendingTxStep
  <2> QED BY <2>1 DEF Stream!Next, Stream!Write
<1>2. CASE NotifyPacingPerformed
  <2>1. UNCHANGED <<written, app>>
    BY <1>2 DEF NotifyPacingPerformed
  <2> QED BY <1>2, <2>1, PacingStep DEF Stream!vars
<1>3. CASE Alarm
  <2>1. UNCHANGED <<written, app>>
    BY <1>3 DEF Alarm
  <2> QED BY <1>3, <2>1, AlarmStep DEF Stream!vars
<1>4. ASSUME NEW ack \in acks, ReceiveAck(ack)
      PROVE  IInv' /\ [Stream!Next]_(Stream!vars)
  <2>1. UNCHANGED <<written, app>>
    BY <1>4 DEF ReceiveAck
  <2> QED BY <1>4, <2>1, AckStep DEF Stream!vars
<1>5. ASSUME NEW packet \in wire, Arrive(packet)
      PROVE  IInv' /\ [Stream!Next]_(Stream!vars)
  <2>1. UNCHANGED <<written, app>>
    BY <1>5 DEF Arrive
  <2> QED BY <1>5, <2>1, ArriveStep DEF Stream!vars
<1>6. CASE Recv
  <2>1. rx.inbox # {} /\ UNCHANGED <<written, tx, wire, acks, troubles>>
    BY <1>6 DEF Recv
  <2>2. CASE RecvInOrder(First(rx.inbox))
    <3>1. /\ IInv'
          /\ rx'.recvSize \in (rx.recvSize + 1) .. written
          /\ app' = app \o Stream!Run(rx.recvSize, rx'.recvSize)
      BY <2>1, <2>2, RecvInOrderStep
    <3>2. Len(app) = rx.recvSize
      BY ReceiverNow DEF IInv, HandedOver, Stream!Run
    <3>3. Stream!Deliver
      BY <2>1, <3>1, <3>2 DEF Stream!Deliver
    <3> QED BY <3>1, <3>3 DEF Stream!Next
  <2>3. CASE RecvBuffered(First(rx.inbox))
    <3>1. IInv' /\ app' = app
      BY <2>1, <2>3, RecvBufferedStep
    <3> QED BY <2>1, <3>1 DEF Stream!vars
  <2> QED BY <1>6, <2>2, <2>3 DEF Recv
<1>7. CASE SendAck
  <2>1. UNCHANGED <<written, app>>
    BY <1>7 DEF SendAck
  <2> QED BY <1>7, <2>1, SendAckStep DEF Stream!vars
<1>8. CASE Lose
  <2>1. UNCHANGED <<written, app>>
    BY <1>8 DEF Lose
  <2> QED BY <1>8, <2>1, LoseStep DEF Stream!vars
<1>9. CASE UNCHANGED vars
  <2>1. UNCHANGED <<written, tx, wire, rx, app, acks, troubles, history>>
    BY <1>9 DEF vars
  <2>2. SenderInv' /\ ReceiverInv' /\ HandedOver' /\ (written \in 0 .. Total)'
    BY <2>1 DEF IInv, SenderInv, ReceiverInv, HandedOver
  <2>3. WireInv' /\ AckInv'
    BY <2>1 DEF IInv, WireInv, AckInv
  <2>4. GotInv' /\ Kept'
    BY <2>1 DEF IInv, GotInv, Kept, Has, Reached, Arrived
  <2> QED BY <2>1, <2>2, <2>3, <2>4 DEF IInv, Stream!vars
<1> QED
  BY <1>1, <1>2, <1>3, <1>4, <1>5, <1>6, <1>7, <1>8, <1>9 DEF Next, Event

\* The invariant gives the types.
LEMMA InvTypes == IInv => TypeOK
<1> SUFFICES ASSUME IInv PROVE TypeOK
  OBVIOUS
<1>1. Fr(written) \subseteq Frames /\ Pk(written) \subseteq Packets
  BY DEF Fr, Pk, Packets
<1>2. /\ tx.queue \subseteq Fr(written) /\ tx.list \subseteq Pk(written)
      /\ tx.cwnd \in Windows /\ tx.tlp \in Nat /\ tx.stuck \in 0 .. 2
  BY SenderNow DEF Sender
<1>3. tx.tlp \in 0 .. MaxTLPs
  BY <1>2, SenderNow, QuicStreamAssumption
<1>4. wire \subseteq Pk(written) /\ acks \subseteq [largest : Nat, missing : SUBSET Nat]
  BY DEF IInv, WireInv, AckInv
<1> QED BY <1>1, <1>2, <1>3, <1>4, ReceiverNow DEF TypeOK

\* The invariant gives that nothing is forgotten.
LEMMA InvForgets == IInv => NothingForgotten
BY DEF IInv, Kept, Has, Reached, NothingForgotten, Queued, Outstanding

\* Between events the sender is sound, too, and a timer runs.
SoundInv == IInv /\ Sound(tx) /\ Timed(tx)

\* What a step of the sender leaves, it leaves as tx.
LEMMA BecomesSound ==
  ASSUME NEW w, NEW t, Good(t, w), Sound(t), Timed(t), tx' = [t EXCEPT !.out = {}]
  PROVE  Sound(tx)' /\ Timed(tx)'
<1>1. PICK v : v = tx'
  OBVIOUS
<1>2. v.queue = t.queue /\ v.list = t.list /\ v.armed = t.armed /\ v.pacing = t.pacing
  BY <1>1 DEF Good, Sender
<1>3. Sound(v) /\ Timed(v)
  BY <1>2, AsideSound DEF Timed, Watched
<1> QED BY <1>1, <1>3 DEF Sound, Timed, Watched, Apart, InFlight

LEMMA SoundStep ==
  ASSUME SoundInv, [Next]_vars
  PROVE  SoundInv'
<1> USE DEF SoundInv
<1>1. IInv'
  BY StepInv
<1>2. PICK s : s = tx
  OBVIOUS
<1>3. PICK w : w = written
  OBVIOUS
<1>4. w \in 0 .. Total /\ Good(s, w) /\ Sound(s) /\ Timed(s) /\ s \in Sender(w)
  BY <1>2, <1>3, SenderNow
<1>5. CASE AppendingTx
  <2>1. PICK size \in WriteSizes :
          /\ written + size <= Total
          /\ written' = written + size
          /\ LET frame == [from |-> written, to |-> written + size, retx |-> FALSE]
             IN Becomes(SendPendingData([tx EXCEPT !.queue = @ \union {frame}]))
    BY <1>5 DEF AppendingTx
  <2>2. PICK v : v = written'
    OBVIOUS
  <2>3. PICK frame : frame = Written(w, v)
    OBVIOUS
  <2>4. PICK c : c = Appended(s, frame)
    OBVIOUS
  <2>5. PICK t \in SendPendingData(c) : tx' = [t EXCEPT !.out = {}]
    BY <1>2, <1>3, <2>1, <2>2, <2>3, <2>4 DEF Becomes, Written, Appended
  <2>6. size \in Nat /\ size >= 1 /\ w \in Nat /\ v = w + size /\ v \in 0 .. Total
    <3>1. size \in Nat /\ size >= 1
      BY QuicStreamAssumption
    <3> QED BY <1>3, <1>4, <2>1, <2>2, <3>1, QuicStreamAssumption
  <2>7. w < v
    BY <2>6
  <2>8. /\ Good(c, v) /\ Bytes(frame) = w .. (v - 1)
        /\ c.list = s.list /\ c.armed = s.armed /\ c.queue = s.queue \union {frame}
    BY <1>4, <2>3, <2>4, <2>6, <2>7, AppendedGood
  <2>9. BytesOf(s.queue) \subseteq 0 .. (w - 1) /\ BytesOf(Carried(s.list)) \subseteq 0 .. (w - 1)
    <3>1. s.queue \subseteq Fr(w) /\ Carried(s.list) \subseteq Fr(w)
      BY <1>4, CarriedFrames
    <3> QED BY <1>4, <3>1, BytesInRange
  <2>10. (0 .. (w - 1)) \intersect (w .. (v - 1)) = {}
    BY <2>6
  <2>11. Spread(c.queue)
    <3>1. Bytes(frame) \intersect BytesOf(s.queue) = {}
      BY <2>8, <2>9, <2>10
    <3>2. Spread(s.queue)
      BY <1>4 DEF Sound, Apart
    <3>3. Spread(s.queue \union {frame})
      BY <3>1, <3>2, SpreadWith
    <3> QED BY <2>8, <3>3
  <2>12. \A p \in c.list : BytesOf(p.frames) \intersect BytesOf(c.queue) = {}
    <3> TAKE p \in c.list
    <3>1. BytesOf(p.frames) \subseteq BytesOf(Carried(s.list))
      BY <2>8 DEF BytesOf, Carried
    <3>2. BytesOf(c.queue) = BytesOf(s.queue) \union Bytes(frame)
      BY <2>8 DEF BytesOf
    <3>3. BytesOf(p.frames) \intersect BytesOf(s.queue) = {}
      BY <1>4, <2>8 DEF Sound, Apart
    <3> QED BY <2>8, <2>9, <2>10, <3>1, <3>2, <3>3
  <2>13. Sound(c) /\ Watched(c)
    BY <1>4, <2>8, <2>11, <2>12 DEF Sound, Apart, InFlight, Timed, Watched
  <2>14. Sound(t) /\ Timed(t) /\ Good(t, v)
    BY <2>5, <2>6, <2>8, <2>13, PendingSound, PendingSafe DEF Safe
  <2> QED BY <1>1, <2>5, <2>14, BecomesSound
<1>6. CASE NotifyPacingPerformed
  <2>1. PICK c : c = [s EXCEPT !.pacing = FALSE]
    OBVIOUS
  <2>2. PICK t \in SendPendingData(c) : tx' = [t EXCEPT !.out = {}]
    BY <1>2, <1>6, <2>1 DEF NotifyPacingPerformed, Becomes
  <2>3. c \in Sender(w) /\ Aside(s, c) /\ c.armed = s.armed
    BY <1>4, <2>1 DEF Sender, Aside
  <2>4. Good(c, w) /\ Sound(c) /\ Watched(c)
    BY <1>4, <2>3, AsideKeeps, AsideSound DEF Aside, Timed, Watched
  <2>5. Sound(t) /\ Timed(t) /\ Good(t, w)
    BY <1>4, <2>2, <2>4, PendingSound, PendingSafe DEF Safe
  <2> QED BY <1>1, <2>2, <2>5, BecomesSound
<1>7. CASE Alarm
  <2>1. PICK t \in ReTxTimeout(s) : tx' = [t EXCEPT !.out = {}]
    BY <1>2, <1>7 DEF Alarm, Becomes
  <2>2. Sound(t) /\ Timed(t) /\ Good(t, w)
    BY <1>4, <2>1, AlarmSound, AlarmKeeps
  <2> QED BY <1>1, <2>1, <2>2, BecomesSound
<1>8. ASSUME NEW ack \in acks, ReceiveAck(ack) PROVE SoundInv'
  <2>1. PICK t \in OnReceivedAckFrame(s, ack) : tx' = [t EXCEPT !.out = {}]
    BY <1>2, <1>8 DEF ReceiveAck, Becomes
  <2>2. Sound(t) /\ t.armed
    BY <1>4, <2>1, AckSound
  <2>3. Good(t, w)
    BY <1>4, <2>1, AckKeeps DEF Safe
  <2>4. Timed(t)
    BY <2>2 DEF Timed, Watched
  <2> QED BY <1>1, <2>1, <2>2, <2>3, <2>4, BecomesSound
<1>9. CASE UNCHANGED tx
  BY <1>1, <1>9 DEF Sound, Timed, Watched, Apart, InFlight
<1>10. [Next]_vars => \/ AppendingTx \/ NotifyPacingPerformed \/ Alarm
                      \/ \E ack \in acks : ReceiveAck(ack)
                      \/ UNCHANGED tx
  BY DEF Next, Event, Arrive, Recv, SendAck, Lose, vars
<1> QED BY <1>5, <1>6, <1>7, <1>8, <1>9, <1>10

LEMMA SoundInit == Init => SoundInv
<1> SUFFICES ASSUME Init PROVE SoundInv
  OBVIOUS
<1>1. PICK t : t = tx
  OBVIOUS
<1>2. t.queue = {} /\ t.list = {}
  BY <1>1 DEF Init
<1>3. Apart(t) /\ Timed(t)
  BY <1>2 DEF Apart, Spread, Timed, Watched
<1>4. InFlight(t) = 0
  <2>1. UNION {p.frames : p \in t.list} = {} /\ {} \subseteq Fr(0) /\ 0 \in 0 .. Total
    BY <1>2, QuicStreamAssumption
  <2>2. Size({}) = 0
    BY <2>1, SizePositive
  <2> QED BY <2>1, <2>2 DEF InFlight
<1> QED BY <1>1, <1>3, <1>4, InitInv, QuicStreamAssumption DEF SoundInv, Sound

\* The invariant gives that the sender holds no byte twice.
LEMMA SoundCopies == SoundInv => SingleCopy
<1> SUFFICES ASSUME SoundInv PROVE SingleCopy
  OBVIOUS
<1>1. PICK s : s = tx
  OBVIOUS
<1>2. PICK w : w = written
  OBVIOUS
<1>3. w \in 0 .. Total /\ s \in Sender(w) /\ Apart(s)
  BY <1>1, <1>2, SenderNow DEF SoundInv, Sound
<1>4. s.queue \subseteq Fr(w) /\ Carried(s.list) \subseteq Fr(w)
  BY <1>3, CarriedFrames
<1>5. \A f \in Fr(w) : Bytes(f) # {}
  BY <1>3, FrameHasByte
<1>6. ASSUME NEW f \in s.queue \union Carried(s.list), NEW g \in s.queue \union Carried(s.list),
             f # g
      PROVE  Bytes(f) \intersect Bytes(g) = {}
  <2>1. Spread(s.queue)
    BY <1>3 DEF Apart
  <2>2. /\ Spread(Carried(s.list))
        /\ BytesOf(Carried(s.list)) \intersect BytesOf(s.queue) = {}
    <3>1. s.list \intersect {} = {}
      OBVIOUS
    <3> QED BY <1>3, <3>1, CarriedApart
  <2>3. /\ \A h \in s.queue : Bytes(h) \subseteq BytesOf(s.queue)
        /\ \A h \in Carried(s.list) : Bytes(h) \subseteq BytesOf(Carried(s.list))
    BY DEF BytesOf
  <2> QED BY <1>6, <2>1, <2>2, <2>3 DEF Spread
<1>7. ASSUME NEW p \in s.list, NEW q \in s.list, p # q
      PROVE  p.frames \intersect q.frames = {}
  <2> SUFFICES ASSUME NEW f \in p.frames, f \in q.frames PROVE FALSE
    OBVIOUS
  <2>1. f \in Fr(w)
    BY <1>4 DEF Carried
  <2>2. Bytes(f) \subseteq BytesOf(p.frames) /\ Bytes(f) \subseteq BytesOf(q.frames)
    BY DEF BytesOf
  <2> QED BY <1>3, <1>5, <1>7, <2>1, <2>2 DEF Apart
<1>8. ASSUME NEW p \in s.list
      PROVE  p.frames \intersect s.queue = {}
  <2> SUFFICES ASSUME NEW f \in p.frames, f \in s.queue PROVE FALSE
    OBVIOUS
  <2>1. f \in Fr(w)
    BY <1>4
  <2>2. Bytes(f) \subseteq BytesOf(p.frames) /\ Bytes(f) \subseteq BytesOf(s.queue)
    BY DEF BytesOf
  <2> QED BY <1>3, <1>5, <2>1, <2>2 DEF Apart
<1> QED BY <1>1, <1>6, <1>7, <1>8 DEF SingleCopy, Carried

\* The sender and the receiver keep their types, whatever is lost, overtakes
\* or comes late, and however often frames are cut and put back.
THEOREM TypeCorrect == Spec => []TypeOK
<1>1. IInv /\ [Next]_vars => IInv'
  BY StepInv
<1> QED BY <1>1, InitInv, InvTypes, PTL DEF Spec

\* No byte written is forgotten by SendDataPacket, Retransmission, the alarm
\* or OnReceivedAckFrame, unless an ACK frame left gaps out.
THEOREM NoByteForgotten == Spec => []NothingForgotten
<1>1. IInv /\ [Next]_vars => IInv'
  BY StepInv
<1> QED BY <1>1, InitInv, InvForgets, PTL DEF Spec

\* The stream is a pipe: Recv hands over the bytes written, in order, each
\* once.
THEOREM ReliablePipe == Spec => InOrder
<1>1. IInv /\ [Next]_vars => IInv' /\ [Stream!Next]_(Stream!vars)
  BY StepInv
<1>2. Init => Stream!Init
  BY DEF Init, Stream!Init
<1> QED BY <1>1, <1>2, InitInv, PTL DEF Spec, InOrder, Stream!Spec

\* The sender holds no byte twice, however NewSegment cuts frames and
\* Retransmission puts them back.
THEOREM NoByteTwice == Spec => []SingleCopy
<1>1. SoundInv /\ [Next]_vars => SoundInv'
  BY SoundStep
<1> QED BY <1>1, SoundInit, SoundCopies, PTL DEF Spec

\* What is under way stays within the credit of the connection: SendDataPacket
\* is asked for no more than a window has room for, and DoRetransmit sends no
\* more than it took back.
THEOREM CreditKept == Spec => []WithinCredit
<1>1. SoundInv /\ [Next]_vars => SoundInv'
  BY SoundStep
<1>2. SoundInv => WithinCredit
  BY DEF SoundInv, Sound, WithinCredit
<1> QED BY <1>1, <1>2, SoundInit, PTL DEF Spec

\* SendPendingData leaves data in the queue only while the pacing timer or the
\* alarm will come back to it; ReTxTimeout and OnReceivedAckFrame keep the alarm
\* while anything is under way.
THEOREM TimerRuns == Spec => []NeverStalled
<1>1. SoundInv /\ [Next]_vars => SoundInv'
  BY SoundStep
<1>2. SoundInv => NeverStalled
  BY DEF SoundInv, Timed, Watched, NeverStalled
<1> QED BY <1>1, <1>2, SoundInit, PTL DEF Spec
==============================================================================
