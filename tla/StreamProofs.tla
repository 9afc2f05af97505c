---------------------------- MODULE StreamProofs ----------------------------
(***************************************************************************)
(* A stream delivers whole messages in the order of the calls of Write, as *)
(* long as its callers see to it that writes which overlap go out in one   *)
(* transfer each: for messages of any size below the size of the wire, and *)
(* sockets of any capacity.                                                *)
(***************************************************************************)
EXTENDS Stream, WellFoundedInduction, SequenceTheorems, TLAPS

(* Where the elements of s begin, one after the other, when the first does *)
(* after off[1] cells.                                                     *)
Offsets(s, off) ==
  /\ off \in [1 .. Len(s) + 1 -> Nat]
  /\ \A i \in 1 .. Len(s) : off[i + 1] = off[i] + Len(s[i])
  /\ \A i, j \in 1 .. Len(s) + 1 : i <= j => off[i] <= off[j]

(* What the calls of Write put into the stream of cells, in their order.   *)
Frames == [i \in DOMAIN written |-> Frame(written[i])]

(* cells are those of the frames that follow the first start ones.         *)
Holds(cells, start, frames, off) ==
  \A i \in DOMAIN frames : \A p \in DOMAIN frames[i] :
    start < off[i] + p /\ off[i] + p <= start + Len(cells)
      => cells[(off[i] + p) - start] = frames[i][p]

(* The cells of a frame that come before those of a read.                  *)
Before == CASE reader.pc = "ObjectID" -> 0
            [] reader.pc = "Header"   -> 1
            [] OTHER                  -> 2

(* How many cells the receiver has taken.                                  *)
Taken(off) == off[Len(delivered) + 1] + Before + Len(reader.got)

(* What is still to be transferred.                                        *)
NoRest == \A i \in DOMAIN completed : completed[i].rest = << >>
Unsent == IF NoRest THEN queue ELSE <<completed[1].rest>>

(* An operation that transfers a part of its cells is alone.               *)
Alone == Len(queue) + Len(completed) <= 1

(* The others transfer all of theirs.                                      *)
AllFit(off) ==
  /\ NoRest
  /\ \A i \in DOMAIN queue : Len(queue[i]) <= MaxTransfer
  /\ off[Len(written) + 1] - Taken(off) <= Capacity

(* What is unsent is the frames from what is under way to the last one.    *)
Sending(off, unsent) ==
  /\ Offsets(Unsent, unsent)
  /\ unsent[1] = Taken(off) + Len(wire)
  /\ unsent[Len(Unsent) + 1] = off[Len(written) + 1]
  /\ \A j \in DOMAIN Unsent : Holds(Unsent[j], unsent[j], Frames, off)
  /\ Alone \/ AllFit(off)

(* What is under way is the frames from where the receiver is.             *)
InOrder(off) ==
  /\ Offsets(Frames, off)
  /\ off[1] = 0
  /\ Taken(off) + Len(wire) <= off[Len(written) + 1]
  /\ Holds(wire, Taken(off), Frames, off)

(* The receiver is inside the frame after those it has delivered.          *)
InFrame ==
  LET d == Len(delivered)
  IN  /\ Len(reader.got) <= reader.need
      /\ reader.pc # "Body" => reader.need = 1
      /\ reader.pc # "ObjectID" \/ reader.got # << >> => d < Len(written)
      /\ \A k \in DOMAIN reader.got : reader.got[k] = Frame(written[d + 1])[Before + k]
      /\ reader.pc # "ObjectID" => reader.object_id = written[d + 1].object_id
      /\ reader.pc = "Body" => reader.need = Len(written[d + 1].data)

(* What was delivered so far is what was written first.                    *)
DeliveredFirst ==
  Len(delivered) <= Len(written) /\ \A i \in DOMAIN delivered : delivered[i] = written[i]

(* A write fails, and a read ends, only when the connection is lost.       *)
FailsWhenCut ==
  /\ socket_ = "closed" \/ (\E i \in DOMAIN completed : completed[i].error_code) => link = "cut"
  /\ reader.pc = "ended" => link = "cut"

(* The inductive invariant.                                                *)
Ordered ==
  \E off, unsent : InOrder(off) /\ (link = "up" => Sending(off, unsent))

Inv ==
  /\ TypeOK
  /\ DeliveredFirst
  /\ FailsWhenCut
  /\ reader.pc # "ended" => InFrame /\ Ordered

-----------------------------------------------------------------------------
(* The cells of a frame.                                                   *)
LEMMA FrameShape ==
  ASSUME NEW m \in Messages
  PROVE  /\ m.object_id \in Nat /\ m.data \in Nats
         /\ m = [object_id |-> m.object_id, data |-> m.data]
         /\ Frame(m) \in Nats
         /\ Len(Frame(m)) = Len(m.data) + 2
         /\ DOMAIN Frame(m) = 1 .. Len(m.data) + 2
         /\ Frame(m)[1] = m.object_id
         /\ Frame(m)[2] = Len(m.data) % SizeSpace
         /\ \A k \in 1 .. Len(m.data) : Frame(m)[k + 2] = m.data[k]
<1> DEFINE a == m.object_id
           b == Len(m.data) % SizeSpace
           d == m.data
<1>1. a \in Nat /\ d \in Seq(Nat) /\ m = [object_id |-> a, data |-> d]
    BY MessagesAssumption
<1>2. b \in Nat
    BY <1>1, CellAssumption
<1>3. Frame(m) = <<a, b>> \o d
    BY DEF Frame
<1> HIDE DEF a, b, d
<1>4. <<a, b>> \in Seq(Nat) /\ Len(<<a, b>>) = 2 /\ <<a, b>>[1] = a /\ <<a, b>>[2] = b
    BY <1>1, <1>2
<1>5. /\ <<a, b>> \o d \in Seq(Nat)
      /\ Len(<<a, b>> \o d) = Len(d) + 2
      /\ DOMAIN (<<a, b>> \o d) = 1 .. Len(d) + 2
      /\ (<<a, b>> \o d)[1] = a /\ (<<a, b>> \o d)[2] = b
      /\ \A k \in 1 .. Len(d) : (<<a, b>> \o d)[k + 2] = d[k]
    BY <1>1, <1>4
<1> QED BY <1>1, <1>3, <1>5 DEF a, b, d, Nats

(* An element more: one more offset.                                       *)
LEMMA OffsetsAppend ==
  ASSUME NEW s \in Seq(Nats), NEW x \in Nats, NEW off, Offsets(s, off),
         NEW more \in [1 .. Len(s) + 2 -> Nat],
         \A i \in 1 .. Len(s) + 1 : more[i] = off[i],
         more[Len(s) + 2] = off[Len(s) + 1] + Len(x)
  PROVE  Offsets(Append(s, x), more)
<1> DEFINE n == Len(s)
           t == Append(s, x)
<1>1. n \in Nat /\ Len(x) \in Nat /\ Len(t) = n + 1 /\ t[n + 1] = x /\ \A i \in 1 .. n : t[i] = s[i]
    BY DEF Nats
<1>2. /\ off \in [1 .. n + 1 -> Nat]
      /\ \A i \in 1 .. n : off[i + 1] = off[i] + Len(s[i])
      /\ \A i, j \in 1 .. n + 1 : i <= j => off[i] <= off[j]
    BY DEF Offsets
<1>3. more \in [1 .. n + 2 -> Nat]
    OBVIOUS
<1>4. more[n + 2] = off[n + 1] + Len(x) /\ \A i \in 1 .. n + 1 : more[i] = off[i]
    OBVIOUS
<1> HIDE DEF n, t
<1>5. \A i \in 1 .. n + 1 : more[i + 1] = more[i] + Len(t[i])
    <2> SUFFICES ASSUME NEW i \in 1 .. n + 1 PROVE more[i + 1] = more[i] + Len(t[i])
        OBVIOUS
    <2>1. CASE i = n + 1
        BY <1>1, <1>4, <2>1
    <2>2. CASE i # n + 1
        <3>1. i \in 1 .. n /\ i + 1 \in 1 .. n + 1
            BY <1>1, <2>2
        <3> QED BY <1>1, <1>2, <1>4, <3>1
    <2> QED BY <2>1, <2>2
<1>6. \A i, j \in 1 .. n + 2 : i <= j => more[i] <= more[j]
    <2> SUFFICES ASSUME NEW i \in 1 .. n + 2, NEW j \in 1 .. n + 2, i <= j PROVE more[i] <= more[j]
        OBVIOUS
    <2>1. CASE j # n + 2
        <3>1. i \in 1 .. n + 1 /\ j \in 1 .. n + 1
            BY <1>1, <2>1
        <3> QED BY <1>2, <1>4, <3>1
    <2>2. CASE j = n + 2 /\ i # n + 2
        <3>1. i \in 1 .. n + 1 /\ n + 1 \in 1 .. n + 1 /\ i <= n + 1
            BY <1>1, <2>2
        <3>2. off[i] <= off[n + 1] /\ off[i] \in Nat /\ off[n + 1] \in Nat
            BY <1>2, <3>1
        <3> QED BY <1>1, <1>4, <2>2, <3>1, <3>2
    <2>3. CASE i = n + 2 /\ j = n + 2
        BY <1>3, <2>3
    <2> QED BY <2>1, <2>2, <2>3
<1>7. Offsets(t, more)
    <2>1. Len(t) + 1 = n + 2
        BY <1>1
    <2> QED BY <2>1, <1>1, <1>3, <1>5, <1>6 DEF Offsets
<1> QED BY <1>7 DEF t

(* The first element gone: its offset too.                                 *)
LEMMA OffsetsTail ==
  ASSUME NEW s \in Seq(Nats), s # << >>, NEW off, Offsets(s, off),
         NEW less \in [1 .. Len(s) -> Nat], \A i \in 1 .. Len(s) : less[i] = off[i + 1]
  PROVE  Offsets(Tail(s), less)
<1> DEFINE n == Len(s)
           t == Tail(s)
<1>1. n \in Nat /\ n > 0 /\ Len(t) = n - 1 /\ \A i \in 1 .. n - 1 : t[i] = s[i + 1]
    OBVIOUS
<1>2. /\ off \in [1 .. n + 1 -> Nat]
      /\ \A i \in 1 .. n : off[i + 1] = off[i] + Len(s[i])
      /\ \A i, j \in 1 .. n + 1 : i <= j => off[i] <= off[j]
    BY DEF Offsets
<1>3. less \in [1 .. n -> Nat]
    OBVIOUS
<1>l. \A i \in 1 .. n : less[i] = off[i + 1]
    OBVIOUS
<1> HIDE DEF n, t
<1>4. \A i \in 1 .. n - 1 : less[i + 1] = less[i] + Len(t[i])
    <2> SUFFICES ASSUME NEW i \in 1 .. n - 1 PROVE less[i + 1] = less[i] + Len(t[i])
        OBVIOUS
    <2>1. i \in 1 .. n /\ i + 1 \in 1 .. n
        BY <1>1
    <2>2. less[i] = off[i + 1] /\ less[i + 1] = off[(i + 1) + 1]
        BY <2>1, <1>l
    <2>3. off[(i + 1) + 1] = off[i + 1] + Len(s[i + 1])
        BY <1>2, <2>1
    <2> QED BY <1>1, <2>2, <2>3
<1>5. \A i, j \in 1 .. n : i <= j => less[i] <= less[j]
    BY <1>1, <1>2, <1>l
<1>6. Offsets(t, less)
    <2>1. Len(t) + 1 = n
        BY <1>1
    <2> QED BY <2>1, <1>1, <1>3, <1>4, <1>5 DEF Offsets
<1> QED BY <1>6 DEF n, t

-----------------------------------------------------------------------------
(* A set of natural numbers that is not empty has a least element.         *)
LEMMA LeastElement ==
  ASSUME NEW T, T \subseteq Nat, T # {}
  PROVE  \E m \in T : \A k \in T : m <= k
<1> DEFINE R == {p \in Nat \X Nat : p[1] < p[2]}
<1>1. IsWellFoundedOn(R, Nat)
    BY NatLessThanWellFounded DEF OpToRel
<1> HIDE DEF R
<1>2. PICK m \in T : \A k \in T : ~ (<<k, m>> \in R)
    BY <1>1, WFMin
<1>3. \A k \in T : k < m => <<k, m>> \in R
    BY DEF R
<1>4. \A k \in T : ~(k < m)
    BY <1>2, <1>3, Zenon
<1> QED BY <1>4

(* Two sequences of cells, one after the other.                            *)
LEMMA Concat ==
  ASSUME NEW a \in Seq(Nat), NEW b \in Seq(Nat)
  PROVE  /\ a \o b \in Seq(Nat)
         /\ Len(a) \in Nat /\ Len(b) \in Nat
         /\ Len(a \o b) = Len(a) + Len(b)
         /\ \A j \in 1 .. Len(a) : (a \o b)[j] = a[j]
         /\ \A j \in 1 .. Len(b) : (a \o b)[Len(a) + j] = b[j]
OBVIOUS

(* The first n cells of a sequence, and the others.                        *)
LEMMA Parts ==
  ASSUME NEW a \in Seq(Nat), NEW n \in 0 .. Len(a)
  PROVE  /\ Len(a) \in Nat /\ n \in Nat
         /\ SubSeq(a, 1, n) \in Seq(Nat) /\ Len(SubSeq(a, 1, n)) = n
         /\ SubSeq(a, n + 1, Len(a)) \in Seq(Nat) /\ Len(SubSeq(a, n + 1, Len(a))) = Len(a) - n
<1>1. Len(a) \in Nat /\ n \in Nat /\ n <= Len(a)
    OBVIOUS
<1>2. SubSeq(a, 1, n) \in Seq(Nat) /\ Len(SubSeq(a, 1, n)) = n
    <2>1. \A i \in 1 .. n : a[i] \in Nat
        BY <1>1
    <2> QED BY <1>1, <2>1, SubSeqProperties
<1>3. SubSeq(a, n + 1, Len(a)) \in Seq(Nat) /\ Len(SubSeq(a, n + 1, Len(a))) = Len(a) - n
    <2>1. \A i \in n + 1 .. Len(a) : a[i] \in Nat
        BY <1>1
    <2> QED BY <1>1, <2>1, SubSeqProperties
<1> QED BY <1>1, <1>2, <1>3

(* The function by which FlattenSeq is defined.                            *)
Joining(s, n, f) ==
  f = [i \in 1 .. n |-> IF i = 1 THEN s[i] ELSE f[i - 1] \o s[i]]

(* Its recursion is well founded: it exists.                               *)
LEMMA JoiningExists ==
  ASSUME NEW s, NEW n \in Nat
  PROVE  \E f : Joining(s, n, f)
<1> DEFINE Bad == {k \in Nat : \A f : ~Joining(s, k, f)}
<1>1. Bad = {}
    <2> SUFFICES ASSUME Bad # {} PROVE FALSE
        OBVIOUS
    <2>1. PICK k \in Bad : \A j \in Bad : k <= j
        <3>1. Bad \subseteq Nat
            OBVIOUS
        <3> HIDE DEF Bad
        <3> QED BY <3>1, LeastElement
    <2>2. CASE k = 0
        <3>1. Joining(s, 0, [i \in 1 .. 0 |-> 0])
            BY DEF Joining
        <3> QED BY <2>1, <2>2, <3>1
    <2>3. CASE k # 0
        <3>1. k \in Nat /\ k - 1 \in Nat
            BY <2>3
        <3>2. k - 1 \notin Bad
            <4> HIDE DEF Bad
            <4> QED BY <2>1, <3>1
        <3>3. PICK f : Joining(s, k - 1, f)
            BY <3>1, <3>2
        <3> DEFINE g == [i \in 1 .. k |-> IF i = 1 THEN s[i] ELSE f[i - 1] \o s[i]]
        <3>4. \A i \in 1 .. k - 1 : g[i] = f[i]
            <4>1. \A i \in 1 .. k - 1 : f[i] = IF i = 1 THEN s[i] ELSE f[i - 1] \o s[i]
                BY <3>3 DEF Joining
            <4>2. 1 .. k - 1 \subseteq 1 .. k
                BY <3>1
            <4> QED BY <4>1, <4>2
        <3>5. \A i \in 1 .. k : g[i] = IF i = 1 THEN s[i] ELSE g[i - 1] \o s[i]
            <4> SUFFICES ASSUME NEW i \in 1 .. k, i # 1
                         PROVE  g[i] = g[i - 1] \o s[i]
                OBVIOUS
            <4>1. i - 1 \in 1 .. k - 1
                BY <3>1
            <4> QED BY <3>4, <4>1
        <3>6. Joining(s, k, g)
            BY <3>5 DEF Joining
        <3> QED BY <2>1, <3>6
    <2> QED BY <2>2, <2>3
<1> QED BY <1>1

(* The length of what FlattenSeq joins.                                    *)
LEMMA FlattenLength ==
  ASSUME NEW s \in Seq(Nats), s # << >>, NEW off, Offsets(s, off)
  PROVE  FlattenSeq(s) \in Nats /\ Len(FlattenSeq(s)) = off[Len(s) + 1] - off[1]
<1> DEFINE n == Len(s)
           f == CHOOSE g : Joining(s, n, g)
<1>1. n \in Nat /\ n > 0
    OBVIOUS
<1>2. FlattenSeq(s) = f[n]
    BY <1>1 DEF FlattenSeq, Joining
<1>3. Joining(s, n, f)
    BY <1>1, JoiningExists
<1>4. /\ off \in [1 .. n + 1 -> Nat]
      /\ \A i \in 1 .. n : off[i + 1] = off[i] + Len(s[i])
    BY DEF Offsets
<1>5. \A i \in 1 .. n : s[i] \in Seq(Nat)
    BY DEF Nats
<1> HIDE DEF f, n
<1>6. \A i \in 1 .. n : f[i] = IF i = 1 THEN s[i] ELSE f[i - 1] \o s[i]
    BY <1>3 DEF Joining
<1> DEFINE Bad == {i \in 1 .. n : ~(f[i] \in Seq(Nat) /\ Len(f[i]) = off[i + 1] - off[1])}
<1>7. Bad = {}
    <2> SUFFICES ASSUME Bad # {} PROVE FALSE
        OBVIOUS
    <2>1. PICK i \in Bad : \A j \in Bad : i <= j
        <3>1. Bad \subseteq Nat
            BY <1>1
        <3> HIDE DEF Bad
        <3> QED BY <3>1, LeastElement
    <2>2. i \in 1 .. n /\ ~(f[i] \in Seq(Nat) /\ Len(f[i]) = off[i + 1] - off[1])
        OBVIOUS
    <2>3. CASE i = 1
        <3>1. f[1] = s[1] /\ s[1] \in Seq(Nat) /\ off[1 + 1] = off[1] + Len(s[1])
            BY <1>4, <1>5, <1>6, <2>2, <2>3
        <3>2. Len(s[1]) \in Nat /\ off[1] \in Nat
            <4>1. 1 \in 1 .. n + 1
                BY <1>1
            <4>2. off[1] \in Nat
                BY <1>4, <4>1
            <4> QED BY <3>1, <4>2
        <3> QED BY <2>2, <2>3, <3>1, <3>2
    <2>4. CASE i # 1
        <3>1. i - 1 \in 1 .. n
            BY <1>1, <2>2, <2>4
        <3>2. i - 1 \notin Bad
            <4> HIDE DEF Bad
            <4> QED BY <1>1, <2>1, <2>2, <3>1
        <3>3. f[i - 1] \in Seq(Nat) /\ Len(f[i - 1]) = off[i] - off[1]
            <4>1. f[i - 1] \in Seq(Nat) /\ Len(f[i - 1]) = off[(i - 1) + 1] - off[1]
                BY <3>1, <3>2
            <4>2. (i - 1) + 1 = i
                BY <1>1, <2>2
            <4> QED BY <4>1, <4>2
        <3>4. f[i] = f[i - 1] \o s[i] /\ s[i] \in Seq(Nat)
            BY <1>5, <1>6, <2>2, <2>4
        <3>5. f[i] \in Seq(Nat) /\ Len(f[i]) = Len(f[i - 1]) + Len(s[i]) /\ Len(s[i]) \in Nat
            <4> DEFINE a == f[i - 1]
                       b == s[i]
            <4>1. a \in Seq(Nat) /\ b \in Seq(Nat) /\ f[i] = a \o b
                BY <3>3, <3>4
            <4> HIDE DEF a, b
            <4>2. f[i] \in Seq(Nat) /\ Len(f[i]) = Len(a) + Len(b) /\ Len(b) \in Nat
                BY <4>1, Concat
            <4> QED BY <4>2 DEF a, b
        <3>6. off[i + 1] = off[i] + Len(s[i])
            BY <1>4, <2>2
        <3>7. off[i] \in Nat /\ off[1] \in Nat
            BY <1>1, <1>4, <2>2
        <3> QED BY <2>2, <3>3, <3>5, <3>6, <3>7
    <2> QED BY <2>3, <2>4
<1>8. n \notin Bad /\ n \in 1 .. n
    BY <1>1, <1>7
<1> QED BY <1>2, <1>8 DEF n, Nats

-----------------------------------------------------------------------------
(* A cell of a frame comes before the cells of the frames that follow.     *)
LEMMA CellWithin ==
  ASSUME NEW frames \in Seq(Nats), NEW off, Offsets(frames, off),
         NEW i \in DOMAIN frames, NEW p \in DOMAIN frames[i]
  PROVE  /\ i \in 1 .. Len(frames) /\ off[i] \in Nat /\ p \in Nat /\ p > 0
         /\ \A j \in i + 1 .. Len(frames) + 1 : off[j] \in Nat /\ off[i] + p <= off[j]
<1>1. frames[i] \in Seq(Nat) /\ i \in 1 .. Len(frames) /\ Len(frames) \in Nat
    BY DEF Nats
<1>2. p \in 1 .. Len(frames[i]) /\ Len(frames[i]) \in Nat
    BY <1>1
<1>3. /\ off \in [1 .. Len(frames) + 1 -> Nat]
      /\ off[i + 1] = off[i] + Len(frames[i])
      /\ \A a, b \in 1 .. Len(frames) + 1 : a <= b => off[a] <= off[b]
    BY <1>1 DEF Offsets
<1>4. off[i] \in Nat /\ p \in Nat /\ p > 0
    BY <1>1, <1>2, <1>3
<1>5. ASSUME NEW j \in i + 1 .. Len(frames) + 1
      PROVE  off[j] \in Nat /\ off[i] + p <= off[j]
    <2>1. i + 1 \in 1 .. Len(frames) + 1 /\ j \in 1 .. Len(frames) + 1 /\ i + 1 <= j
        BY <1>1
    <2>2. off[i + 1] <= off[j] /\ off[i + 1] \in Nat /\ off[j] \in Nat
        BY <1>3, <2>1
    <2> QED BY <1>2, <1>3, <1>4, <2>2
<1> QED BY <1>1, <1>4, <1>5

(* Where a cell is in a run of l cells that follows the first start ones.  *)
LEMMA InRun ==
  ASSUME NEW x \in Nat, NEW start \in Nat, NEW l \in Nat, start < x, x <= start + l
  PROVE  x - start \in 1 .. l
OBVIOUS

(* Where it is in the run, if its first n cells are put before it.         *)
LEMMA InLongerRun ==
  ASSUME NEW x \in Nat, NEW start \in Nat, NEW n \in Nat, NEW l \in Nat,
         start + n < x, x <= (start + n) + l
  PROVE  /\ x - (start + n) \in 1 .. l /\ n + (x - (start + n)) = x - start
         /\ start < x /\ x <= start + (n + l)
OBVIOUS

(* Two runs of cells, one after the other.                                 *)
LEMMA HoldsConcat ==
  ASSUME NEW a \in Nats, NEW b \in Nats, NEW start \in Nat,
         NEW frames \in Seq(Nats), NEW off, Offsets(frames, off),
         Holds(a, start, frames, off), Holds(b, start + Len(a), frames, off)
  PROVE  Holds(a \o b, start, frames, off)
<1> SUFFICES ASSUME NEW i \in DOMAIN frames, NEW p \in DOMAIN frames[i],
                    start < off[i] + p, off[i] + p <= start + Len(a \o b)
             PROVE  (a \o b)[(off[i] + p) - start] = frames[i][p]
    BY DEF Holds
<1> DEFINE k == (off[i] + p) - start
<1>1. off[i] \in Nat /\ p \in Nat /\ p > 0
    BY CellWithin
<1>x. off[i] + p \in Nat
    BY <1>1
<1>2. Len(a) \in Nat /\ Len(b) \in Nat /\ Len(a \o b) = Len(a) + Len(b)
    BY Concat DEF Nats
<1>e. /\ \A j \in 1 .. Len(a) : (a \o b)[j] = a[j]
      /\ \A j \in 1 .. Len(b) : (a \o b)[Len(a) + j] = b[j]
    BY Concat DEF Nats
<1>3. CASE off[i] + p <= start + Len(a)
    <2>1. k \in 1 .. Len(a) /\ a[k] = frames[i][p]
        <3>1. k \in 1 .. Len(a)
            BY <1>x, <1>2, <1>3, InRun, Zenon
        <3>2. a[k] = frames[i][p]
            BY <1>3 DEF Holds
        <3> QED BY <3>1, <3>2
    <2> QED BY <1>e, <2>1
<1>4. CASE ~(off[i] + p <= start + Len(a))
    <2> DEFINE l == (off[i] + p) - (start + Len(a))
    <2>0. start + Len(a) < off[i] + p /\ off[i] + p <= (start + Len(a)) + Len(b)
        <3> DEFINE x == off[i] + p
        <3>1. x \in Nat /\ x <= start + Len(a \o b) /\ ~(x <= start + Len(a))
            BY <1>x, <1>4
        <3> HIDE DEF x
        <3>2. start + Len(a) < x /\ x <= (start + Len(a)) + Len(b)
            BY <1>2, <3>1
        <3> QED BY <3>2 DEF x
    <2>1. l \in 1 .. Len(b) /\ k = Len(a) + l
        BY <1>x, <1>2, <2>0, InLongerRun, Zenon
    <2>2. b[l] = frames[i][p]
        BY <2>0 DEF Holds
    <2> HIDE DEF k, l
    <2>3. (a \o b)[k] = b[l]
        BY <1>e, <2>1
    <2> QED BY <2>2, <2>3 DEF k
<1> QED BY <1>3, <1>4

(* The first cells of a run.                                               *)
LEMMA HoldsFirst ==
  ASSUME NEW a \in Nats, NEW start \in Nat, NEW n \in 0 .. Len(a),
         NEW frames \in Seq(Nats), NEW off, Offsets(frames, off),
         Holds(a, start, frames, off)
  PROVE  Holds(SubSeq(a, 1, n), start, frames, off)
<1> DEFINE c == SubSeq(a, 1, n)
<1>1. Len(a) \in Nat /\ n \in Nat /\ n <= Len(a) /\ Len(c) = n
    BY DEF Nats
<1>e. \A k \in 1 .. n : c[k] = a[k]
    BY <1>1 DEF Nats
<1> HIDE DEF c
<1> SUFFICES ASSUME NEW i \in DOMAIN frames, NEW p \in DOMAIN frames[i],
                    start < off[i] + p, off[i] + p <= start + Len(c)
             PROVE  c[(off[i] + p) - start] = frames[i][p]
    BY DEF Holds, c
<1>2. off[i] \in Nat /\ p \in Nat /\ p > 0
    BY CellWithin
<1>3. (off[i] + p) - start \in 1 .. n /\ off[i] + p <= start + Len(a)
    <2> DEFINE x == off[i] + p
    <2>1. x \in Nat /\ start < x /\ x <= start + n
        BY <1>1, <1>2
    <2> HIDE DEF x
    <2>2. x - start \in 1 .. n
        BY <1>1, <2>1, InRun, Zenon
    <2>3. x <= start + Len(a)
        BY <1>1, <2>1
    <2> QED BY <2>2, <2>3 DEF x
<1> QED BY <1>e, <1>3 DEF Holds

(* The cells of a run that follow the first n.                             *)
LEMMA HoldsRest ==
  ASSUME NEW a \in Nats, NEW start \in Nat, NEW n \in 0 .. Len(a),
         NEW frames \in Seq(Nats), NEW off, Offsets(frames, off),
         Holds(a, start, frames, off)
  PROVE  Holds(SubSeq(a, n + 1, Len(a)), start + n, frames, off)
<1> DEFINE c == SubSeq(a, n + 1, Len(a))
<1>1. Len(a) \in Nat /\ n \in Nat /\ n <= Len(a) /\ Len(c) = Len(a) - n
    BY DEF Nats
<1>2. \A k \in 1 .. Len(a) - n : c[k] = a[n + k]
    BY <1>1 DEF Nats
<1> HIDE DEF c
<1> SUFFICES ASSUME NEW i \in DOMAIN frames, NEW p \in DOMAIN frames[i],
                    start + n < off[i] + p, off[i] + p <= (start + n) + Len(c)
             PROVE  c[(off[i] + p) - (start + n)] = frames[i][p]
    BY DEF Holds, c
<1>3. off[i] \in Nat /\ p \in Nat /\ p > 0
    BY CellWithin
<1> DEFINE k == (off[i] + p) - (start + n)
<1>4. /\ k \in 1 .. Len(a) - n /\ n + k = (off[i] + p) - start
      /\ start < off[i] + p /\ off[i] + p <= start + Len(a)
    <2> DEFINE x == off[i] + p
               l == Len(a) - n
    <2>1. x \in Nat /\ start + n < x /\ x <= (start + n) + l /\ l \in Nat /\ n + l = Len(a)
        <3>1. l \in Nat /\ n + l = Len(a) /\ Len(c) = l
            BY <1>1
        <3>2. x \in Nat
            BY <1>3
        <3> HIDE DEF l
        <3> QED BY <3>1, <3>2
    <2> HIDE DEF x, l
    <2>2. /\ x - (start + n) \in 1 .. l /\ n + (x - (start + n)) = x - start
          /\ start < x /\ x <= start + (n + l)
        <3>1. n \in Nat
            BY <1>1
        <3> QED BY <2>1, <3>1, InLongerRun, Zenon
    <2> QED BY <2>1, <2>2 DEF x, l
<1>5. a[n + k] = frames[i][p]
    BY <1>4 DEF Holds
<1> HIDE DEF k
<1>6. c[k] = a[n + k]
    BY <1>2, <1>4
<1> QED BY <1>5, <1>6 DEF k

-----------------------------------------------------------------------------
(* A read of the object id or of the size is a read of one cell.           *)
TypeInv ==
  /\ TypeOK
  /\ reader.pc \in {"ObjectID", "Header"} => reader.need = 1

(* What one operation transfers is not more than there is, nor than there  *)
(* is room for.                                                            *)
LEMMA AmountIs ==
  ASSUME TypeOK, NEW cells \in Nats
  PROVE  /\ Amount(cells) \in 0 .. Len(cells)
         /\ Len(wire) + Amount(cells) <= Capacity
         /\ Len(cells) <= MaxTransfer /\ Len(wire) + Len(cells) <= Capacity
              => Amount(cells) = Len(cells)
<1> DEFINE l == Len(cells)
           room == Capacity - Len(wire)
           S == {l, MaxTransfer, room}
           Least(n) == \A k \in S : n <= k
<1>1. l \in Nat /\ MaxTransfer \in Nat /\ room \in Nat /\ Len(wire) \in Nat /\ Capacity \in Nat
    BY CellAssumption DEF TypeOK, Nats
<1>2. Amount(cells) = CHOOSE n \in S : Least(n)
    BY DEF Amount
<1>3. \E n \in S : Least(n)
    <2>1. CASE l <= MaxTransfer /\ l <= room
        BY <2>1, <1>1
    <2>2. CASE MaxTransfer <= l /\ MaxTransfer <= room
        BY <2>2, <1>1
    <2>3. CASE room <= l /\ room <= MaxTransfer
        BY <2>3, <1>1
    <2> HIDE DEF l, room
    <2> QED BY <1>1, <2>1, <2>2, <2>3
<1>4. Amount(cells) \in S /\ Least(Amount(cells))
    <2> HIDE DEF S, Least
    <2> QED BY <1>2, <1>3
<1> HIDE DEF l, room
<1>5. Amount(cells) \in Nat /\ Amount(cells) <= l /\ Amount(cells) <= room /\ Amount(cells) <= MaxTransfer
    BY <1>1, <1>4
<1>6. l <= MaxTransfer /\ l <= room => Amount(cells) = l
    BY <1>1, <1>4, <1>5
<1> QED BY <1>1, <1>5, <1>6 DEF l, room

(* Every step keeps the types.                                             *)
LEMMA TypeStep ==
  ASSUME TypeInv, [Next]_vars
  PROVE  TypeInv'
<1> USE DEF TypeInv, TypeOK, Nats
<1>1. ASSUME NEW m \in Messages, Write(m) PROVE TypeInv'
    <2>1. Frame(m) \in Seq(Nat)
        BY FrameShape
    <2> QED BY <1>1, <2>1 DEF Write
<1>2. CASE Transfer
    <2> DEFINE h == Head(queue)
               n == Amount(h)
               first == SubSeq(h, 1, n)
               rest == SubSeq(h, n + 1, Len(h))
    <2>1. h \in Seq(Nat) /\ Tail(queue) \in Seq(Seq(Nat))
        BY <1>2 DEF Transfer
    <2>2. n \in 0 .. Len(h) /\ Len(wire) + n <= Capacity
        BY <2>1, AmountIs
    <2>3. /\ wire' = wire \o first
          /\ completed' = Append(completed, [error_code |-> FALSE, rest |-> rest])
          /\ queue' = Tail(queue)
          /\ UNCHANGED <<written, socket_, link, reader, delivered>>
        BY <1>2 DEF Transfer
    <2> HIDE DEF h, n
    <2>4. first \in Seq(Nat) /\ Len(first) = n /\ rest \in Seq(Nat)
        BY <2>1, <2>2, Parts
    <2> HIDE DEF first, rest
    <2>5. wire' \in Seq(Nat) /\ Len(wire') <= Capacity
        BY <2>2, <2>3, <2>4, Concat
    <2>6. completed' \in Seq([error_code : BOOLEAN, rest : Seq(Nat)])
        BY <2>3, <2>4
    <2> QED BY <2>1, <2>3, <2>5, <2>6
<1>3. CASE TransferFails
    BY <1>3 DEF TransferFails
<1>4. CASE OnTransferred
    <2> DEFINE c == Head(completed)
    <2>1. c \in [error_code : BOOLEAN, rest : Seq(Nat)]
        <3> DEFINE R == [error_code : BOOLEAN, rest : Seq(Nat)]
        <3>1. completed \in Seq(R) /\ completed # << >>
            BY <1>4 DEF OnTransferred
        <3> HIDE DEF R
        <3>2. Head(completed) \in R
            BY <3>1
        <3> QED BY <3>2 DEF R
    <2>2. c.rest \in Seq(Nat)
        BY <2>1
    <2>3. completed' \in Seq([error_code : BOOLEAN, rest : Seq(Nat)])
        BY <1>4 DEF OnTransferred
    <2>4. /\ queue' = IF c.rest = << >> THEN queue ELSE Append(queue, c.rest)
          /\ socket_' = IF c.error_code THEN "closed" ELSE socket_
          /\ UNCHANGED <<written, link, wire, reader, delivered>>
        BY <1>4 DEF OnTransferred
    <2> HIDE DEF c
    <2>5. queue' \in Seq(Seq(Nat))
        BY <2>2, <2>4
    <2>6. socket_' \in {"open", "closed"}
        BY <2>4
    <2> QED BY <2>3, <2>4, <2>5, <2>6
<1>5. CASE LinkCut
    BY <1>5 DEF LinkCut
<1>r. /\ reader.pc \in {"ObjectID", "Header", "Body", "ended"} /\ reader.need \in Nat
      /\ reader.got \in Seq(Nat) /\ reader.object_id \in Nat
      /\ reader = [pc |-> reader.pc, need |-> reader.need, got |-> reader.got,
                   object_id |-> reader.object_id]
    OBVIOUS
<1>6. CASE ReadSome
    <2>1. Head(wire) \in Nat /\ Tail(wire) \in Seq(Nat) /\ Len(Tail(wire)) <= Len(wire)
        <3>1. wire \in Seq(Nat) /\ wire # << >>
            BY <1>6 DEF ReadSome
        <3>2. Head(wire) \in Nat /\ Tail(wire) \in Seq(Nat) /\ Len(Tail(wire)) = Len(wire) - 1
            BY <3>1, HeadTailProperties
        <3>3. Len(wire) \in Nat
            BY <3>1
        <3> QED BY <3>2, <3>3
    <2>2. Append(reader.got, Head(wire)) \in Seq(Nat)
        BY <1>r, <2>1
    <2>3. reader' = [pc |-> reader.pc, need |-> reader.need,
                     got |-> Append(reader.got, Head(wire)), object_id |-> reader.object_id]
        BY <1>6, <1>r DEF ReadSome
    <2>4. Len(Tail(wire)) <= Capacity
        BY <2>1, CellAssumption
    <2> QED BY <1>6, <1>r, <2>1, <2>2, <2>3, <2>4 DEF ReadSome
<1>7. CASE OnObjectID
    <2>1. reader.need = 1 /\ Len(reader.got) = 1
        BY <1>7, <1>r DEF OnObjectID, ReadComplete
    <2>2. reader.got[1] \in Nat
        BY <1>r, <2>1
    <2> QED BY <1>7, <2>2 DEF OnObjectID
<1>8. CASE OnHeader
    <2>1. reader.need = 1 /\ Len(reader.got) = 1
        BY <1>8, <1>r DEF OnHeader, ReadComplete
    <2>2. reader.got[1] \in Nat
        BY <1>r, <2>1
    <2>3. reader' = [pc |-> "Body", need |-> reader.got[1], got |-> << >>,
                     object_id |-> reader.object_id]
        BY <1>8, <1>r DEF OnHeader
    <2>4. reader' \in [pc : {"ObjectID", "Header", "Body", "ended"}, need : Nat,
                         got : Seq(Nat), object_id : Nat]
        BY <1>r, <2>2, <2>3
    <2> QED BY <1>8, <2>3, <2>4 DEF OnHeader
<1>9. CASE OnBody
    <2>1. reader' = [pc |-> "ObjectID", need |-> 1, got |-> << >>, object_id |-> reader.object_id]
        BY <1>9, <1>r DEF OnBody
    <2>2. delivered' \in Seq([object_id : Nat, data : Seq(Nat)])
        BY <1>9, <1>r DEF OnBody
    <2>3. reader' \in [pc : {"ObjectID", "Header", "Body", "ended"}, need : Nat,
                         got : Seq(Nat), object_id : Nat]
        BY <1>r, <2>1
    <2>4. reader'.need = 1
        BY <2>1
    <2> QED BY <1>9, <2>2, <2>3, <2>4 DEF OnBody
<1>10. CASE ReadFails
    <2>1. reader' = [pc |-> "ended", need |-> reader.need, got |-> << >>,
                     object_id |-> reader.object_id]
        BY <1>10, <1>r DEF ReadFails
    <2>2. reader' \in [pc : {"ObjectID", "Header", "Body", "ended"}, need : Nat,
                         got : Seq(Nat), object_id : Nat]
        BY <1>r, <2>1
    <2>3. reader'.pc = "ended"
        BY <2>1
    <2> QED BY <1>10, <2>2, <2>3 DEF ReadFails
<1>11. CASE UNCHANGED vars
    BY <1>11 DEF vars
<1> QED BY <1>1, <1>2, <1>3, <1>4, <1>5, <1>6, <1>7, <1>8, <1>9, <1>10, <1>11
        DEF Next, SendNext, ReadNext

(* The state of a stream has its type: in particular no read asks for a    *)
(* number of cells that is none, and the socket buffers are never overrun. *)
THEOREM TypeCorrect == Spec => []TypeOK
<1>1. Init => TypeInv
    BY CellAssumption DEF Init, TypeInv, TypeOK, Nats
<1>2. TypeInv /\ [Next]_vars => TypeInv'
    BY TypeStep
<1>3. TypeInv => TypeOK
    BY DEF TypeInv
<1> QED BY <1>1, <1>2, <1>3, PTL DEF Spec

-----------------------------------------------------------------------------
(* What a caller sees to: it does not write while a write with more to     *)
(* come is in flight, and it writes no more than the size can tell.        *)
Careful == Overlap = FALSE /\ \A m \in Messages : Len(m.data) < SizeSpace

(* The frames, one for each call of Write.                                 *)
LEMMA FramesShape ==
  ASSUME TypeOK
  PROVE  /\ Frames \in Seq(Nats) /\ Len(Frames) = Len(written)
         /\ Len(written) \in Nat /\ DOMAIN Frames = 1 .. Len(written)
         /\ \A i \in 1 .. Len(written) : written[i] \in Messages /\ Frames[i] = Frame(written[i])
<1>1. written \in Seq(Messages) /\ Len(written) \in Nat /\ DOMAIN written = 1 .. Len(written)
    BY DEF TypeOK
<1>2. \A i \in 1 .. Len(written) : written[i] \in Messages /\ Frame(written[i]) \in Nats
    BY <1>1, FrameShape
<1>3. Frames = [i \in 1 .. Len(written) |-> Frame(written[i])]
    BY <1>1 DEF Frames
<1> QED BY <1>1, <1>2, <1>3

(* The receiver is between the beginning and the end of the frames.        *)
LEMMA Place ==
  ASSUME TypeOK, DeliveredFirst, NEW off, InOrder(off)
  PROVE  /\ Len(delivered) \in Nat /\ Len(delivered) + 1 \in 1 .. Len(written) + 1
         /\ off \in [1 .. Len(written) + 1 -> Nat]
         /\ Before \in 0 .. 2 /\ Len(reader.got) \in Nat /\ Len(wire) \in Nat
         /\ Taken(off) \in Nat
<1>1. Len(delivered) \in Nat /\ Len(written) \in Nat /\ Len(delivered) <= Len(written)
    BY DEF TypeOK, DeliveredFirst
<1>2. off \in [1 .. Len(written) + 1 -> Nat]
    BY FramesShape DEF InOrder, Offsets
<1>3. Before \in 0 .. 2
    BY DEF Before
<1>4. Len(reader.got) \in Nat /\ Len(wire) \in Nat
    BY DEF TypeOK, Nats
<1>5. off[Len(delivered) + 1] \in Nat
    <2>1. Len(delivered) + 1 \in 1 .. Len(written) + 1
        BY <1>1
    <2> QED BY <1>2, <2>1
<1>6. Len(delivered) + 1 \in 1 .. Len(written) + 1
    BY <1>1
<1>7. Taken(off) \in Nat
    <2>1. Before \in Nat
        BY <1>3
    <2> QED BY <1>4, <1>5, <2>1 DEF Taken
<1> QED BY <1>1, <1>2, <1>3, <1>4, <1>6, <1>7

(* A run of cells that ends before a new frame begins.                     *)
LEMMA HoldsMore ==
  ASSUME NEW frames \in Seq(Nats), NEW f \in Nats, NEW off, Offsets(frames, off),
         NEW more, \A i \in 1 .. Len(frames) + 1 : more[i] = off[i],
         NEW cells \in Nats, NEW start \in Nat, start + Len(cells) <= off[Len(frames) + 1],
         Holds(cells, start, frames, off)
  PROVE  Holds(cells, start, Append(frames, f), more)
<1> DEFINE n == Len(frames)
           fs == Append(frames, f)
<1>1. /\ n \in Nat /\ DOMAIN frames = 1 .. n /\ DOMAIN fs = 1 .. n + 1 /\ fs[n + 1] = f
      /\ \A i \in 1 .. n : fs[i] = frames[i]
    OBVIOUS
<1>2. off[n + 1] \in Nat /\ Len(cells) \in Nat
    <2>1. off \in [1 .. n + 1 -> Nat]
        BY DEF Offsets
    <2>2. n + 1 \in 1 .. n + 1
        BY <1>1
    <2>3. Len(cells) \in Nat
        BY DEF Nats
    <2> HIDE DEF n
    <2> QED BY <2>1, <2>2, <2>3
<1> HIDE DEF fs, n
<1> SUFFICES ASSUME NEW i \in DOMAIN fs, NEW p \in DOMAIN fs[i],
                    start < more[i] + p, more[i] + p <= start + Len(cells)
             PROVE  cells[(more[i] + p) - start] = fs[i][p]
    BY DEF Holds, fs
<1>3. i # n + 1
    <2> SUFFICES ASSUME i = n + 1 PROVE FALSE
        OBVIOUS
    <2>1. p \in 1 .. Len(f) /\ more[n + 1] = off[n + 1]
        <3>1. fs[i] = f /\ n + 1 \in 1 .. n + 1
            BY <1>1
        <3>2. more[n + 1] = off[n + 1]
            BY <3>1 DEF n
        <3>3. DOMAIN f = 1 .. Len(f)
            BY DEF Nats
        <3> QED BY <3>1, <3>2, <3>3
    <2> QED BY <2>1, <1>2 DEF n
<1>4. i \in DOMAIN frames /\ fs[i] = frames[i] /\ more[i] = off[i]
    BY <1>1, <1>3 DEF n
<1> QED BY <1>4 DEF Holds

(* A new frame is the run of cells after the others.                       *)
LEMMA HoldsNew ==
  ASSUME NEW frames \in Seq(Nats), NEW f \in Nats, NEW off, Offsets(frames, off),
         NEW more, \A i \in 1 .. Len(frames) + 1 : more[i] = off[i]
  PROVE  Holds(f, off[Len(frames) + 1], Append(frames, f), more)
<1> DEFINE n == Len(frames)
           fs == Append(frames, f)
           start == off[n + 1]
<1>1. /\ n \in Nat /\ DOMAIN frames = 1 .. n /\ DOMAIN fs = 1 .. n + 1 /\ fs[n + 1] = f
      /\ \A i \in 1 .. n : fs[i] = frames[i]
    OBVIOUS
<1>2. start \in Nat /\ Len(f) \in Nat
    BY <1>1 DEF Offsets, Nats
<1> HIDE DEF fs
<1> SUFFICES ASSUME NEW i \in DOMAIN fs, NEW p \in DOMAIN fs[i],
                    start < more[i] + p, more[i] + p <= start + Len(f)
             PROVE  f[(more[i] + p) - start] = fs[i][p]
    BY DEF Holds, fs
<1>3. i = n + 1
    <2> SUFFICES ASSUME i # n + 1 PROVE FALSE
        OBVIOUS
    <2>1. i \in DOMAIN frames /\ p \in DOMAIN frames[i] /\ more[i] = off[i]
        BY <1>1
    <2>2. n + 1 \in i + 1 .. n + 1 /\ off[i] \in Nat /\ p \in Nat
        <3>1. i \in 1 .. n /\ off[i] \in Nat /\ p \in Nat
            BY <2>1, CellWithin
        <3> QED BY <1>1, <3>1
    <2>3. off[i] + p <= off[n + 1]
        BY <2>1, <2>2, CellWithin
    <2> QED BY <1>2, <2>1, <2>2, <2>3
<1>4. more[i] = start /\ fs[i] = f /\ p \in 1 .. Len(f)
    BY <1>1, <1>3 DEF Nats
<1>5. (more[i] + p) - start = p
    BY <1>2, <1>4
<1> QED BY <1>4, <1>5

(* A call of Write adds a frame at the end.                                *)
LEMMA WriteStep ==
  ASSUME Careful, Inv, NEW m \in Messages, Write(m), reader.pc # "ended"
  PROVE  InFrame' /\ Ordered'
<1> DEFINE n == Len(written)
           f == Frame(m)
<1>1. PICK off, unsent : InOrder(off) /\ (link = "up" => Sending(off, unsent))
    BY DEF Inv, Ordered
<1>2. TypeOK /\ DeliveredFirst /\ InFrame
    BY DEF Inv
<1>3. f \in Nats /\ Len(f) \in Nat
    BY FrameShape DEF Nats
<1>4. /\ n \in Nat /\ Len(written') = n + 1 /\ written' \in Seq(Messages)
      /\ \A i \in 1 .. n : written'[i] = written[i]
      /\ written'[n + 1] = m
    BY <1>2 DEF TypeOK, Write
<1>5. Frames' = Append(Frames, f)
    <2>1. /\ Frames \in Seq(Nats) /\ Len(Frames) = n
          /\ \A i \in 1 .. n : Frames[i] = Frame(written[i])
        BY <1>2, FramesShape
    <2>2. Frames' = [i \in 1 .. n + 1 |-> Frame(written'[i])]
        BY <1>4 DEF Frames
    <2>3. \A i \in 1 .. n : Frame(written'[i]) = Frames[i]
        BY <1>4, <2>1
    <2>4. Frame(written'[n + 1]) = f
        BY <1>4
    <2>5. Frames' \in Seq(Nats) /\ Len(Frames') = n + 1
        <3>1. \A i \in 1 .. n + 1 : Frame(written'[i]) \in Nats
            BY <1>4, FrameShape
        <3> HIDE DEF n
        <3> QED BY <1>4, <2>2, <3>1
    <2>6. \A i \in 1 .. n + 1 : Frames'[i] = IF i <= n THEN Frames[i] ELSE f
        <3> HIDE DEF f
        <3> QED BY <1>4, <2>2, <2>3, <2>4
    <2> HIDE DEF f, n
    <2>7. /\ Append(Frames, f) \in Seq(Nats) /\ Len(Append(Frames, f)) = n + 1
          /\ \A i \in 1 .. n + 1 : Append(Frames, f)[i] = IF i <= n THEN Frames[i] ELSE f
        BY <1>3, <1>4, <2>1
    <2>8. \A i \in 1 .. n + 1 : Frames'[i] = Append(Frames, f)[i]
        BY <2>6, <2>7
    <2> QED BY <1>4, <2>5, <2>7, <2>8, SeqEqual
<1>6. UNCHANGED <<completed, socket_, link, wire, reader, delivered>>
    BY DEF Write
<1>m. PICK more : more = [i \in 1 .. n + 2 |-> IF i = n + 2 THEN off[n + 1] + Len(f) ELSE off[i]]
    OBVIOUS
<1>7. /\ Frames \in Seq(Nats) /\ Len(Frames) = n /\ Offsets(Frames, off)
      /\ off \in [1 .. n + 1 -> Nat] /\ Taken(off) \in Nat /\ Len(wire) \in Nat
      /\ Len(delivered) \in Nat /\ Len(delivered) + 1 \in 1 .. n + 1
    BY <1>1, <1>2, FramesShape, Place DEF InOrder
<1>8. /\ Offsets(Frames', more) /\ more[n + 2] = off[n + 1] + Len(f)
      /\ \A i \in 1 .. n + 1 : more[i] = off[i]
    <2> HIDE DEF n, f
    <2>1. more[n + 2] = off[n + 1] + Len(f) /\ \A i \in 1 .. n + 1 : more[i] = off[i]
        BY <1>4, <1>m
    <2>2. more \in [1 .. n + 2 -> Nat]
        <3>1. \A i \in 1 .. n + 2 : i # n + 2 => off[i] \in Nat
            BY <1>4, <1>7
        <3>2. off[n + 1] + Len(f) \in Nat
            BY <1>3, <1>4, <1>7
        <3>3. \A i \in 1 .. n + 2 : (IF i = n + 2 THEN off[n + 1] + Len(f) ELSE off[i]) \in Nat
            BY <3>1, <3>2
        <3> QED BY <1>m, <3>3
    <2>3. /\ more \in [1 .. Len(Frames) + 2 -> Nat]
          /\ \A i \in 1 .. Len(Frames) + 1 : more[i] = off[i]
          /\ more[Len(Frames) + 2] = off[Len(Frames) + 1] + Len(f)
        BY <1>7, <2>1, <2>2
    <2>4. Frames \in Seq(Nats) /\ Offsets(Frames, off)
        BY <1>7
    <2>5. Offsets(Append(Frames, f), more)
        BY <1>3, <2>3, <2>4, OffsetsAppend
    <2> QED BY <1>5, <2>1, <2>5
<1> HIDE DEF f
<1>9. Taken(more)' = Taken(off)
    BY <1>6, <1>7, <1>8 DEF Taken, Before
<1>10. InOrder(more)'
    <2>1. more[1] = 0
        BY <1>1, <1>4, <1>8 DEF InOrder
    <2>2. Taken(off) + Len(wire) <= off[n + 1] /\ off[n + 1] \in Nat
        BY <1>1, <1>4, <1>7 DEF InOrder
    <2>3. Taken(off) + Len(wire) <= more[n + 2]
        BY <2>2, <1>3, <1>7, <1>8
    <2>4. Holds(wire, Taken(off), Frames', more)
        <3>1. wire \in Nats
            BY <1>2 DEF TypeOK
        <3>2. Holds(wire, Taken(off), Frames, off)
            BY <1>1 DEF InOrder
        <3> HIDE DEF n
        <3> QED BY <1>3, <1>5, <1>7, <1>8, <2>2, <3>1, <3>2, HoldsMore
    <2>5. Len(written') + 1 = n + 2
        BY <1>4
    <2> QED BY <1>6, <1>8, <1>9, <2>1, <2>3, <2>4, <2>5 DEF InOrder
<1>11. ASSUME link = "up" PROVE \E longer : Sending(more, longer)'
    <2> DEFINE q == Len(queue)
    <2>l. PICK longer : longer = [i \in 1 .. q + 2 |-> IF i = q + 2 THEN unsent[q + 1] + Len(f) ELSE unsent[i]]
        OBVIOUS
    <2>1. /\ queue \in Seq(Nats) /\ queue' = Append(queue, f) /\ q \in Nat /\ Len(queue') = q + 1
          /\ \A i \in 1 .. q : queue'[i] = queue[i]
          /\ queue'[q + 1] = f
        BY <1>2, <1>3 DEF TypeOK, Write, f
    <2>2. queue \o completed = << >> \/ Fits(m)
        BY DEF Write, Careful
    <2>3. NoRest
        <3>1. CASE queue \o completed = << >>
            <4>1. completed = << >>
                BY <1>2, <3>1 DEF TypeOK
            <4> QED BY <4>1 DEF NoRest
        <3>2. CASE Fits(m)
            BY <3>2 DEF Fits, NoRest
        <3> QED BY <2>2, <3>1, <3>2
    <2>4. NoRest'
        BY <1>6, <2>3 DEF NoRest
    <2>5. Unsent = queue /\ Unsent' = queue'
        BY <2>3, <2>4 DEF Unsent
    <2>6. /\ Offsets(queue, unsent) /\ unsent[1] = Taken(off) + Len(wire)
          /\ unsent[q + 1] = off[n + 1]
          /\ \A j \in 1 .. q : Holds(queue[j], unsent[j], Frames, off)
        BY <1>1, <1>11, <2>1, <2>5 DEF Sending
    <2>7. unsent \in [1 .. q + 1 -> Nat]
        BY <2>6 DEF Offsets
    <2>8. /\ Offsets(queue', longer) /\ longer[q + 2] = unsent[q + 1] + Len(f)
          /\ \A i \in 1 .. q + 1 : longer[i] = unsent[i]
        <3> HIDE DEF q, f
        <3>1. longer[q + 2] = unsent[q + 1] + Len(f) /\ \A i \in 1 .. q + 1 : longer[i] = unsent[i]
            BY <2>1, <2>l
        <3>2. longer \in [1 .. q + 2 -> Nat]
            BY <1>3, <2>1, <2>7, <2>l
        <3> QED BY <1>3, <2>1, <2>6, <3>1, <3>2, OffsetsAppend DEF q
    <2>9. longer[1] = Taken(off) + Len(wire) /\ longer[q + 2] = more[n + 2]
        BY <1>8, <2>1, <2>6, <2>8
    <2>10. ASSUME NEW j \in 1 .. q + 1 PROVE Holds(queue'[j], longer[j], Frames', more)
        <3>1. CASE j = q + 1
            <4>1. Holds(f, off[n + 1], Append(Frames, f), more)
                <5> HIDE DEF n
                <5> QED BY <1>3, <1>7, <1>8, HoldsNew
            <4> QED BY <1>5, <2>1, <2>6, <2>8, <3>1, <4>1
        <3>2. CASE j # q + 1
            <4>1. j \in 1 .. q /\ j + 1 \in 1 .. q + 1 /\ q + 1 \in 1 .. q + 1 /\ j + 1 <= q + 1 /\ j \in 1 .. q + 1
                BY <2>1, <3>2
            <4>2. queue[j] \in Nats /\ unsent[j] \in Nat
                BY <2>1, <2>7, <4>1
            <4>3. unsent[j] + Len(queue[j]) <= off[n + 1]
                BY <2>6, <4>1 DEF Offsets
            <4>4. Holds(queue[j], unsent[j], Frames, off)
                BY <2>6, <4>1
            <4>5. Holds(queue[j], unsent[j], Append(Frames, f), more)
                <5> HIDE DEF n
                <5> QED BY <1>3, <1>7, <1>8, <4>2, <4>3, <4>4, HoldsMore
            <4> QED BY <1>5, <2>1, <2>8, <4>1, <4>5
        <3> QED BY <3>1, <3>2
    <2>11. Alone' \/ AllFit(more)'
        <3>1. CASE queue \o completed = << >>
            <4>1. queue = << >> /\ completed = << >>
                BY <1>2, <3>1 DEF TypeOK
            <4> QED BY <1>6, <2>1, <4>1 DEF Alone
        <3>2. CASE Fits(m)
            <4> DEFINE flat == FlattenSeq(queue')
            <4>1. \A i \in DOMAIN queue' : Len(queue'[i]) <= MaxTransfer
                BY <2>1, <3>2 DEF Fits, f
            <4>2. Len(wire \o flat) <= Capacity
                BY <2>1, <3>2 DEF Fits, f
            <4>3. flat \in Nats /\ Len(flat) = longer[q + 2] - longer[1]
                <5>1. queue' \in Seq(Nats) /\ queue' # << >> /\ Len(queue') + 1 = q + 2
                    BY <1>3, <2>1
                <5> QED BY <2>8, <5>1, FlattenLength
            <4> HIDE DEF flat
            <4>4. Len(wire \o flat) = Len(wire) + Len(flat)
                BY <1>2, <4>3, Concat DEF TypeOK, Nats
            <4>5. more[n + 2] - Taken(off) <= Capacity
                <5>1. more[n + 2] \in Nat
                    BY <1>3, <1>4, <1>7, <1>8
                <5> DEFINE x == more[n + 2]
                           y == Taken(off)
                           z == Len(wire)
                <5>2. x \in Nat /\ y \in Nat /\ z \in Nat /\ Capacity \in Nat
                    BY <1>7, <5>1, CellAssumption
                <5>3. z + (x - (y + z)) <= Capacity
                    BY <2>9, <4>2, <4>3, <4>4
                <5> HIDE DEF x, y, z
                <5>4. x - y <= Capacity
                    BY <5>2, <5>3
                <5> QED BY <5>4 DEF x, y
            <4>6. Len(written') + 1 = n + 2
                BY <1>4
            <4> QED BY <1>9, <2>4, <4>1, <4>5, <4>6 DEF AllFit
        <3> QED BY <2>2, <3>1, <3>2
    <2>12. Len(Unsent') + 1 = q + 2 /\ DOMAIN Unsent' = 1 .. q + 1 /\ Len(written') + 1 = n + 2
        BY <1>3, <1>4, <2>1, <2>5
    <2>13. Sending(more, longer)'
        BY <1>6, <1>9, <2>5, <2>8, <2>9, <2>10, <2>11, <2>12 DEF Sending
    <2> QED BY <2>13
<1>12. Ordered'
    BY <1>6, <1>10, <1>11 DEF Ordered
<1>13. InFrame'
    <2> DEFINE d == Len(delivered)
    <2>1. /\ Len(reader.got) <= reader.need
          /\ reader.pc # "Body" => reader.need = 1
          /\ reader.pc # "ObjectID" \/ reader.got # << >> => d < n
          /\ \A k \in DOMAIN reader.got : reader.got[k] = Frame(written[d + 1])[Before + k]
          /\ reader.pc # "ObjectID" => reader.object_id = written[d + 1].object_id
          /\ reader.pc = "Body" => reader.need = Len(written[d + 1].data)
        BY <1>2 DEF InFrame
    <2>2. Before' = Before
        BY <1>6 DEF Before
    <2>3. CASE reader.pc = "ObjectID" /\ reader.got = << >>
        BY <1>4, <1>6, <1>7, <2>1, <2>2, <2>3 DEF InFrame
    <2>4. CASE d < n
        <3>1. written'[d + 1] = written[d + 1] /\ d < n + 1
            BY <1>4, <1>7, <2>4
        <3> QED BY <1>4, <1>6, <2>1, <2>2, <3>1 DEF InFrame
    <2> QED BY <2>1, <2>3, <2>4
<1> QED BY <1>12, <1>13

(* The first element of a sequence and the others.                         *)
LEMMA HeadAndTail ==
  ASSUME NEW S, NEW s \in Seq(S), s # << >>
  PROVE  /\ Len(s) \in Nat /\ Len(s) > 0 /\ DOMAIN s = 1 .. Len(s)
         /\ Head(s) = s[1] /\ s[1] \in S
         /\ Tail(s) \in Seq(S) /\ Len(Tail(s)) = Len(s) - 1
         /\ DOMAIN Tail(s) = 1 .. Len(s) - 1
         /\ \A i \in 1 .. Len(s) - 1 : Tail(s)[i] = s[i + 1]
OBVIOUS

(* A transfer moves cells from what is unsent to what is under way.        *)
LEMMA TransferStep ==
  ASSUME Inv, Transfer, reader.pc # "ended"
  PROVE  Ordered'
<1> DEFINE h == Head(queue)
           n == Amount(h)
           first == SubSeq(h, 1, n)
           rest == SubSeq(h, n + 1, Len(h))
           q == Len(queue)
<1>1. PICK off, unsent : InOrder(off) /\ Sending(off, unsent)
    BY DEF Inv, Ordered, Transfer
<1>2. TypeOK /\ DeliveredFirst
    BY DEF Inv
<1>3. /\ queue \in Seq(Nats) /\ q \in Nat /\ q > 0 /\ h = queue[1] /\ h \in Nats
      /\ Tail(queue) \in Seq(Nats) /\ Len(Tail(queue)) = q - 1
      /\ \A j \in 1 .. q - 1 : Tail(queue)[j] = queue[j + 1]
    <2>1. queue \in Seq(Nats) /\ queue # << >>
        BY <1>2 DEF TypeOK, Transfer
    <2> QED BY <2>1, HeadAndTail
<1>4. n \in 0 .. Len(h) /\ n \in Nat /\ Len(h) \in Nat
    BY <1>2, <1>3, AmountIs DEF Nats
<1>5. /\ first \in Nats /\ Len(first) = n /\ rest \in Nats /\ Len(rest) = Len(h) - n
    BY <1>3, <1>4, Parts DEF Nats
<1>6. /\ wire' = wire \o first
      /\ completed' = Append(completed, [error_code |-> FALSE, rest |-> rest])
      /\ queue' = Tail(queue)
      /\ UNCHANGED <<written, socket_, link, reader, delivered>>
    BY DEF Transfer
<1>7. NoRest
    <2> SUFFICES ASSUME ~NoRest PROVE FALSE
        OBVIOUS
    <2>1. Alone
        BY <1>1 DEF Sending, AllFit
    <2>2. Len(completed) \in Nat /\ Len(completed) > 0
        BY <1>2 DEF NoRest, TypeOK
    <2> QED BY <1>3, <2>1, <2>2 DEF Alone
<1>8. Unsent = queue
    BY <1>7 DEF Unsent
<1>9. /\ Frames \in Seq(Nats) /\ Len(Frames) = Len(written) /\ Offsets(Frames, off)
      /\ Taken(off) \in Nat /\ Len(wire) \in Nat /\ Len(written) \in Nat
      /\ off[Len(written) + 1] \in Nat
    <2>1. Frames \in Seq(Nats) /\ Len(Frames) = Len(written) /\ Len(written) \in Nat
        BY <1>2, FramesShape
    <2>2. Offsets(Frames, off)
        BY <1>1 DEF InOrder
    <2>3. off \in [1 .. Len(written) + 1 -> Nat] /\ Taken(off) \in Nat /\ Len(wire) \in Nat
        BY <1>1, <1>2, Place
    <2>4. Len(written) + 1 \in 1 .. Len(written) + 1
        BY <2>1
    <2> QED BY <2>1, <2>2, <2>3, <2>4
<1>10. /\ unsent \in [1 .. q + 1 -> Nat]
       /\ \A i \in 1 .. q : unsent[i + 1] = unsent[i] + Len(queue[i])
       /\ \A i, j \in 1 .. q + 1 : i <= j => unsent[i] <= unsent[j]
       /\ unsent[1] = Taken(off) + Len(wire)
       /\ unsent[q + 1] = off[Len(written) + 1]
       /\ \A j \in 1 .. q : Holds(queue[j], unsent[j], Frames, off)
       /\ Offsets(queue, unsent)
    BY <1>1, <1>3, <1>8 DEF Sending, Offsets
<1>11. /\ 1 \in 1 .. q /\ 2 \in 1 .. q + 1 /\ q + 1 \in 1 .. q + 1
       /\ unsent[2] = unsent[1] + Len(h) /\ unsent[2] <= unsent[q + 1]
       /\ unsent[1] \in Nat /\ unsent[2] \in Nat /\ unsent[q + 1] \in Nat
    <2>1. 1 \in 1 .. q /\ 2 \in 1 .. q + 1 /\ q + 1 \in 1 .. q + 1 /\ 2 <= q + 1 /\ 1 \in 1 .. q + 1
        BY <1>3
    <2>2. unsent[1 + 1] = unsent[1] + Len(h)
        BY <1>3, <1>10, <2>1
    <2> QED BY <1>10, <2>1, <2>2
<1> HIDE DEF h, n, first, rest, q
<1>12. Taken(off)' = Taken(off) /\ Frames' = Frames /\ written' = written
    BY <1>6 DEF Taken, Before, Frames
<1>13. Holds(h, Taken(off) + Len(wire), Frames, off)
    BY <1>3, <1>10, <1>11
<1>14. InOrder(off)'
    <2>1. Holds(first, Taken(off) + Len(wire), Frames, off)
        <3>1. Taken(off) + Len(wire) \in Nat
            BY <1>9
        <3> QED BY <3>1, <1>3, <1>4, <1>9, <1>13, HoldsFirst DEF first
    <2>2. Holds(wire \o first, Taken(off), Frames, off)
        BY <1>1, <1>2, <1>5, <1>9, <2>1, HoldsConcat DEF InOrder, TypeOK
    <2>3. Len(wire \o first) = Len(wire) + n
        BY <1>2, <1>5, Concat DEF TypeOK, Nats
    <2>4. Taken(off) + Len(wire \o first) <= off[Len(written) + 1]
        <3> DEFINE x == off[Len(written) + 1]
                   y == Taken(off)
                   z == Len(wire)
        <3>1. x \in Nat /\ y \in Nat /\ z \in Nat /\ (y + z) + Len(h) <= x
            BY <1>9, <1>10, <1>11
        <3> HIDE DEF x, y, z
        <3>2. y + (z + n) <= x
            BY <1>4, <3>1
        <3> QED BY <2>3, <3>2 DEF x, y, z
    <2> QED BY <1>1, <1>6, <1>12, <2>2, <2>4 DEF InOrder
<1>15. Len(wire') = Len(wire) + n
    BY <1>2, <1>5, <1>6, Concat DEF TypeOK, Nats
<1>16. completed \in Seq([error_code : BOOLEAN, rest : Nats]) /\ Len(completed) \in Nat
    BY <1>2 DEF TypeOK
<1>17. /\ Len(completed') = Len(completed) + 1
       /\ \A i \in 1 .. Len(completed) : completed'[i] = completed[i]
       /\ completed'[Len(completed) + 1].rest = rest
       /\ DOMAIN completed' = 1 .. Len(completed) + 1
    BY <1>5, <1>6, <1>16
<1>18. CASE rest = << >>
    <2>1. n = Len(h)
        BY <1>4, <1>5, <1>18
    <2>2. NoRest'
        <3> SUFFICES ASSUME NEW i \in 1 .. Len(completed) + 1 PROVE completed'[i].rest = << >>
            BY <1>17 DEF NoRest
        <3>1. CASE i = Len(completed) + 1
            BY <1>17, <1>18, <3>1
        <3>2. CASE i # Len(completed) + 1
            <4>1. i \in 1 .. Len(completed) /\ i \in DOMAIN completed
                BY <1>16, <3>2
            <4> QED BY <1>7, <1>17, <4>1 DEF NoRest
        <3> QED BY <3>1, <3>2
    <2>3. Unsent' = Tail(queue)
        BY <1>6, <2>2 DEF Unsent
    <2>l. PICK less : less = [i \in 1 .. q |-> unsent[i + 1]]
        OBVIOUS
    <2>4. less \in [1 .. q -> Nat] /\ \A i \in 1 .. q : less[i] = unsent[i + 1]
        <3>1. \A i \in 1 .. q : i + 1 \in 1 .. q + 1
            BY <1>3
        <3> QED BY <1>10, <2>l, <3>1
    <2>5. Offsets(Tail(queue), less)
        <3>1. queue # << >>
            BY DEF Transfer
        <3> QED BY <1>3, <1>10, <2>4, <3>1, OffsetsTail DEF q
    <2>6. less[1] = Taken(off) + Len(wire') /\ less[q] = off[Len(written) + 1]
        <3>1. q \in 1 .. q /\ 1 \in 1 .. q
            BY <1>3
        <3>2. less[1] = unsent[1 + 1] /\ less[q] = unsent[q + 1]
            BY <2>4, <3>1
        <3> QED BY <1>9, <1>10, <1>11, <1>15, <2>1, <3>2
    <2>7. ASSUME NEW j \in 1 .. q - 1 PROVE Holds(Tail(queue)[j], less[j], Frames, off)
        <3>1. j \in 1 .. q /\ j + 1 \in 1 .. q
            BY <1>3
        <3> QED BY <1>3, <1>10, <2>4, <3>1
    <2>8. Alone' \/ AllFit(off)'
        <3>1. CASE Alone
            <4>1. q = 1 /\ Len(completed) = 0
                BY <1>3, <1>16, <3>1 DEF Alone, q
            <4> QED BY <1>3, <1>6, <1>17, <4>1 DEF Alone
        <3>2. CASE AllFit(off)
            <4>1. ASSUME NEW i \in 1 .. q - 1 PROVE Len(queue'[i]) <= MaxTransfer
                <5>1. i + 1 \in 1 .. q /\ DOMAIN queue = 1 .. q
                    BY <1>3 DEF q
                <5> QED BY <1>3, <1>6, <3>2, <5>1 DEF AllFit
            <4>2. DOMAIN queue' = 1 .. q - 1
                BY <1>3, <1>6
            <4> QED BY <1>12, <2>2, <3>2, <4>1, <4>2 DEF AllFit
        <3> QED BY <1>1, <3>1, <3>2 DEF Sending
    <2>9. Len(Unsent') + 1 = q /\ DOMAIN Unsent' = 1 .. q - 1
        BY <1>3, <2>3
    <2>10. Sending(off, less)'
        BY <1>12, <2>3, <2>5, <2>6, <2>7, <2>8, <2>9 DEF Sending
    <2> QED BY <1>14, <2>10 DEF Ordered
<1>19. CASE rest # << >>
    <2>1. ~AllFit(off)
        <3> SUFFICES ASSUME AllFit(off) PROVE FALSE
            OBVIOUS
        <3>1. Len(h) <= MaxTransfer
            <4>1. 1 \in DOMAIN queue
                BY <1>3, <1>11 DEF q
            <4> QED BY <1>3, <4>1 DEF AllFit
        <3>2. Len(wire) + Len(h) <= Capacity
            <4>1. off[Len(written) + 1] - Taken(off) <= Capacity
                BY DEF AllFit
            <4>2. unsent[2] = (Taken(off) + Len(wire)) + Len(h) /\ unsent[2] <= off[Len(written) + 1]
                BY <1>10, <1>11
            <4>3. Capacity \in Nat
                BY CellAssumption
            <4> QED BY <1>4, <1>9, <4>1, <4>2, <4>3
        <3>3. n = Len(h)
            BY <1>2, <1>3, <3>1, <3>2, AmountIs DEF n
        <3>4. rest = << >>
            BY <1>4, <1>5, <3>3 DEF Nats
        <3> QED BY <1>19, <3>4
    <2>2. Alone
        BY <1>1, <2>1 DEF Sending
    <2>3. q = 1 /\ Len(completed) = 0
        BY <1>3, <1>16, <2>2 DEF Alone, q
    <2>4. /\ Len(completed') = 1 /\ completed'[1].rest = rest /\ Len(queue') = 0
          /\ 1 \in DOMAIN completed'
        BY <1>3, <1>6, <1>17, <2>3
    <2>5. ~NoRest' /\ Alone'
        BY <1>19, <2>4 DEF NoRest, Alone
    <2>6. Unsent' = <<rest>>
        BY <2>4, <2>5 DEF Unsent
    <2>l. PICK less : less = <<unsent[1] + n, unsent[2]>>
        OBVIOUS
    <2>7. less \in [1 .. 2 -> Nat] /\ less[1] = unsent[1] + n /\ less[2] = unsent[2]
        BY <1>4, <1>11, <2>l
    <2>8. Len(<<rest>>) = 1 /\ <<rest>>[1] = rest /\ DOMAIN <<rest>> = 1 .. 1
        OBVIOUS
    <2>9. Offsets(<<rest>>, less)
        <3>1. less[1 + 1] = less[1] + Len(rest)
            BY <1>4, <1>5, <1>11, <2>7
        <3>2. less[1] <= less[2] /\ less[1] \in Nat /\ less[2] \in Nat
            BY <1>4, <1>5, <1>11, <2>7
        <3>3. \A i, j \in 1 .. 2 : i <= j => less[i] <= less[j]
            BY <3>2
        <3> QED BY <2>7, <2>8, <3>1, <3>3 DEF Offsets
    <2>10. less[1] = Taken(off) + Len(wire') /\ less[2] = off[Len(written) + 1]
        BY <1>4, <1>9, <1>10, <1>15, <2>3, <2>7
    <2>11. Holds(rest, less[1], Frames, off)
        <3>1. Holds(rest, (Taken(off) + Len(wire)) + n, Frames, off)
            BY <1>3, <1>4, <1>9, <1>13, HoldsRest DEF rest
        <3> QED BY <1>10, <2>7, <3>1
    <2>12. Sending(off, less)'
        BY <1>12, <2>5, <2>6, <2>8, <2>9, <2>10, <2>11 DEF Sending
    <2> QED BY <1>14, <2>12 DEF Ordered
<1> QED BY <1>18, <1>19

(* A completion puts the rest of its frame back, at the place it has left. *)
LEMMA OnTransferredStep ==
  ASSUME Inv, OnTransferred, reader.pc # "ended"
  PROVE  Ordered'
<1>1. PICK off, unsent : InOrder(off) /\ (link = "up" => Sending(off, unsent))
    BY DEF Inv, Ordered
<1>2. TypeOK
    BY DEF Inv
<1>3. /\ completed' = Tail(completed) /\ completed # << >>
      /\ queue' = IF completed[1].rest = << >> THEN queue ELSE Append(queue, completed[1].rest)
      /\ UNCHANGED <<written, link, wire, reader, delivered>>
    BY <1>2 DEF OnTransferred, TypeOK
<1>4. /\ completed \in Seq([error_code : BOOLEAN, rest : Nats])
      /\ Len(completed) \in Nat /\ Len(completed) > 0 /\ DOMAIN completed = 1 .. Len(completed)
      /\ Len(completed') = Len(completed) - 1 /\ DOMAIN completed' = 1 .. Len(completed) - 1
      /\ \A i \in 1 .. Len(completed) - 1 : completed'[i] = completed[i + 1]
      /\ queue \in Seq(Nats) /\ Len(queue) \in Nat /\ completed[1].rest \in Nats
    <2> DEFINE R == [error_code : BOOLEAN, rest : Nats]
    <2>1. completed \in Seq(R) /\ queue \in Seq(Nats) /\ Len(queue) \in Nat
        BY <1>2 DEF TypeOK
    <2>2. \A c \in R : c.rest \in Nats
        OBVIOUS
    <2> HIDE DEF R
    <2>3. completed[1] \in R
        BY <1>3, <2>1, HeadAndTail
    <2>4. /\ Len(completed) \in Nat /\ Len(completed) > 0 /\ DOMAIN completed = 1 .. Len(completed)
          /\ Len(completed') = Len(completed) - 1 /\ DOMAIN completed' = 1 .. Len(completed) - 1
          /\ \A i \in 1 .. Len(completed) - 1 : completed'[i] = completed[i + 1]
        BY <1>3, <2>1, HeadAndTail
    <2> QED BY <2>1, <2>2, <2>3, <2>4 DEF R
<1>5. Taken(off)' = Taken(off) /\ Frames' = Frames /\ written' = written
    BY <1>3 DEF Taken, Before, Frames
<1>6. InOrder(off)'
    BY <1>1, <1>3, <1>5 DEF InOrder
<1>7. ASSUME link = "up" PROVE Sending(off, unsent)'
    <2>1. Sending(off, unsent)
        BY <1>1, <1>7
    <2>2. Unsent' = Unsent /\ (Alone' \/ AllFit(off)')
        <3>1. CASE completed[1].rest = << >>
            <4>1. NoRest
                <5> SUFFICES ASSUME ~NoRest PROVE FALSE
                    OBVIOUS
                <5>1. Alone
                    BY <2>1 DEF Sending, AllFit
                <5>2. Len(completed) = 1
                    BY <1>4, <5>1 DEF Alone
                <5> QED BY <1>4, <3>1, <5>2 DEF NoRest
            <4>2. NoRest'
                <5> SUFFICES ASSUME NEW i \in 1 .. Len(completed) - 1 PROVE completed'[i].rest = << >>
                    BY <1>4 DEF NoRest
                <5>1. i + 1 \in DOMAIN completed /\ completed'[i] = completed[i + 1]
                    BY <1>4
                <5> QED BY <4>1, <5>1 DEF NoRest
            <4>3. queue' = queue
                BY <1>3, <3>1
            <4>4. Unsent' = Unsent
                BY <4>1, <4>2, <4>3 DEF Unsent
            <4>5. Alone => Alone'
                BY <1>4, <4>3 DEF Alone
            <4>6. AllFit(off) => AllFit(off)'
                BY <1>5, <4>2, <4>3 DEF AllFit
            <4> QED BY <2>1, <4>4, <4>5, <4>6 DEF Sending
        <3>2. CASE completed[1].rest # << >>
            <4>1. ~NoRest
                BY <1>4, <3>2 DEF NoRest
            <4>2. Alone
                BY <2>1, <4>1 DEF Sending, AllFit
            <4>3. Len(completed) = 1 /\ Len(queue) = 0
                BY <1>4, <4>2 DEF Alone
            <4>4. queue = << >> /\ Len(completed') = 0
                BY <1>4, <4>3
            <4>5. queue' = <<completed[1].rest>>
                BY <1>3, <3>2, <4>4
            <4>6. NoRest'
                BY <1>4, <4>3 DEF NoRest
            <4>7. Unsent' = Unsent
                BY <4>1, <4>5, <4>6 DEF Unsent
            <4>8. Alone'
                BY <4>4, <4>5 DEF Alone
            <4> QED BY <4>7, <4>8
        <3> QED BY <3>1, <3>2
    <2> QED BY <1>3, <1>5, <2>1, <2>2 DEF Sending
<1> QED BY <1>3, <1>6, <1>7 DEF Ordered

-----------------------------------------------------------------------------
(* A step of the receiver that takes no cell leaves the order alone.       *)
LEMMA NothingTaken ==
  ASSUME NEW off, NEW unsent, InOrder(off), link = "up" => Sending(off, unsent),
         UNCHANGED <<written, queue, completed, link, wire>>, Taken(off)' = Taken(off)
  PROVE  Ordered'
<1>1. Frames' = Frames /\ NoRest' = NoRest /\ Unsent' = Unsent /\ Alone' = Alone
    BY DEF Frames, NoRest, Unsent, Alone
<1>2. InOrder(off)'
    BY <1>1 DEF InOrder
<1>3. AllFit(off)' = AllFit(off)
    BY <1>1 DEF AllFit
<1>4. link = "up" => Sending(off, unsent)'
    BY <1>1, <1>3 DEF Sending
<1> QED BY <1>2, <1>4 DEF Ordered

(* The parts of the reader, and the frame that it is in.                   *)
LEMMA ReaderShape ==
  ASSUME TypeOK, DeliveredFirst, InFrame
  PROVE  LET d == Len(delivered)
         IN  /\ reader.need \in Nat /\ reader.got \in Nats /\ reader.object_id \in Nat
             /\ Len(reader.got) \in Nat /\ DOMAIN reader.got = 1 .. Len(reader.got)
             /\ reader = [pc |-> reader.pc, need |-> reader.need, got |-> reader.got,
                          object_id |-> reader.object_id]
             /\ d \in Nat /\ Len(written) \in Nat /\ d <= Len(written)
             /\ d < Len(written) => d + 1 \in 1 .. Len(written) /\ written[d + 1] \in Messages
BY DEF TypeOK, DeliveredFirst, Nats

(* What the receiver takes is the next cell of the frame it is in.         *)
LEMMA ReadSomeStep ==
  ASSUME Inv, ReadSome
  PROVE  InFrame' /\ Ordered'
<1> DEFINE d == Len(delivered)
           g == Len(reader.got)
           p == Before + g + 1
           m == written[d + 1]
<1>1. PICK off, unsent : InOrder(off) /\ (link = "up" => Sending(off, unsent))
    BY DEF Inv, Ordered, ReadSome
<1>2. TypeOK /\ DeliveredFirst /\ InFrame /\ reader.pc # "ended"
    BY DEF Inv, ReadSome
<1>3. /\ reader.need \in Nat /\ reader.got \in Nats /\ g \in Nat /\ DOMAIN reader.got = 1 .. g
      /\ reader = [pc |-> reader.pc, need |-> reader.need, got |-> reader.got,
                   object_id |-> reader.object_id]
      /\ d \in Nat /\ Len(written) \in Nat /\ d <= Len(written)
      /\ d < Len(written) => d + 1 \in 1 .. Len(written) /\ m \in Messages
    BY <1>2, ReaderShape
<1>4. /\ g < reader.need /\ wire' = Tail(wire)
      /\ reader' = [pc |-> reader.pc, need |-> reader.need,
                    got |-> Append(reader.got, Head(wire)), object_id |-> reader.object_id]
      /\ UNCHANGED <<written, queue, completed, socket_, link, delivered>>
    BY <1>3 DEF ReadSome
<1>5. /\ wire \in Seq(Nat) /\ Len(wire) \in Nat /\ Len(wire) > 0
      /\ Head(wire) = wire[1] /\ Head(wire) \in Nat
      /\ Tail(wire) \in Seq(Nat) /\ Len(Tail(wire)) = Len(wire) - 1
      /\ \A i \in 1 .. Len(wire) - 1 : Tail(wire)[i] = wire[i + 1]
    <2>1. wire \in Seq(Nat) /\ wire # << >>
        BY <1>2 DEF TypeOK, ReadSome, Nats
    <2> QED BY <2>1, HeadAndTail
<1>6. /\ off \in [1 .. Len(written) + 1 -> Nat] /\ Before \in 0 .. 2 /\ Taken(off) \in Nat
      /\ off[d + 1] \in Nat /\ Taken(off) = off[d + 1] + Before + g
      /\ Taken(off) + Len(wire) <= off[Len(written) + 1]
    <2>1. off \in [1 .. Len(written) + 1 -> Nat] /\ Before \in 0 .. 2 /\ Taken(off) \in Nat
          /\ d + 1 \in 1 .. Len(written) + 1
        BY <1>1, <1>2, Place
    <2>2. Taken(off) = off[d + 1] + Before + g
        BY DEF Taken
    <2>3. Taken(off) + Len(wire) <= off[Len(written) + 1]
        BY <1>1 DEF InOrder
    <2> HIDE DEF d, g
    <2> QED BY <2>1, <2>2, <2>3
<1>7. d < Len(written)
    <2> SUFFICES ASSUME d = Len(written) PROVE FALSE
        BY <1>3
    <2>1. off[Len(written) + 1] = off[d + 1]
        OBVIOUS
    <2> HIDE DEF d, g
    <2> QED BY <1>3, <1>5, <1>6, <2>1
<1>8. /\ reader.pc # "Body" => reader.need = 1
      /\ \A k \in 1 .. g : reader.got[k] = Frame(m)[Before + k]
      /\ reader.pc # "ObjectID" => reader.object_id = m.object_id
      /\ reader.pc = "Body" => reader.need = Len(m.data)
    BY <1>2, <1>3 DEF InFrame
<1>9. Len(m.data) \in Nat /\ DOMAIN Frame(m) = 1 .. Len(m.data) + 2
    BY <1>3, <1>7, FrameShape DEF Nats
<1>10. p \in DOMAIN Frame(m)
    <2>1. CASE reader.pc = "Body"
        <3>1. Before = 2
            BY <2>1 DEF Before
        <3> HIDE DEF g, m
        <3> QED BY <1>3, <1>4, <1>8, <1>9, <2>1, <3>1
    <2>2. CASE reader.pc # "Body"
        <3>1. Before <= 1 /\ Before \in Nat
            BY <1>2, <2>2 DEF Before, TypeOK
        <3> HIDE DEF g, m
        <3> QED BY <1>3, <1>4, <1>8, <1>9, <2>2, <3>1
    <2> QED BY <2>1, <2>2
<1>11. d + 1 \in DOMAIN Frames /\ Frames[d + 1] = Frame(m)
    BY <1>2, <1>3, <1>7, FramesShape
<1> HIDE DEF d, g, m
<1>n. /\ off[d + 1] \in Nat /\ Before \in Nat /\ g \in Nat /\ Taken(off) \in Nat
      /\ Len(wire) \in Nat /\ Len(wire) > 0 /\ Taken(off) = off[d + 1] + Before + g
    <2>1. Before \in Nat
        BY <1>6
    <2>2. g \in Nat
        BY <1>3
    <2>3. Len(wire) \in Nat /\ Len(wire) > 0
        BY <1>5
    <2> QED BY <1>6, <2>1, <2>2, <2>3, Zenon
<1>12. wire[1] = Frame(m)[p]
    <2>1. Holds(wire, Taken(off), Frames, off)
        BY <1>1 DEF InOrder
    <2>2. (off[d + 1] + p) - Taken(off) = 1 /\ Taken(off) < off[d + 1] + p
          /\ off[d + 1] + p <= Taken(off) + Len(wire)
        BY <1>n
    <2> QED BY <1>10, <1>11, <2>1, <2>2 DEF Holds
<1>13. Before' = Before /\ reader'.got = Append(reader.got, wire[1]) /\ reader'.pc = reader.pc
       /\ reader'.need = reader.need /\ reader'.object_id = reader.object_id
    <2>1. reader'.got = Append(reader.got, wire[1]) /\ reader'.pc = reader.pc
          /\ reader'.need = reader.need /\ reader'.object_id = reader.object_id
        BY <1>4, <1>5
    <2> QED BY <2>1 DEF Before
<1>14. /\ Len(reader'.got) = g + 1 /\ DOMAIN reader'.got = 1 .. g + 1
       /\ \A k \in 1 .. g : reader'.got[k] = reader.got[k]
       /\ reader'.got[g + 1] = wire[1]
    <2> DEFINE a == reader.got
               b == wire[1]
    <2>1. a \in Seq(Nat) /\ b \in Nat /\ Len(a) = g
        BY <1>3, <1>5 DEF Nats, g
    <2> HIDE DEF a, b
    <2>2. /\ Len(Append(a, b)) = g + 1 /\ DOMAIN Append(a, b) = 1 .. g + 1
          /\ \A k \in 1 .. g : Append(a, b)[k] = a[k]
          /\ Append(a, b)[g + 1] = b
        BY <2>1
    <2> QED BY <1>13, <2>2 DEF a, b
<1>15. InFrame'
    <2>1. ASSUME NEW k \in 1 .. g + 1 PROVE reader'.got[k] = Frame(m)[Before + k]
        <3>1. CASE k = g + 1
            <4>1. Before + k = p
                BY <1>n, <3>1
            <4> QED BY <1>12, <1>14, <3>1, <4>1
        <3>2. CASE k # g + 1
            <4>1. k \in 1 .. g
                BY <1>3, <3>2
            <4> QED BY <1>8, <1>14, <4>1
        <3> QED BY <3>1, <3>2
    <2>2. Len(delivered') = d /\ written'[d + 1] = m /\ Len(written') = Len(written)
        BY <1>4 DEF d, m
    <2>3. Len(reader'.got) <= reader'.need
        BY <1>3, <1>4, <1>13, <1>14
    <2> QED BY <1>7, <1>8, <1>13, <1>14, <2>1, <2>2, <2>3 DEF InFrame
<1>16. Taken(off)' = Taken(off) + 1
    <2>1. Taken(off)' = off[d + 1] + Before + (g + 1)
        BY <1>4, <1>13, <1>14 DEF Taken, d
    <2> QED BY <1>n, <2>1
<1>17. Frames' = Frames /\ NoRest' = NoRest /\ Unsent' = Unsent /\ Alone' = Alone
    BY <1>4 DEF Frames, NoRest, Unsent, Alone
<1>18. InOrder(off)'
    <2>1. Holds(Tail(wire), Taken(off) + 1, Frames, off)
        <3>1. Holds(wire, Taken(off), Frames, off) /\ Offsets(Frames, off) /\ Frames \in Seq(Nats)
            BY <1>1, <1>2, FramesShape DEF InOrder
        <3>2. 1 \in 0 .. Len(wire) /\ wire \in Nats
            BY <1>5 DEF Nats
        <3>3. Holds(SubSeq(wire, 1 + 1, Len(wire)), Taken(off) + 1, Frames, off)
            BY <1>n, <3>1, <3>2, HoldsRest
        <3>4. Tail(wire) = SubSeq(wire, 2, Len(wire))
            <4>1. wire # << >>
                BY DEF ReadSome
            <4> QED BY <1>5, <4>1, TailIsSubSeq
        <3>5. 1 + 1 = 2
            OBVIOUS
        <3> QED BY <3>3, <3>4, <3>5, Zenon
    <2>2. (Taken(off) + 1) + Len(Tail(wire)) <= off[Len(written) + 1]
        <3>1. (Taken(off) + 1) + Len(Tail(wire)) = Taken(off) + Len(wire)
            BY <1>5, <1>6
        <3> QED BY <1>6, <3>1
    <2> QED BY <1>1, <1>4, <1>16, <1>17, <2>1, <2>2 DEF InOrder
<1>19. ASSUME link = "up" PROVE Sending(off, unsent)'
    <2>1. Sending(off, unsent)
        BY <1>1, <1>19
    <2>2. unsent[1] = Taken(off)' + Len(wire')
        <3>1. unsent[1] = Taken(off) + Len(wire)
            BY <2>1 DEF Sending
        <3> QED BY <1>4, <1>5, <1>6, <1>16, <3>1
    <2>3. AllFit(off) => AllFit(off)'
        <3>1. off[Len(written) + 1] \in Nat /\ Capacity \in Nat
            <4>1. Len(written) + 1 \in 1 .. Len(written) + 1
                BY <1>3
            <4> QED BY <1>6, <4>1, CellAssumption
        <3>2. off[Len(written) + 1] - Taken(off) <= Capacity
                => off[Len(written) + 1] - (Taken(off) + 1) <= Capacity
            BY <1>6, <3>1
        <3> QED BY <1>4, <1>16, <1>17, <3>2 DEF AllFit
    <2> QED BY <1>4, <1>17, <2>1, <2>2, <2>3 DEF Sending
<1>20. Ordered'
    BY <1>4, <1>18, <1>19 DEF Ordered
<1> QED BY <1>15, <1>20

(* The one cell that was read is the object id.                            *)
LEMMA OnObjectIDStep ==
  ASSUME Inv, OnObjectID
  PROVE  InFrame' /\ Ordered'
<1> DEFINE d == Len(delivered)
           m == written[d + 1]
<1>1. TypeOK /\ DeliveredFirst /\ InFrame /\ reader.pc = "ObjectID" /\ Len(reader.got) = reader.need
    BY DEF Inv, OnObjectID, ReadComplete
<1>2. PICK off, unsent : InOrder(off) /\ (link = "up" => Sending(off, unsent))
    BY <1>1 DEF Inv, Ordered
<1>3. Len(reader.got) = 1 /\ DOMAIN reader.got = 1 .. 1 /\ reader.got # << >> /\ d < Len(written)
    BY <1>1, ReaderShape DEF InFrame
<1>4. m \in Messages
    BY <1>1, <1>3, ReaderShape
<1>5. Before = 0
    BY <1>1 DEF Before
<1>6. reader.got[1] = m.object_id
    <2>1. reader.got[1] = Frame(m)[0 + 1]
        BY <1>1, <1>3, <1>5 DEF InFrame
    <2> QED BY <1>4, <2>1, FrameShape
<1>7. /\ reader' = [pc |-> "Header", need |-> 1, got |-> << >>, object_id |-> reader.got[1]]
      /\ UNCHANGED <<written, queue, completed, socket_, link, wire, delivered>>
    BY DEF OnObjectID
<1>8. /\ reader'.pc = "Header" /\ reader'.need = 1 /\ reader'.got = << >>
      /\ reader'.object_id = m.object_id
    BY <1>6, <1>7
<1>9. Before' = 1
    BY <1>8 DEF Before
<1>10. Taken(off)' = Taken(off)
    <2>1. Taken(off)' = off[d + 1] + 1 + 0
        BY <1>7, <1>8, <1>9 DEF Taken
    <2>2. Taken(off) = off[d + 1] + 0 + 1
        BY <1>3, <1>5 DEF Taken
    <2>3. off[d + 1] \in Nat
        BY <1>1, <1>2, Place
    <2> QED BY <2>1, <2>2, <2>3
<1>11. Ordered'
    BY <1>2, <1>7, <1>10, NothingTaken
<1>12. InFrame'
    BY <1>3, <1>7, <1>8, <1>9 DEF InFrame
<1> QED BY <1>11, <1>12

(* The one cell that was read is the size of the data, which it can tell.  *)
LEMMA OnHeaderStep ==
  ASSUME Careful, Inv, OnHeader
  PROVE  InFrame' /\ Ordered'
<1> DEFINE d == Len(delivered)
           m == written[d + 1]
<1>1. TypeOK /\ DeliveredFirst /\ InFrame /\ reader.pc = "Header" /\ Len(reader.got) = reader.need
    BY DEF Inv, OnHeader, ReadComplete
<1>2. PICK off, unsent : InOrder(off) /\ (link = "up" => Sending(off, unsent))
    BY <1>1 DEF Inv, Ordered
<1>3. /\ Len(reader.got) = 1 /\ DOMAIN reader.got = 1 .. 1 /\ d < Len(written)
      /\ reader.object_id = m.object_id
    BY <1>1, ReaderShape DEF InFrame
<1>4. m \in Messages
    BY <1>1, <1>3, ReaderShape
<1>5. Before = 1
    BY <1>1 DEF Before
<1>6. reader.got[1] = Len(m.data)
    <2>1. reader.got[1] = Frame(m)[1 + 1]
        BY <1>1, <1>3, <1>5 DEF InFrame
    <2>2. reader.got[1] = Len(m.data) % SizeSpace /\ Len(m.data) \in Nat
        BY <1>4, <2>1, FrameShape DEF Nats
    <2>3. Len(m.data) < SizeSpace /\ SizeSpace \in Nat /\ SizeSpace > 0
        BY <1>4, CellAssumption DEF Careful
    <2> HIDE DEF m
    <2>4. Len(m.data) % SizeSpace = Len(m.data)
        <3> DEFINE x == Len(m.data)
        <3>1. x \in Nat /\ x < SizeSpace /\ SizeSpace \in Nat /\ SizeSpace > 0
            BY <2>2, <2>3
        <3> HIDE DEF x
        <3>2. x % SizeSpace = x
            BY <3>1
        <3> QED BY <3>2 DEF x
    <2> QED BY <2>2, <2>4
<1>7. /\ reader' = [reader EXCEPT !.pc = "Body", !.got = << >>, !.need = reader.got[1]]
      /\ UNCHANGED <<written, queue, completed, socket_, link, wire, delivered>>
    BY DEF OnHeader
<1>8. /\ reader'.pc = "Body" /\ reader'.need = Len(m.data) /\ reader'.got = << >>
      /\ reader'.object_id = m.object_id
    BY <1>1, <1>3, <1>6, <1>7 DEF TypeOK
<1>9. Before' = 2
    BY <1>8 DEF Before
<1>10. Taken(off)' = Taken(off)
    <2>1. Taken(off)' = off[d + 1] + 2 + 0
        BY <1>7, <1>8, <1>9 DEF Taken
    <2>2. Taken(off) = off[d + 1] + 1 + 1
        BY <1>3, <1>5 DEF Taken
    <2>3. off[d + 1] \in Nat
        BY <1>1, <1>2, Place
    <2> QED BY <2>1, <2>2, <2>3
<1>11. Ordered'
    BY <1>2, <1>7, <1>10, NothingTaken
<1>12. InFrame'
    <2>1. Len(m.data) \in Nat
        BY <1>4, FrameShape DEF Nats
    <2> QED BY <1>3, <1>7, <1>8, <1>9, <2>1 DEF InFrame
<1> QED BY <1>11, <1>12

(* What was read is the data of the message: the callback gets the message *)
(* that was written, and the receiver is at the end of its frame.          *)
LEMMA OnBodyStep ==
  ASSUME Inv, OnBody
  PROVE  InFrame' /\ Ordered' /\ DeliveredFirst'
<1> DEFINE d == Len(delivered)
           m == written[d + 1]
<1>1. TypeOK /\ DeliveredFirst /\ InFrame /\ reader.pc = "Body" /\ Len(reader.got) = reader.need
    BY DEF Inv, OnBody, ReadComplete
<1>2. PICK off, unsent : InOrder(off) /\ (link = "up" => Sending(off, unsent))
    BY <1>1 DEF Inv, Ordered
<1>3. /\ d < Len(written) /\ d \in Nat /\ Len(written) \in Nat
      /\ Len(reader.got) = Len(m.data) /\ DOMAIN reader.got = 1 .. Len(m.data)
      /\ reader.object_id = m.object_id /\ reader.got \in Seq(Nat)
    BY <1>1, ReaderShape DEF InFrame, Nats
<1>4. m \in Messages /\ m.data \in Seq(Nat) /\ Len(m.data) \in Nat
    <2>1. m \in Messages
        BY <1>1, <1>3, ReaderShape
    <2> QED BY <2>1, FrameShape DEF Nats
<1>5. Before = 2
    BY <1>1 DEF Before
<1>6. reader.got = m.data
    <2>1. ASSUME NEW k \in 1 .. Len(m.data) PROVE reader.got[k] = m.data[k]
        <3>1. reader.got[k] = Frame(m)[2 + k]
            BY <1>1, <1>3, <1>5 DEF InFrame
        <3>2. 2 + k = k + 2
            BY <1>4
        <3> QED BY <1>4, <3>1, <3>2, FrameShape
    <2> QED BY <1>3, <1>4, <2>1, SeqEqual
<1>7. /\ delivered' = Append(delivered, [object_id |-> reader.object_id, data |-> reader.got])
      /\ reader' = [reader EXCEPT !.pc = "ObjectID", !.got = << >>, !.need = 1]
      /\ UNCHANGED <<written, queue, completed, socket_, link, wire>>
    BY DEF OnBody
<1>8. delivered' = Append(delivered, m)
    BY <1>3, <1>4, <1>6, <1>7, FrameShape
<1>9. /\ Len(delivered') = d + 1 /\ DOMAIN delivered' = 1 .. d + 1
      /\ delivered'[d + 1] = m
      /\ \A i \in 1 .. d : delivered'[i] = delivered[i]
    <2> HIDE DEF m
    <2> QED BY <1>1, <1>8 DEF TypeOK
<1>10. DeliveredFirst'
    <2> SUFFICES ASSUME NEW i \in 1 .. d + 1 PROVE delivered'[i] = written[i]
        BY <1>3, <1>7, <1>9 DEF DeliveredFirst
    <2>1. CASE i = d + 1
        BY <1>9, <2>1
    <2>2. CASE i # d + 1
        <3>1. i \in 1 .. d /\ i \in DOMAIN delivered
            BY <1>1, <1>3, <2>2 DEF TypeOK
        <3> QED BY <1>1, <1>9, <3>1 DEF DeliveredFirst
    <2> QED BY <2>1, <2>2
<1>11. reader'.pc = "ObjectID" /\ reader'.need = 1 /\ reader'.got = << >>
    BY <1>1, <1>7 DEF TypeOK
<1>12. Before' = 0
    BY <1>11 DEF Before
<1>13. Taken(off)' = Taken(off)
    <2>1. Taken(off)' = off[(d + 1) + 1] + 0 + 0
        BY <1>9, <1>11, <1>12 DEF Taken
    <2>2. Taken(off) = off[d + 1] + 2 + Len(m.data)
        BY <1>3, <1>5 DEF Taken
    <2>3. off[d + 1] \in Nat
        BY <1>1, <1>2, Place
    <2>4. off[(d + 1) + 1] = off[d + 1] + Len(Frames[d + 1])
        <3>1. d + 1 \in 1 .. Len(Frames)
            BY <1>1, <1>3, FramesShape
        <3> QED BY <1>2, <3>1 DEF InOrder, Offsets
    <2>5. Len(Frames[d + 1]) = Len(m.data) + 2
        <3>1. d + 1 \in 1 .. Len(written)
            BY <1>3
        <3> QED BY <1>1, <1>4, <3>1, FramesShape, FrameShape
    <2>6. off[(d + 1) + 1] = off[d + 1] + (Len(m.data) + 2)
        BY <2>4, <2>5
    <2>7. off[d + 1] + (Len(m.data) + 2) + 0 + 0 = off[d + 1] + 2 + Len(m.data)
        <3> DEFINE x == off[d + 1]
                   y == Len(m.data)
        <3>1. x \in Nat /\ y \in Nat
            BY <1>4, <2>3
        <3> HIDE DEF x, y
        <3>2. x + (y + 2) + 0 + 0 = x + 2 + y
            BY <3>1
        <3> QED BY <3>2 DEF x, y
    <2> QED BY <2>1, <2>2, <2>6, <2>7
<1>14. Ordered'
    BY <1>2, <1>7, <1>13, NothingTaken
<1>15. InFrame'
    BY <1>7, <1>11 DEF InFrame
<1> QED BY <1>10, <1>14, <1>15

-----------------------------------------------------------------------------
(* Every step keeps the invariant.                                         *)
LEMMA InvStep ==
  ASSUME Careful, Inv, [Next]_vars
  PROVE  Inv'
<1>1. TypeOK /\ DeliveredFirst /\ FailsWhenCut
    BY DEF Inv
<1>2. TypeOK'
    <2>1. TypeInv
        BY DEF Inv, InFrame, TypeInv
    <2>2. TypeInv'
        BY <2>1, TypeStep
    <2> QED BY <2>2 DEF TypeInv
<1>3. ASSUME NEW m \in Messages, Write(m) PROVE Inv'
    <2>1. UNCHANGED <<completed, socket_, link, wire, reader, delivered>>
        BY <1>3 DEF Write
    <2>2. DeliveredFirst'
        <3>1. /\ Len(written) \in Nat /\ Len(written') = Len(written) + 1
              /\ \A i \in 1 .. Len(written) : written'[i] = written[i]
            BY <1>1, <1>3 DEF Write, TypeOK
        <3>2. Len(delivered) \in Nat /\ DOMAIN delivered = 1 .. Len(delivered)
            BY <1>1 DEF TypeOK
        <3> QED BY <1>1, <2>1, <3>1, <3>2 DEF DeliveredFirst
    <2>3. FailsWhenCut'
        BY <1>1, <2>1 DEF FailsWhenCut
    <2> QED BY <1>2, <1>3, <2>1, <2>2, <2>3, WriteStep DEF Inv
<1>4. CASE Transfer
    <2>1. UNCHANGED <<written, socket_, link, reader, delivered>> /\ link = "up"
        BY <1>4 DEF Transfer
    <2>2. DeliveredFirst'
        BY <1>1, <2>1 DEF DeliveredFirst
    <2>3. FailsWhenCut'
        <3> DEFINE c == [error_code |-> FALSE,
                         rest |-> SubSeq(Head(queue), Amount(Head(queue)) + 1, Len(Head(queue)))]
        <3>1. completed' = Append(completed, c) /\ c.error_code = FALSE
            BY <1>4 DEF Transfer
        <3>2. Len(completed) \in Nat /\ DOMAIN completed = 1 .. Len(completed)
            BY <1>1 DEF TypeOK
        <3> HIDE DEF c
        <3>3. /\ DOMAIN completed' = 1 .. Len(completed) + 1
              /\ \A i \in 1 .. Len(completed) : completed'[i] = completed[i]
              /\ completed'[Len(completed) + 1] = c
            BY <1>1, <3>1 DEF TypeOK
        <3>4. ~\E i \in DOMAIN completed : completed[i].error_code
            BY <1>1, <2>1 DEF FailsWhenCut
        <3>5. ASSUME NEW i \in DOMAIN completed' PROVE ~completed'[i].error_code
            <4>1. CASE i = Len(completed) + 1
                BY <3>1, <3>3, <4>1
            <4>2. CASE i # Len(completed) + 1
                <5>1. i \in 1 .. Len(completed)
                    BY <3>2, <3>3, <4>2
                <5> QED BY <3>2, <3>3, <3>4, <5>1
            <4> QED BY <4>1, <4>2
        <3> QED BY <1>1, <2>1, <3>5 DEF FailsWhenCut
    <2>4. InFrame' = InFrame
        BY <2>1 DEF InFrame, Before
    <2> QED BY <1>2, <1>4, <2>1, <2>2, <2>3, <2>4, TransferStep DEF Inv
<1>5. CASE TransferFails
    <2>1. UNCHANGED <<written, socket_, link, wire, reader, delivered>> /\ link = "cut"
        BY <1>1, <1>5 DEF TransferFails, FailsWhenCut
    <2>2. DeliveredFirst' /\ FailsWhenCut'
        BY <1>1, <2>1 DEF DeliveredFirst, FailsWhenCut
    <2>3. InFrame' = InFrame
        BY <2>1 DEF InFrame, Before
    <2>4. Ordered => Ordered'
        BY <2>1 DEF Ordered, InOrder, Taken, Before, Frames
    <2> QED BY <1>2, <2>1, <2>2, <2>3, <2>4 DEF Inv
<1>6. CASE OnTransferred
    <2>1. UNCHANGED <<written, link, wire, reader, delivered>>
        BY <1>6 DEF OnTransferred
    <2>2. DeliveredFirst'
        BY <1>1, <2>1 DEF DeliveredFirst
    <2>3. FailsWhenCut'
        <3>1. /\ completed # << >> /\ completed' = Tail(completed)
              /\ socket_' = IF Head(completed).error_code THEN "closed" ELSE socket_
            BY <1>6 DEF OnTransferred
        <3>2. /\ Len(completed) \in Nat /\ Len(completed) > 0 /\ DOMAIN completed = 1 .. Len(completed)
              /\ Head(completed) = completed[1]
              /\ DOMAIN Tail(completed) = 1 .. Len(completed) - 1
              /\ \A i \in 1 .. Len(completed) - 1 : Tail(completed)[i] = completed[i + 1]
            BY <1>1, <3>1, HeadAndTail DEF TypeOK
        <3>3. \A i \in DOMAIN completed' : \E j \in DOMAIN completed : completed'[i] = completed[j]
            <4> SUFFICES ASSUME NEW i \in 1 .. Len(completed) - 1
                         PROVE  i + 1 \in DOMAIN completed /\ completed'[i] = completed[i + 1]
                BY <3>1, <3>2
            <4> QED BY <3>1, <3>2
        <3>4. 1 \in DOMAIN completed
            BY <3>2
        <3> QED BY <1>1, <2>1, <3>1, <3>2, <3>3, <3>4 DEF FailsWhenCut
    <2>4. InFrame' = InFrame
        BY <2>1 DEF InFrame, Before
    <2> QED BY <1>2, <1>6, <2>1, <2>2, <2>3, <2>4, OnTransferredStep DEF Inv
<1>7. CASE LinkCut
    <2>1. UNCHANGED <<written, queue, completed, socket_, wire, reader, delivered>> /\ link' = "cut"
        BY <1>7 DEF LinkCut
    <2>2. DeliveredFirst' /\ FailsWhenCut'
        BY <1>1, <2>1 DEF DeliveredFirst, FailsWhenCut
    <2>3. InFrame' = InFrame
        BY <2>1 DEF InFrame, Before
    <2>4. Ordered => Ordered'
        BY <2>1 DEF Ordered, InOrder, Taken, Before, Frames
    <2> QED BY <1>2, <2>1, <2>2, <2>3, <2>4 DEF Inv
<1>8. ASSUME ReadSome \/ OnObjectID \/ OnHeader PROVE Inv'
    <2>1. UNCHANGED <<written, queue, completed, socket_, link, delivered>>
        BY <1>8 DEF ReadSome, OnObjectID, OnHeader
    <2>2. InFrame' /\ Ordered'
        BY <1>8, ReadSomeStep, OnObjectIDStep, OnHeaderStep
    <2>3. reader'.pc # "ended"
        <3>1. CASE ReadSome
            BY <1>1, <3>1 DEF ReadSome, TypeOK
        <3>2. CASE OnObjectID
            BY <3>2 DEF OnObjectID
        <3>3. CASE OnHeader
            BY <1>1, <3>3 DEF OnHeader, TypeOK
        <3> QED BY <1>8, <3>1, <3>2, <3>3
    <2>4. DeliveredFirst' /\ FailsWhenCut'
        BY <1>1, <2>1, <2>3 DEF DeliveredFirst, FailsWhenCut
    <2> QED BY <1>2, <2>2, <2>4 DEF Inv
<1>9. CASE OnBody
    <2>1. UNCHANGED <<written, queue, completed, socket_, link, wire>>
        BY <1>9 DEF OnBody
    <2>2. reader'.pc # "ended"
        BY <1>1, <1>9 DEF OnBody, TypeOK
    <2>3. FailsWhenCut'
        BY <1>1, <2>1, <2>2 DEF FailsWhenCut
    <2> QED BY <1>2, <1>9, <2>3, OnBodyStep DEF Inv
<1>10. CASE ReadFails
    <2>1. UNCHANGED <<written, queue, completed, socket_, link, delivered>> /\ link = "cut"
        BY <1>10 DEF ReadFails
    <2>2. reader'.pc = "ended"
        BY <1>1, <1>10 DEF ReadFails, TypeOK
    <2>3. DeliveredFirst' /\ FailsWhenCut'
        BY <1>1, <2>1 DEF DeliveredFirst, FailsWhenCut
    <2> QED BY <1>2, <2>2, <2>3 DEF Inv
<1>11. CASE UNCHANGED vars
    <2>1. UNCHANGED <<written, queue, completed, socket_, link, wire, reader, delivered>>
        BY <1>11 DEF vars
    <2>2. DeliveredFirst' /\ FailsWhenCut' /\ InFrame' = InFrame
        BY <1>1, <2>1 DEF DeliveredFirst, FailsWhenCut, InFrame, Before
    <2>3. Ordered => Ordered'
        <3> SUFFICES ASSUME NEW off, NEW unsent, InOrder(off), link = "up" => Sending(off, unsent)
                     PROVE  Ordered'
            BY DEF Ordered
        <3>1. Taken(off)' = Taken(off)
            BY <2>1 DEF Taken, Before
        <3> QED BY <2>1, <3>1, NothingTaken
    <2> QED BY <1>2, <2>1, <2>2, <2>3 DEF Inv
<1> QED BY <1>3, <1>4, <1>5, <1>6, <1>7, <1>8, <1>9, <1>10, <1>11
        DEF Next, SendNext, ReadNext

(* The invariant holds at the start.                                       *)
LEMMA InvInit ==
  ASSUME Init
  PROVE  Inv
<1>1. TypeOK
    BY CellAssumption DEF Init, TypeOK, Nats
<1>2. /\ written = << >> /\ queue = << >> /\ completed = << >> /\ wire = << >> /\ delivered = << >>
      /\ socket_ = "open" /\ link = "up"
      /\ reader.pc = "ObjectID" /\ reader.need = 1 /\ reader.got = << >>
    BY DEF Init
<1>3. DeliveredFirst /\ FailsWhenCut /\ InFrame
    BY <1>2 DEF DeliveredFirst, FailsWhenCut, InFrame
<1>4. Frames \in Seq(Nats) /\ Len(Frames) = 0 /\ DOMAIN Frames = {}
    BY <1>1, <1>2, FramesShape
<1>5. PICK zero : zero = [i \in 1 .. 1 |-> 0]
    OBVIOUS
<1>6. zero \in [1 .. 0 + 1 -> Nat] /\ zero[1] = 0 /\ \A i, j \in 1 .. 0 + 1 : zero[i] <= zero[j]
    BY <1>5
<1>7. Offsets(Frames, zero) /\ Offsets(<< >>, zero)
    BY <1>4, <1>6 DEF Offsets
<1>8. Before = 0 /\ Taken(zero) = 0
    BY <1>2, <1>6 DEF Before, Taken
<1>9. NoRest /\ Unsent = << >> /\ Alone
    BY <1>2 DEF NoRest, Unsent, Alone
<1>10. InOrder(zero)
    BY <1>2, <1>4, <1>6, <1>7, <1>8 DEF InOrder, Holds
<1>11. Sending(zero, zero)
    BY <1>2, <1>6, <1>7, <1>8, <1>9 DEF Sending
<1> QED BY <1>1, <1>3, <1>10, <1>11 DEF Inv, Ordered

(* The invariant of the order of cells, of callers that are careful.       *)
THEOREM OrderInvariance ==
  ASSUME Careful
  PROVE  Spec => []Inv
<1>1. Init => Inv
    BY InvInit
<1>2. Inv /\ [Next]_vars => Inv'
    BY InvStep
<1> QED BY <1>1, <1>2, PTL DEF Spec

(* The callback is invoked with the messages that were written, whole and  *)
(* in the order of the calls of Write, whatever the sockets take at a time *)
(* and whenever the connection is lost.                                    *)
THEOREM DeliversWhole ==
  ASSUME Careful
  PROVE  Spec => []CompleteMessages
<1>1. Inv => CompleteMessages
    <2> SUFFICES ASSUME Inv PROVE CompleteMessages
        OBVIOUS
    <2> DEFINE d == Len(delivered)
               S == [object_id : Nat, data : Nats]
    <2>1. /\ d \in Nat /\ Len(written) \in Nat /\ d <= Len(written)
          /\ \A i \in 1 .. d : delivered[i] = written[i] /\ delivered[i] \in S
        <3>1. delivered \in Seq(S) /\ Len(written) \in Nat
            BY DEF Inv, TypeOK
        <3>2. d <= Len(written) /\ \A i \in DOMAIN delivered : delivered[i] = written[i]
            BY DEF Inv, DeliveredFirst
        <3> HIDE DEF S
        <3> QED BY <3>1, <3>2
    <2> HIDE DEF S
    <2>2. /\ SubSeq(delivered, 1, d) \in Seq(S) /\ SubSeq(written, 1, d) \in Seq(S)
          /\ Len(SubSeq(delivered, 1, d)) = d /\ Len(SubSeq(written, 1, d)) = d
          /\ \A i \in 1 .. d : SubSeq(delivered, 1, d)[i] = SubSeq(written, 1, d)[i]
        <3> HIDE DEF d
        <3>1. \A i \in 1 .. d : written[i] \in S
            BY <2>1
        <3>2. /\ SubSeq(delivered, 1, d) \in Seq(S) /\ Len(SubSeq(delivered, 1, d)) = d
              /\ \A i \in 1 .. d : SubSeq(delivered, 1, d)[i] = delivered[i]
            BY <2>1, SubSeqProperties
        <3>3. /\ SubSeq(written, 1, d) \in Seq(S) /\ Len(SubSeq(written, 1, d)) = d
              /\ \A i \in 1 .. d : SubSeq(written, 1, d)[i] = written[i]
            BY <2>1, <3>1, SubSeqProperties
        <3> QED BY <2>1, <3>2, <3>3
    <2>3. SubSeq(delivered, 1, d) = SubSeq(written, 1, d)
        <3> HIDE DEF d
        <3> QED BY <2>2, SeqEqual
    <2> QED BY <2>1, <2>3 DEF CompleteMessages, IsPrefix
<1> QED BY <1>1, OrderInvariance, PTL
=============================================================================
