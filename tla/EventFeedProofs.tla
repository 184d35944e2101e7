-------------------------- MODULE EventFeedProofs ---------------------------
(***************************************************************************)
(* Frames in bytes, reports in frames, for any number of reporters, files  *)
(* and pieces: the bytes between two ends are always those of the frames   *)
(* between them, which are always the next of the files they come from.    *)
(***************************************************************************)
EXTENDS EventFeed, GameProofs

Byte == Item \cup {NUL}

(* Where each frame of a stream ends among its bytes, of which the first    *)
(* may be the second NUL of a frame that was received.                      *)
Marks(s, frames, b) ==
  /\ b \in [0 .. Len(frames) -> Nat] /\ b[0] \in {0, 1}
  /\ \A k \in 1 .. Len(frames) : b[k] = b[k - 1] + Len(Encode(s, frames[k]))
  /\ \A i, k \in 0 .. Len(frames) : i <= k => b[i] <= b[k]

(* The bytes are those of the frames, as far as they go.                    *)
Holds(s, bytes, frames, b) ==
  /\ Len(bytes) <= b[Len(frames)]
  /\ \A i \in 1 .. Len(bytes) : i <= b[0] => bytes[i] = NUL
  /\ \A k \in 1 .. Len(frames) : \A j \in 1 .. Len(Encode(s, frames[k])) :
       b[k - 1] + j <= Len(bytes) => bytes[b[k - 1] + j] = Encode(s, frames[k])[j]

(* What is between the two ends of a stream that stands is all of its       *)
(* frames, and a beginning of them when it has broken.                      *)
Fits(s, bytes, frames, whole) ==
  \E b : /\ Marks(s, frames, b) /\ Holds(s, bytes, frames, b)
         /\ whole => Len(bytes) = b[Len(frames)]

Joined(a, b, c) == a \o b \o c
InFlight(s) == Joined(buffer[s], net[s], out[s])

FeedTypes ==
  /\ out \in [Streams -> Seq(Byte)] /\ net \in [Streams -> Seq(Byte)]
  /\ buffer \in [Streams -> Seq(Byte)] /\ open \in [Streams -> BOOLEAN]
  /\ way \in [Streams -> Seq(Bodies)]
  /\ got \in [Streams -> {<<>>} \cup {<<frame>> : frame \in Bodies}]
  /\ unsent \in [Users -> Seq(Events)]

OnWire ==
  \A s \in Streams :
    /\ FrameEnds(buffer[s]) = {}
    /\ ~open[s] => out[s] = <<>>
    /\ Fits(s, InFlight(s), way[s], open[s])

FeedInv == FeedTypes /\ OnWire

(* Whose event a frame is of.                                              *)
Of(frame) == frame[1].value

(* How many of a reporter's events there are up to each frame of q: those   *)
(* are the ones that follow each other in its file f.                       *)
Counted(q, u, f, n) ==
  /\ n \in [0 .. Len(q) -> Nat]
  /\ \A k \in 1 .. Len(q) :
       IF Of(q[k]) = u
       THEN n[k] = n[k - 1] + 1 /\ n[k] <= Len(f) /\ q[k] = Body[u][f[n[k]]]
       ELSE n[k] = n[k - 1]

(* The frames of q have the events after first, up to last, and others'.    *)
Relayed(q, u, f, first, last) ==
  \E n : Counted(q, u, f, n) /\ n[0] = first /\ n[Len(q)] = last

(* The next frames of a reporter are those of its events after last; what   *)
(* it has yet to send are the events after p.                               *)
Comes(r, u, f, last) ==
  last + Len(r) <= Len(f) /\ \A j \in 1 .. Len(r) : r[j] = Body[u][f[last + j]]
RestIs(rest, f, p) ==
  p + Len(rest) = Len(f) /\ \A i \in 1 .. Len(rest) : rest[i] = f[p + i]
Begins(said, f) == Len(said) <= Len(f) /\ \A i \in 1 .. Len(said) : said[i] = f[i]

(* What was said, what is on its way to the follower in q, what is on its   *)
(* way from u in r, and the rest: the file of u, as long as nothing breaks. *)
Order(q, r, rest, said, f, u, followed, stands) ==
  /\ Begins(said, f)
  /\ \E last \in Nat :
       /\ Relayed(q, u, f, Len(said), last)
       /\ followed => Comes(r, u, f, last)
       /\ followed /\ stands => RestIs(rest, f, last + Len(r))

(* What a stream has yet to hand to its reader for good.                    *)
Queue(s) == got[s] \o way[s]

InFileOrder(u) ==
  Order(Queue(Follower), Queue(u), unsent[u], told[u], file[u], u, open[Follower], open[u])

OrderInv ==
  /\ file \in [Users -> Seq(Events)] /\ told \in [Users -> Seq(Events)]
  /\ \A u \in Users : InFileOrder(u)

-----------------------------------------------------------------------------
(* Bytes                                                                    *)

(* A body is a frame: it has lines, and no NUL among them.                  *)
LEMMA BodyBytes ==
  ASSUME NEW frame \in Bodies
  PROVE  /\ frame \in Seq(Byte) /\ Len(frame) \in Nat \ {0}
         /\ \A i \in 1 .. Len(frame) : frame[i] # NUL
<1>1. PICK u \in Users : \E e \in Events : frame = Body[u][e]
  BY DEF Bodies
<1>2. PICK e \in Events : frame = Body[u][e]
  BY <1>1
<1>3. frame \in Seq(Item) /\ Len(frame) = Last(e)
  BY <1>2, BodyLines DEF BodyHas
<1>4. Last(e) \in Nat \ {0}
  <2>1. PICK p \in Nat : p = Start(e, 4) /\ p >= 4
    <3>1. Start(e, 4) \in Nat /\ Start(e, 4) >= 4
      BY Starts
    <3> QED BY <3>1
  <2>2. Last(e) = p + Len(e.description) /\ Len(e.description) \in Nat
    BY <2>1, Starts
  <2> QED BY <2>1, <2>2
<1>5. FrameEnds(frame) = {}
  BY <1>2, FeedAssumption
<1>6. \A i \in 1 .. Len(frame) : frame[i] # NUL
  BY <1>5 DEF FrameEnds
<1>7. frame \in Seq(Byte)
  BY <1>3 DEF Byte
<1> QED BY <1>3, <1>4, <1>6, <1>7

(* What encode makes of a frame: the frame, and one NUL or two.             *)
LEMMA EncodeIs ==
  ASSUME NEW frame \in Bodies, NEW s
  PROVE  /\ Encode(s, frame) \in Seq(Byte)
         /\ Len(frame) \in Nat \ {0}
         /\ Len(Encode(s, frame)) \in {Len(frame) + 1, Len(frame) + 2}
         /\ \A j \in 1 .. Len(frame) : Encode(s, frame)[j] = frame[j] /\ frame[j] # NUL
         /\ \A j \in 1 .. Len(Encode(s, frame)) : j > Len(frame) => Encode(s, frame)[j] = NUL
<1>1. /\ frame \in Seq(Byte) /\ Len(frame) \in Nat \ {0}
      /\ \A i \in 1 .. Len(frame) : frame[i] # NUL
  BY BodyBytes
<1>2. NUL \in Byte
  BY DEF Byte
<1>3. CASE s \in Doubled
  <2>1. Encode(s, frame) = frame \o <<NUL, NUL>>
    BY <1>3 DEF Encode
  <2> QED BY <1>1, <1>2, <2>1
<1>4. CASE s \notin Doubled
  <2>1. Encode(s, frame) = frame \o <<NUL>>
    BY <1>4 DEF Encode
  <2> QED BY <1>1, <1>2, <2>1
<1> QED BY <1>3, <1>4

(* One piece after another, and three.                                      *)
LEMMA TwoPieces ==
  ASSUME NEW S, NEW a \in Seq(S), NEW b \in Seq(S)
  PROVE  /\ a \o b \in Seq(S) /\ Len(a \o b) = Len(a) + Len(b)
         /\ \A i \in 1 .. Len(a) : (a \o b)[i] = a[i]
         /\ \A i \in 1 .. Len(b) : (a \o b)[Len(a) + i] = b[i]
  OBVIOUS

(* Where the items of three pieces are in all of them.                      *)
LEMMA Pieces ==
  ASSUME NEW S, NEW a \in Seq(S), NEW b \in Seq(S), NEW c \in Seq(S), NEW all, all = a \o b \o c
  PROVE  /\ all \in Seq(S) /\ Len(all) = Len(a) + Len(b) + Len(c)
         /\ \A i \in 1 .. Len(a) : all[i] = a[i]
         /\ \A i \in 1 .. Len(b) : all[Len(a) + i] = b[i]
         /\ \A i \in 1 .. Len(c) : all[Len(a) + Len(b) + i] = c[i]
<1>1. PICK ab \in Seq(S) : ab = a \o b
  BY TwoPieces
<1>2. /\ Len(ab) = Len(a) + Len(b)
      /\ \A i \in 1 .. Len(a) : ab[i] = a[i]
      /\ \A i \in 1 .. Len(b) : ab[Len(a) + i] = b[i]
  BY <1>1, TwoPieces
<1>3. /\ all \in Seq(S) /\ Len(all) = Len(ab) + Len(c)
      /\ \A i \in 1 .. Len(ab) : all[i] = ab[i]
      /\ \A i \in 1 .. Len(c) : all[Len(ab) + i] = c[i]
  BY <1>1, TwoPieces
<1>4. Len(a) \in Nat /\ Len(b) \in Nat
  OBVIOUS
<1>5. \A i \in 1 .. Len(a) : i \in 1 .. Len(ab)
  BY <1>2, <1>4
<1>6. \A i \in 1 .. Len(b) : Len(a) + i \in 1 .. Len(ab)
  BY <1>2, <1>4
<1> QED BY <1>2, <1>3, <1>5, <1>6

(* A part of the bytes, from the first on, fits still.                      *)
LEMMA FewerFit ==
  ASSUME NEW s, NEW bytes \in Seq(Byte), NEW frames \in Seq(Bodies), NEW whole,
         Fits(s, bytes, frames, whole),
         NEW fewer \in Seq(Byte), Len(fewer) <= Len(bytes),
         \A i \in 1 .. Len(fewer) : fewer[i] = bytes[i],
         NEW still, still => whole /\ Len(fewer) = Len(bytes)
  PROVE  Fits(s, fewer, frames, still)
<1>1. PICK b : Marks(s, frames, b) /\ Holds(s, bytes, frames, b) /\ (whole => Len(bytes) = b[Len(frames)])
  BY DEF Fits
<1> PICK n \in Nat : n = Len(frames)
  OBVIOUS
<1>2. b \in [0 .. n -> Nat]
  BY <1>1 DEF Marks
<1>3. \A k \in 1 .. n : b[k - 1] \in Nat
  <2>1. \A k \in 1 .. n : k - 1 \in 0 .. n
    OBVIOUS
  <2> QED BY <1>2, <2>1
<1>4. Holds(s, fewer, frames, b)
  <2>1. Len(fewer) <= b[Len(frames)]
    BY <1>1, <1>2 DEF Holds
  <2>2. ASSUME NEW k \in 1 .. Len(frames), NEW j \in 1 .. Len(Encode(s, frames[k])),
               b[k - 1] + j <= Len(fewer)
        PROVE  fewer[b[k - 1] + j] = Encode(s, frames[k])[j]
    <3>1. b[k - 1] + j \in 1 .. Len(fewer) /\ b[k - 1] + j <= Len(bytes)
      BY <1>3, <2>2
    <3> QED BY <1>1, <3>1 DEF Holds
  <2>3. \A i \in 1 .. Len(fewer) : i <= b[0] => fewer[i] = NUL
    BY <1>1 DEF Holds
  <2> QED BY <2>1, <2>2, <2>3 DEF Holds
<1> QED BY <1>1, <1>4 DEF Fits

(* A frame that is written after the others fits.                           *)
LEMMA MoreFit ==
  ASSUME NEW s, NEW bytes \in Seq(Byte), NEW frames \in Seq(Bodies), NEW frame \in Bodies,
         Fits(s, bytes, frames, TRUE),
         NEW more, more = bytes \o Encode(s, frame)
  PROVE  Fits(s, more, Append(frames, frame), TRUE)
<1> PICK n \in Nat : n = Len(frames)
  OBVIOUS
<1> DEFINE code == Encode(s, frame)
           all == Append(frames, frame)
<1>1. PICK b : Marks(s, frames, b) /\ Holds(s, bytes, frames, b) /\ Len(bytes) = b[n]
  BY DEF Fits
<1>2. n \in Nat /\ b \in [0 .. n -> Nat] /\ b[0] \in {0, 1} /\ b[n] \in Nat
      /\ \A i \in 0 .. n : b[i] <= b[n]
  BY <1>1 DEF Marks
<1>3. code \in Seq(Byte) /\ Len(code) \in Nat
  BY EncodeIs
<1>4. /\ more \in Seq(Byte) /\ Len(more) = b[n] + Len(code)
      /\ \A i \in 1 .. b[n] : more[i] = bytes[i]
      /\ \A i \in 1 .. Len(code) : more[b[n] + i] = code[i]
  <2>1. /\ bytes \o code \in Seq(Byte) /\ Len(bytes \o code) = Len(bytes) + Len(code)
        /\ \A i \in 1 .. Len(bytes) : (bytes \o code)[i] = bytes[i]
        /\ \A i \in 1 .. Len(code) : (bytes \o code)[Len(bytes) + i] = code[i]
    BY <1>3, TwoPieces
  <2> QED BY <1>1, <2>1
<1>5. all \in Seq(Bodies) /\ Len(all) = n + 1 /\ all[n + 1] = frame
      /\ \A k \in 1 .. n : all[k] = frames[k]
  OBVIOUS
<1> DEFINE c == [k \in 0 .. n + 1 |-> IF k = n + 1 THEN b[n] + Len(code) ELSE b[k]]
<1>6. /\ c \in [0 .. n + 1 -> Nat] /\ c[n + 1] = b[n] + Len(code)
      /\ \A k \in 0 .. n : c[k] = b[k]
  BY <1>2, <1>3
<1> HIDE DEF c, code, all
<1>7. Marks(s, all, c)
  <2>1. \A k \in 1 .. n : c[k] = c[k - 1] + Len(Encode(s, all[k]))
    <3>1. \A k \in 1 .. n : b[k] = b[k - 1] + Len(Encode(s, frames[k]))
      BY <1>1 DEF Marks
    <3>2. \A k \in 1 .. n : k \in 0 .. n /\ k - 1 \in 0 .. n
      BY <1>2
    <3> QED BY <1>5, <1>6, <3>1, <3>2
  <2>2. c[n + 1] = c[(n + 1) - 1] + Len(Encode(s, all[n + 1]))
    <3>1. (n + 1) - 1 = n /\ n \in 0 .. n
      BY <1>2
    <3> QED BY <1>5, <1>6, <3>1 DEF code
  <2>3. \A k \in 1 .. n + 1 : c[k] = c[k - 1] + Len(Encode(s, all[k]))
    <3>1. \A k \in 1 .. n + 1 : k = n + 1 \/ k \in 1 .. n
      BY <1>2
    <3> QED BY <2>1, <2>2, <3>1
  <2>4. ASSUME NEW i \in 0 .. n + 1, NEW k \in 0 .. n + 1, i <= k PROVE c[i] <= c[k]
    <3>1. CASE k \in 0 .. n
      <4>1. i \in 0 .. n
        BY <1>2, <2>4, <3>1
      <4> QED BY <1>1, <1>6, <2>4, <3>1, <4>1 DEF Marks
    <3>2. CASE k = n + 1
      <4>1. i = n + 1 \/ i \in 0 .. n
        BY <1>2
      <4>2. i \in 0 .. n => b[i] \in Nat /\ b[i] <= b[n]
        BY <1>2
      <4> QED BY <1>2, <1>3, <1>6, <3>2, <4>1, <4>2
    <3> QED BY <1>2, <3>1, <3>2
  <2>5. c[0] \in {0, 1}
    BY <1>2, <1>6
  <2> QED BY <1>5, <1>6, <2>3, <2>4, <2>5 DEF Marks
<1>8. Holds(s, more, all, c)
  <2>1. \A i \in 1 .. Len(more) : i <= c[0] => more[i] = NUL
    <3> SUFFICES ASSUME NEW i \in 1 .. Len(more), i <= c[0] PROVE more[i] = NUL
      OBVIOUS
    <3>1. c[0] = b[0] /\ b[0] <= b[n] /\ b[0] \in Nat
      BY <1>2, <1>6
    <3>2. i \in 1 .. b[n]
      BY <1>2, <3>1
    <3> QED BY <1>1, <1>4, <3>1, <3>2 DEF Holds
  <2>2. ASSUME NEW k \in 1 .. n + 1, NEW j \in 1 .. Len(Encode(s, all[k])), c[k - 1] + j <= Len(more)
        PROVE  more[c[k - 1] + j] = Encode(s, all[k])[j]
    <3>1. CASE k = n + 1
      <4>1. (n + 1) - 1 = n /\ n \in 0 .. n
        BY <1>2
      <4>2. c[k - 1] = b[n] /\ Encode(s, all[k]) = code
        BY <1>5, <1>6, <3>1, <4>1 DEF code
      <4>3. j \in 1 .. Len(code)
        BY <4>2
      <4> QED BY <1>4, <4>2, <4>3
    <3>2. CASE k \in 1 .. n
      <4>1. k \in 0 .. n /\ k - 1 \in 0 .. n
        BY <1>2, <3>2
      <4>2. all[k] = frames[k] /\ c[k - 1] = b[k - 1] /\ b[k - 1] \in Nat
            /\ b[k] = b[k - 1] + Len(Encode(s, frames[k])) /\ b[k] <= b[n]
        BY <1>1, <1>2, <1>5, <1>6, <3>2, <4>1 DEF Marks
      <4>3. Encode(s, frames[k]) \in Seq(Byte)
        BY <3>2, EncodeIs, ElementOfSeq
      <4>4. b[k - 1] + j \in 1 .. b[n]
        BY <1>2, <2>2, <4>2, <4>3
      <4>5. j \in 1 .. Len(Encode(s, frames[k])) /\ b[k - 1] + j <= Len(bytes)
        BY <1>1, <2>2, <4>2, <4>4
      <4>6. bytes[b[k - 1] + j] = Encode(s, frames[k])[j]
        BY <1>1, <3>2, <4>5 DEF Holds
      <4> QED BY <1>4, <4>2, <4>4, <4>6
    <3>3. k = n + 1 \/ k \in 1 .. n
      OBVIOUS
    <3> QED BY <3>1, <3>2, <3>3
  <2>3. Len(more) <= c[n + 1]
    BY <1>3, <1>4, <1>6
  <2> QED BY <1>5, <2>1, <2>2, <2>3 DEF Holds
<1> QED BY <1>4, <1>5, <1>6, <1>7, <1>8 DEF Fits, all

(* A difference taken from both sides.                                      *)
LEMMA Minus ==
  ASSUME NEW x \in Nat, NEW y \in Nat, NEW d \in Nat, NEW p \in Nat
  PROVE  /\ x = y + d => x - p = (y - p) + d
         /\ x <= y => x - p <= y - p
  OBVIOUS

(* A place after p.                                                         *)
LEMMA Ahead ==
  ASSUME NEW i \in Nat, NEW p \in Nat, NEW z \in Nat, i >= 1, i <= z - p
  PROVE  p + i \in 1 .. z
  OBVIOUS

(* The rest of a sequence.                                                  *)
LEMMA TailIs ==
  ASSUME NEW S, NEW q \in Seq(S), q # <<>>
  PROVE  /\ Tail(q) \in Seq(S) /\ Len(q) = Len(Tail(q)) + 1 /\ q[1] = Head(q) /\ Head(q) \in S
         /\ \A k \in 1 .. Len(Tail(q)) : Tail(q)[k] = q[k + 1]
  OBVIOUS

(* The first NUL of bytes is at p, and rest is what is after it.            *)
CutAt(bytes, p, rest) ==
  /\ p \in 1 .. Len(bytes) /\ bytes[p] = NUL
  /\ \A i \in 1 .. p - 1 : bytes[i] # NUL
  /\ rest \in Seq(Byte) /\ Len(rest) = Len(bytes) - p
  /\ \A i \in 1 .. Len(rest) : rest[i] = bytes[p + i]

(* The bytes up to the first NUL are the first frame, or the second NUL of  *)
(* the one before; what is after them fits what is left.                    *)
LEMMA FirstFrame ==
  ASSUME NEW s, NEW bytes \in Seq(Byte), NEW frames \in Seq(Bodies), NEW whole,
         Fits(s, bytes, frames, whole),
         NEW p \in Nat, NEW rest, CutAt(bytes, p, rest)
  PROVE  \/ p = 1 /\ Fits(s, rest, frames, whole)
         \/ /\ frames # <<>> /\ p = Len(frames[1]) + 1
            /\ \A j \in 1 .. Len(frames[1]) : bytes[j] = frames[1][j]
            /\ Fits(s, rest, Tail(frames), whole)
<1> PICK n \in Nat : n = Len(frames)
  OBVIOUS
<1> PICK size \in Nat : size = Len(bytes)
  OBVIOUS
<1>1. PICK b : Marks(s, frames, b) /\ Holds(s, bytes, frames, b) /\ (whole => Len(bytes) = b[n])
  BY DEF Fits
<1>2. b \in [0 .. n -> Nat] /\ b[0] \in {0, 1} /\ \A i, k \in 0 .. n : i <= k => b[i] <= b[k]
  BY <1>1 DEF Marks
<1>3. p \in 1 .. size /\ Len(rest) = size - p /\ \A i \in 1 .. size - p : rest[i] = bytes[p + i]
  BY DEF CutAt
<1>10. \A d, j \in Nat : j >= 1 /\ d + j <= size - p =>
         d + j \in 1 .. size - p /\ p + (d + j) <= size
  BY <1>3
<1>9. bytes[p] = NUL /\ \A i \in 1 .. p - 1 : bytes[i] # NUL
  BY DEF CutAt
<1>4. \A k \in 1 .. n : k - 1 \in 0 .. n /\ k \in 0 .. n
  OBVIOUS
<1>5. \A k \in 1 .. n : /\ Len(Encode(s, frames[k])) \in Nat
                        /\ b[k] = b[k - 1] + Len(Encode(s, frames[k]))
  <2>1. \A k \in 1 .. n : frames[k] \in Bodies
    OBVIOUS
  <2>2. \A k \in 1 .. n : Encode(s, frames[k]) \in Seq(Byte)
    BY <2>1, EncodeIs
  <2> QED BY <1>1, <2>2 DEF Marks
<1>6. \A k \in 1 .. n : \A j \in 1 .. Len(Encode(s, frames[k])) :
        b[k - 1] + j <= size => bytes[b[k - 1] + j] = Encode(s, frames[k])[j]
  BY <1>1 DEF Holds
<1>7. CASE b[0] = 1
  <2>1. p = 1
    <3>1. bytes[1] = NUL
      BY <1>1, <1>3, <1>7 DEF Holds
    <3>2. p # 1 => 1 \in 1 .. p - 1
      BY <1>3
    <3> QED BY <1>9, <3>1, <3>2
  <2>2. \A k \in 0 .. n : b[k] \in Nat /\ b[k] >= 1
    BY <1>2, <1>7
  <2> DEFINE c == [k \in 0 .. n |-> b[k] - 1]
  <2>3. c \in [0 .. n -> Nat] /\ \A k \in 0 .. n : c[k] = b[k] - 1
    BY <2>2
  <2> HIDE DEF c
  <2>4. Marks(s, frames, c)
    <3>1. c[0] = 0
      BY <1>7, <2>3
    <3>2. ASSUME NEW k \in 1 .. n PROVE c[k] = c[k - 1] + Len(Encode(s, frames[k]))
      <4>1. /\ c[k] = b[k] - 1 /\ c[k - 1] = b[k - 1] - 1
            /\ b[k] \in Nat /\ b[k - 1] \in Nat
        BY <1>4, <2>2, <2>3
      <4> QED BY <1>5, <4>1
    <3>3. \A i, k \in 0 .. n : i <= k => c[i] <= c[k]
      BY <1>2, <2>2, <2>3
    <3> QED BY <2>3, <3>1, <3>2, <3>3 DEF Marks
  <2>5. Holds(s, rest, frames, c)
    <3>1. Len(rest) <= c[n]
      BY <1>1, <1>3, <2>1, <2>2, <2>3 DEF Holds
    <3>2. \A i \in 1 .. Len(rest) : i <= c[0] => rest[i] = NUL
      BY <1>3, <1>7, <2>3
    <3>3. ASSUME NEW k \in 1 .. n, NEW j \in 1 .. Len(Encode(s, frames[k])), c[k - 1] + j <= Len(rest)
          PROVE  rest[c[k - 1] + j] = Encode(s, frames[k])[j]
      <4>1. c[k - 1] = b[k - 1] - 1 /\ b[k - 1] \in Nat /\ b[k - 1] >= 1
        BY <1>4, <2>2, <2>3
      <4>2. Len(Encode(s, frames[k])) \in Nat
        BY <1>5
      <4>3. c[k - 1] + j \in 1 .. size - p /\ p + (c[k - 1] + j) = b[k - 1] + j
        BY <1>3, <2>1, <3>3, <4>1, <4>2
      <4>4. rest[c[k - 1] + j] = bytes[b[k - 1] + j]
        BY <1>3, <4>3
      <4>5. b[k - 1] + j <= size
        BY <1>3, <2>1, <4>1, <4>2, <4>3
      <4> QED BY <1>6, <4>4, <4>5
    <3> QED BY <3>1, <3>2, <3>3 DEF Holds
  <2>6. ASSUME whole PROVE Len(rest) = c[n]
    <3>1. size = b[n] /\ n \in 0 .. n
      BY <1>1, <2>6
    <3> QED BY <1>3, <2>1, <2>3, <3>1
  <2> QED BY <2>1, <2>4, <2>5, <2>6 DEF Fits
<1>8. CASE b[0] = 0
  <2>1. n >= 1
    <3>1. n = 0 => size <= 0
      BY <1>1, <1>8 DEF Holds
    <3> QED BY <1>3, <3>1
  <2> PICK first \in Bodies : first = frames[1]
    BY <2>1
  <2> DEFINE code == Encode(s, first)
  <2> PICK len \in Nat \ {0} : len = Len(first)
    BY BodyBytes
  <2>2. /\ Len(code) \in {len + 1, len + 2}
        /\ \A j \in 1 .. len : code[j] = first[j] /\ first[j] # NUL
        /\ \A j \in 1 .. Len(code) : j > len => code[j] = NUL
    BY EncodeIs
  <2>3. b[1] = Len(code) /\ \A j \in 1 .. Len(code) : j <= size => bytes[j] = code[j]
    <3>1. 1 \in 1 .. n /\ 1 - 1 = 0
      BY <2>1
    <3>2. b[1] = b[0] + Len(code)
      BY <1>5, <3>1
    <3>3. \A j \in 1 .. Len(code) : b[0] + j <= size => bytes[b[0] + j] = code[j]
      BY <1>6, <3>1
    <3>4. Len(code) \in Nat
      BY <2>2
    <3>5. \A j \in 1 .. Len(code) : b[0] + j = j
      BY <1>8, <3>4
    <3> QED BY <1>8, <3>2, <3>3, <3>4, <3>5
  <2> HIDE DEF code
  <2>4. p = len + 1
    <3>1. p > len
      <4> SUFFICES ASSUME p <= len PROVE FALSE
        BY <1>3
      <4>1. p \in 1 .. len /\ p \in 1 .. Len(code) /\ p <= size
        BY <1>3, <2>2
      <4> QED BY <1>9, <2>2, <2>3, <4>1
    <3>2. ~(p > len + 1)
      <4> SUFFICES ASSUME p > len + 1 PROVE FALSE
        OBVIOUS
      <4>1. len + 1 \in 1 .. Len(code) /\ len + 1 <= size /\ len + 1 \in 1 .. p - 1
        BY <1>3, <2>2
      <4>2. bytes[len + 1] = NUL
        BY <2>2, <2>3, <4>1
      <4> QED BY <1>9, <4>1, <4>2
    <3> QED BY <1>3, <3>1, <3>2
  <2>5. ASSUME NEW j \in 1 .. len PROVE bytes[j] = first[j]
    <3>1. j \in 1 .. Len(code) /\ j <= size
      BY <1>3, <2>2, <2>4
    <3> QED BY <2>2, <2>3, <3>1
  <2>m. PICK m \in Nat : n = m + 1
    <3>1. n - 1 \in Nat /\ n = (n - 1) + 1
      BY <2>1
    <3> QED BY <3>1
  <2>14. frames # <<>>
    BY <2>1
  <2> PICK tail \in Seq(Bodies) : tail = Tail(frames)
    BY <2>14, TailIs
  <2>6. Len(tail) = m /\ \A k \in 1 .. m : tail[k] = frames[k + 1]
    <3>1. n = Len(tail) + 1 /\ Len(tail) \in Nat /\ \A k \in 1 .. Len(tail) : tail[k] = frames[k + 1]
      BY <2>14, TailIs
    <3>2. Len(tail) = m
      BY <2>m, <3>1
    <3> QED BY <3>1, <3>2
  <2>7. \A k \in 0 .. m : k + 1 \in 0 .. n /\ b[k + 1] \in Nat /\ b[k + 1] >= p
    <3>1. \A k \in 0 .. m : k + 1 \in 0 .. n /\ 1 \in 0 .. n /\ 1 <= k + 1
      BY <2>m
    <3>2. b[1] >= p
      BY <2>2, <2>3, <2>4
    <3>3. \A k \in 0 .. m : b[k + 1] \in Nat /\ b[1] <= b[k + 1] /\ b[1] \in Nat
      BY <1>2, <3>1
    <3> QED BY <1>3, <3>1, <3>2, <3>3
  <2> DEFINE c == [k \in 0 .. m |-> b[k + 1] - p]
  <2>8. c \in [0 .. m -> Nat] /\ \A k \in 0 .. m : c[k] = b[k + 1] - p
    <3>1. \A k \in 0 .. m : b[k + 1] - p \in Nat
      BY <1>3, <2>7
    <3> QED BY <3>1
  <2> HIDE DEF c
  <2>9. \A k \in 1 .. m : /\ k + 1 \in 1 .. n /\ (k + 1) - 1 = k /\ k \in 0 .. m /\ k - 1 \in 0 .. m
                          /\ (k - 1) + 1 = k
    BY <2>m
  <2>10. Marks(s, tail, c)
    <3>1. c[0] \in {0, 1}
      BY <2>2, <2>3, <2>4, <2>8
    <3>2. ASSUME NEW k \in 1 .. m PROVE c[k] = c[k - 1] + Len(Encode(s, tail[k]))
      <4>1. b[k + 1] = b[k] + Len(Encode(s, frames[k + 1])) /\ Len(Encode(s, frames[k + 1])) \in Nat
        BY <1>5, <2>9
      <4>2. c[k] = b[k + 1] - p /\ c[k - 1] = b[k] - p /\ tail[k] = frames[k + 1]
        BY <2>6, <2>8, <2>9
      <4>3. b[k] \in Nat
        BY <2>7, <2>9
      <4>4. b[k + 1] \in Nat /\ p \in Nat
        BY <1>3, <2>7, <2>9
      <4>5. b[k + 1] - p = (b[k] - p) + Len(Encode(s, frames[k + 1]))
        BY <4>1, <4>3, <4>4, Minus
      <4> QED BY <4>2, <4>5
    <3>3. ASSUME NEW i \in 0 .. m, NEW k \in 0 .. m, i <= k PROVE c[i] <= c[k]
      <4>1. b[i + 1] <= b[k + 1] /\ b[i + 1] \in Nat /\ b[k + 1] \in Nat
        BY <1>2, <2>7, <3>3
      <4>2. p \in Nat
        BY <1>3
      <4>3. b[i + 1] - p <= b[k + 1] - p
        BY <4>1, <4>2, Minus
      <4> QED BY <2>8, <4>3
    <3> QED BY <2>6, <2>8, <3>1, <3>2, <3>3 DEF Marks
  <2>11. Holds(s, rest, tail, c)
    <3>1. Len(rest) <= c[m]
      <4>1. size <= b[n]
        BY <1>1 DEF Holds
      <4>2. m \in 0 .. m
        OBVIOUS
      <4>3. c[m] = b[n] - p /\ b[n] \in Nat
        BY <2>m, <2>7, <2>8, <4>2
      <4>4. p \in Nat /\ size - p <= b[n] - p
        BY <1>3, <4>1, <4>3, Minus
      <4> QED BY <1>3, <4>3, <4>4
    <3>2. ASSUME NEW i \in 1 .. Len(rest), i <= c[0] PROVE rest[i] = NUL
      <4>1. c[0] = Len(code) - p /\ Len(rest) = size - p /\ p = len + 1
        BY <1>3, <2>3, <2>4, <2>8
      <4> PICK z \in Nat : z = Len(code)
        BY <2>2
      <4>4. i \in Nat /\ i >= 1 /\ i <= size - p /\ i <= z - p /\ p \in Nat /\ p = len + 1
        <5>1. p \in Nat
          BY <1>3
        <5>2. i \in 1 .. size - p
          BY <4>1
        <5>3. i \in Nat /\ i >= 1 /\ i <= size - p
          BY <5>1, <5>2
        <5>4. i <= z - p
          BY <3>2, <4>1
        <5> QED BY <4>1, <5>1, <5>3, <5>4
      <4>5. p + i \in 1 .. z /\ p + i \in 1 .. size
        BY <4>4, Ahead
      <4>2. p + i \in 1 .. Len(code) /\ p + i > len /\ p + i <= size /\ i \in 1 .. size - p
        BY <4>4, <4>5
      <4>3. rest[i] = bytes[p + i]
        BY <1>3, <4>2
      <4> QED BY <2>2, <2>3, <4>2, <4>3
    <3>3. ASSUME NEW k \in 1 .. m, NEW j \in 1 .. Len(Encode(s, tail[k])), c[k - 1] + j <= Len(rest)
          PROVE  rest[c[k - 1] + j] = Encode(s, tail[k])[j]
      <4> PICK q \in 0 .. m : q = k - 1 /\ q + 1 = k
        BY <2>9
      <4> PICK z \in Nat : z = b[k]
        BY <2>7
      <4>1. c[k - 1] = z - p /\ z >= p /\ tail[k] = frames[k + 1]
        BY <2>6, <2>7, <2>8
      <4>6. Len(Encode(s, frames[k + 1])) \in Nat
        BY <1>5, <2>9
      <4>2. j \in 1 .. Len(Encode(s, frames[k + 1]))
        BY <4>1
      <4>7. j \in Nat \ {0} /\ Len(rest) = size - p /\ (z - p) + j <= size - p
        BY <1>3, <3>3, <4>1, <4>2, <4>6
      <4>3. (z - p) + j \in 1 .. size - p /\ p + ((z - p) + j) = z + j /\ z + j <= size
        <5>1. p \in Nat
          BY <1>3
        <5>2. j \in Nat /\ j >= 1
          BY <4>7
        <5> PICK d \in Nat : d = z - p /\ z = p + d
          <6>1. z - p \in Nat /\ z = p + (z - p)
            BY <4>1, <5>1
          <6> QED BY <6>1
        <5>3. d + j <= size - p
          BY <4>7
        <5>4. d + j \in 1 .. size - p /\ p + (d + j) = z + j /\ z + j <= size
          <6>1. d + j \in 1 .. size - p
            BY <1>10, <5>2, <5>3
          <6>2. p + (d + j) = z + j
            BY <5>1, <5>2
          <6>3. p + (d + j) <= size
            BY <1>10, <5>2, <5>3
          <6> QED BY <6>1, <6>2, <6>3
        <5> QED BY <5>4
      <4>4. rest[c[k - 1] + j] = bytes[b[k] + j]
        BY <1>3, <4>1, <4>3
      <4>5. bytes[b[k] + j] = Encode(s, frames[k + 1])[j]
        <5>1. k + 1 \in 1 .. n /\ (k + 1) - 1 = k
          BY <2>9
        <5> QED BY <1>6, <4>2, <4>3, <5>1
      <4> QED BY <4>1, <4>4, <4>5
    <3> QED BY <2>6, <3>1, <3>2, <3>3 DEF Holds
  <2>12. whole => Len(rest) = c[m]
    <3> SUFFICES ASSUME whole PROVE Len(rest) = c[m]
      OBVIOUS
    <3>1. m \in 0 .. m /\ size = b[n]
      BY <1>1
    <3>2. c[m] = b[n] - p
      BY <2>m, <2>8, <3>1
    <3> QED BY <1>3, <3>1, <3>2
  <2>13. Fits(s, rest, tail, whole)
    BY <2>6, <2>10, <2>11, <2>12 DEF Fits
  <2> QED BY <2>4, <2>5, <2>13, <2>14
<1> QED BY <1>2, <1>7, <1>8

(* The first n of a sequence.                                               *)
LEMMA TakeIs ==
  ASSUME NEW S, NEW q \in Seq(S), NEW n \in Nat, n <= Len(q)
  PROVE  /\ SubSeq(q, 1, n) \in Seq(S) /\ Len(SubSeq(q, 1, n)) = n
         /\ \A i \in 1 .. n : SubSeq(q, 1, n)[i] = q[i]
  OBVIOUS

(* The others.                                                              *)
LEMMA DropIs ==
  ASSUME NEW S, NEW q \in Seq(S), NEW n \in Nat, n <= Len(q)
  PROVE  /\ SubSeq(q, n + 1, Len(q)) \in Seq(S) /\ Len(SubSeq(q, n + 1, Len(q))) = Len(q) - n
         /\ \A i \in 1 .. Len(q) - n : SubSeq(q, n + 1, Len(q))[i] = q[n + i]
<1>1. \A i \in n + 1 .. Len(q) : q[i] \in S
  OBVIOUS
<1>2. n + 1 \in Int /\ Len(q) \in Int
  OBVIOUS
<1>3. SubSeq(q, n + 1, Len(q)) \in Seq(S)
  BY <1>1, <1>2, SubSeqProperties
<1>4. Len(SubSeq(q, n + 1, Len(q))) = Len(q) - n
  OBVIOUS
<1>5. \A i \in 1 .. Len(q) - n : SubSeq(q, n + 1, Len(q))[i] = q[n + i]
  OBVIOUS
<1> QED BY <1>3, <1>4, <1>5

(* Both parts of a sequence, one after the other, are the sequence.         *)
LEMMA CutInTwo ==
  ASSUME NEW S, NEW q \in Seq(S), NEW n \in Nat, n <= Len(q)
  PROVE  q = SubSeq(q, 1, n) \o SubSeq(q, n + 1, Len(q))
<1>1. SubSeq(q, 1, n) \o SubSeq(q, n + 1, Len(q)) = SubSeq(q, 1, Len(q))
  <2>1. 1 \in 1 .. Len(q) + 1 /\ n \in 1 - 1 .. Len(q) /\ Len(q) \in n .. Len(q)
    OBVIOUS
  <2> QED BY <2>1, ConcatAdjacentSubSeq
<1> QED BY <1>1, SubSeqFull

(* all is one sequence after another.                                       *)
Cat(all, a, b) == all = a \o b

(* Bytes that move on are still the same bytes.                             *)
LEMMA MovedOn ==
  ASSUME NEW a \in Seq(Byte), NEW b \in Seq(Byte), NEW x \in Seq(Byte), NEW y \in Seq(Byte),
         NEW c, Cat(c, x, y), NEW bx, Cat(bx, b, x)
  PROVE  Joined(a, bx, y) = Joined(a, b, c)
<1>1. a \o b \in Seq(Byte) /\ b \o x \in Seq(Byte)
  BY ConcatProperties
<1>2. a \o (b \o x) = (a \o b) \o x
  BY ConcatAssociative
<1>3. ((a \o b) \o x) \o y = (a \o b) \o (x \o y)
  BY <1>1, ConcatAssociative
<1> QED BY <1>2, <1>3 DEF Cat, Joined

(* When all that is on its way has been read, the bytes are still the same. *)
LEMMA AllRead ==
  ASSUME NEW a \in Seq(Byte), NEW b \in Seq(Byte), NEW c, NEW ab, Cat(ab, a, b)
  PROVE  ab \in Seq(Byte) /\ Joined(ab, <<>>, c) = Joined(a, b, c)
<1>1. a \o b \in Seq(Byte)
  BY ConcatProperties
<1>2. (a \o b) \o <<>> = a \o b
  BY <1>1, ConcatEmptySeq
<1> QED BY <1>1, <1>2 DEF Cat, Joined

(* Where the bytes of three pieces are.                                     *)
IsJoined(all, a, b, c) ==
  /\ all \in Seq(Byte) /\ Len(all) = Len(a) + Len(b) + Len(c)
  /\ \A i \in 1 .. Len(a) : all[i] = a[i]
  /\ \A i \in 1 .. Len(b) : all[Len(a) + i] = b[i]
  /\ \A i \in 1 .. Len(c) : all[Len(a) + Len(b) + i] = c[i]

(* Bytes in three pieces are where IsJoined says.                           *)
LEMMA JoinedIs ==
  ASSUME NEW a \in Seq(Byte), NEW b \in Seq(Byte), NEW c \in Seq(Byte)
  PROVE  IsJoined(Joined(a, b, c), a, b, c) /\ Joined(a, b, c) \in Seq(Byte)
  BY Pieces DEF Joined, IsJoined

(* A frame is written where there is no other.                              *)
LEMMA FitsWritten ==
  ASSUME NEW s, NEW a \in Seq(Byte), NEW b \in Seq(Byte), NEW frames \in Seq(Bodies),
         NEW frame \in Bodies, Fits(s, Joined(a, b, <<>>), frames, TRUE)
  PROVE  Fits(s, Joined(a, b, Encode(s, frame)), Append(frames, frame), TRUE)
<1>1. a \o b \in Seq(Byte)
  BY ConcatProperties
<1>2. Joined(a, b, <<>>) = a \o b
  BY <1>1, ConcatEmptySeq DEF Joined
<1>3. Fits(s, a \o b, frames, TRUE)
  BY <1>2
<1>4. Fits(s, (a \o b) \o Encode(s, frame), Append(frames, frame), TRUE)
  BY <1>1, <1>3, MoreFit
<1> QED BY <1>4 DEF Joined

(* What happens to one stream leaves the others as they are.                *)
LEMMA OneStream ==
  ASSUME OnWire, NEW s \in Streams,
         \A t \in Streams : t # s =>
           /\ out'[t] = out[t] /\ net'[t] = net[t] /\ buffer'[t] = buffer[t]
           /\ way'[t] = way[t] /\ open'[t] = open[t],
         FrameEnds(buffer'[s]) = {}, ~open'[s] => out'[s] = <<>>,
         Fits(s, Joined(buffer'[s], net'[s], out'[s]), way'[s], open'[s])
  PROVE  OnWire'
<1> SUFFICES ASSUME NEW t \in Streams
             PROVE  /\ FrameEnds(buffer'[t]) = {}
                    /\ ~open'[t] => out'[t] = <<>>
                    /\ Fits(t, Joined(buffer'[t], net'[t], out'[t]), way'[t], open'[t])
  BY DEF OnWire, InFlight, FrameEnds, Fits, Marks, Holds, Encode
<1>1. CASE t = s
  BY <1>1
<1>2. CASE t # s
  BY <1>2 DEF OnWire, InFlight
<1> QED BY <1>1, <1>2

(* What there is of a stream, piece by piece.                               *)
LEMMA StreamHas ==
  ASSUME FeedInv, NEW s \in Streams
  PROVE  /\ out[s] \in Seq(Byte) /\ net[s] \in Seq(Byte) /\ buffer[s] \in Seq(Byte)
         /\ way[s] \in Seq(Bodies) /\ open[s] \in BOOLEAN
         /\ FrameEnds(buffer[s]) = {}
         /\ ~open[s] => out[s] = <<>>
         /\ Fits(s, Joined(buffer[s], net[s], out[s]), way[s], open[s])
         /\ Joined(buffer[s], net[s], out[s]) \in Seq(Byte)
<1>1. /\ out[s] \in Seq(Byte) /\ net[s] \in Seq(Byte) /\ buffer[s] \in Seq(Byte)
      /\ way[s] \in Seq(Bodies) /\ open[s] \in BOOLEAN
  BY DEF FeedInv, FeedTypes
<1>2. Joined(buffer[s], net[s], out[s]) \in Seq(Byte)
  BY <1>1, JoinedIs
<1> QED BY <1>1, <1>2 DEF FeedInv, OnWire, InFlight

(* A thread that writes a frame has got rid of the frame before.            *)
LEMMA WriteKeeps ==
  ASSUME FeedInv, NEW s \in Streams, NEW frame \in Bodies, Write(s, frame),
         UNCHANGED <<net, buffer, open>>
  PROVE  /\ OnWire'
         /\ out' \in [Streams -> Seq(Byte)] /\ way' \in [Streams -> Seq(Bodies)]
         /\ way' = [way EXCEPT ![s] = Append(@, frame)]
<1>1. /\ open[s] /\ out[s] = <<>> /\ net' = net /\ buffer' = buffer /\ open' = open
      /\ out' = [out EXCEPT ![s] = Encode(s, frame)]
      /\ way' = [way EXCEPT ![s] = Append(@, frame)]
  BY DEF Write
<1>2. Encode(s, frame) \in Seq(Byte) /\ Append(way[s], frame) \in Seq(Bodies)
  BY EncodeIs, StreamHas, AppendProperties
<1>3. out' \in [Streams -> Seq(Byte)] /\ way' \in [Streams -> Seq(Bodies)]
  BY <1>1, <1>2 DEF FeedInv, FeedTypes
<1>4. out'[s] = Encode(s, frame) /\ way'[s] = Append(way[s], frame)
  BY <1>1 DEF FeedInv, FeedTypes
<1>5. Fits(s, Joined(buffer[s], net[s], out'[s]), way'[s], TRUE)
  <2>1. Fits(s, Joined(buffer[s], net[s], <<>>), way[s], TRUE)
    BY <1>1, StreamHas
  <2> QED BY <1>4, <2>1, FitsWritten, StreamHas
<1>6. /\ FrameEnds(buffer'[s]) = {} /\ (~open'[s] => out'[s] = <<>>)
      /\ Fits(s, Joined(buffer'[s], net'[s], out'[s]), way'[s], open'[s])
  <2>1. open'[s] = TRUE
    BY <1>1, StreamHas
  <2> QED BY <1>1, <1>5, <2>1, StreamHas
<1>7. \A t \in Streams : t # s =>
           /\ out'[t] = out[t] /\ net'[t] = net[t] /\ buffer'[t] = buffer[t]
           /\ way'[t] = way[t] /\ open'[t] = open[t]
  BY <1>1 DEF FeedInv, FeedTypes
<1>8. OnWire'
  BY <1>6, <1>7, OneStream DEF FeedInv
<1> QED BY <1>1, <1>3, <1>8

(* A socket that takes some of the bytes moves them on.                     *)
LEMMA WriteSomeKeeps ==
  ASSUME FeedInv, NEW s \in Streams, WriteSome(s)
  PROVE  /\ OnWire'
         /\ out' \in [Streams -> Seq(Byte)] /\ net' \in [Streams -> Seq(Byte)]
<1>1. PICK n \in 1 .. Len(out[s]) :
        /\ net' = [net EXCEPT ![s] = @ \o SubSeq(out[s], 1, n)]
        /\ out' = [out EXCEPT ![s] = SubSeq(@, n + 1, Len(@))]
        /\ buffer' = buffer /\ got' = got /\ open' = open /\ way' = way
  BY DEF WriteSome
<1>2. n \in Nat /\ n <= Len(out[s])
  BY StreamHas
<1>3. PICK x \in Seq(Byte), y \in Seq(Byte) : x = SubSeq(out[s], 1, n) /\ y = SubSeq(out[s], n + 1, Len(out[s]))
  BY <1>2, StreamHas, TakeIs, DropIs
<1>4. PICK a \in Seq(Byte), b \in Seq(Byte), c \in Seq(Byte) : a = buffer[s] /\ b = net[s] /\ c = out[s]
  BY StreamHas
<1>10. PICK bx \in Seq(Byte) : Cat(bx, b, x)
  BY ConcatProperties DEF Cat
<1>11. Cat(c, x, y)
  BY <1>2, <1>3, <1>4, StreamHas, CutInTwo DEF Cat
<1>6. Joined(a, bx, y) = Joined(a, b, c)
  BY <1>10, <1>11, MovedOn
<1>5. out' \in [Streams -> Seq(Byte)] /\ net' \in [Streams -> Seq(Byte)]
      /\ out'[s] = y /\ net'[s] = bx
  BY <1>1, <1>3, <1>4, <1>10 DEF FeedInv, FeedTypes, Cat
<1>7. /\ FrameEnds(buffer'[s]) = {} /\ (~open'[s] => out'[s] = <<>>)
      /\ Fits(s, Joined(buffer'[s], net'[s], out'[s]), way'[s], open'[s])
  <2>1. out[s] # <<>>
    BY <1>2
  <2> QED BY <1>1, <1>4, <1>5, <1>6, <2>1, StreamHas
<1>8. \A t \in Streams : t # s =>
           /\ out'[t] = out[t] /\ net'[t] = net[t] /\ buffer'[t] = buffer[t]
           /\ way'[t] = way[t] /\ open'[t] = open[t]
  BY <1>1 DEF FeedInv, FeedTypes
<1>9. OnWire'
  BY <1>7, <1>8, OneStream DEF FeedInv
<1> QED BY <1>5, <1>9

-----------------------------------------------------------------------------
(* Steps of a connection                                                    *)

(* An index of two pieces is one of the first or of the second.             *)
LEMMA InOneOf ==
  ASSUME NEW n \in Nat, NEW m \in Nat, NEW i \in 1 .. n + m
  PROVE  i \in 1 .. n \/ \E j \in 1 .. m : i = n + j
<1>1. i \in 1 .. n \/ (i - n \in 1 .. m /\ i = n + (i - n))
  OBVIOUS
<1> QED BY <1>1

(* Bytes without a NUL, and more of them.                                   *)
LEMMA NoNulYet ==
  ASSUME NEW a \in Seq(Byte), NEW b \in Seq(Byte), FrameEnds(a) = {}, FrameEnds(b) = {}
  PROVE  FrameEnds(a \o b) = {}
<1>1. (\A i \in 1 .. Len(a) : a[i] # NUL) /\ (\A i \in 1 .. Len(b) : b[i] # NUL)
  BY DEF FrameEnds
<1>2. /\ Len(a \o b) = Len(a) + Len(b)
      /\ \A i \in 1 .. Len(a) : (a \o b)[i] = a[i]
      /\ \A i \in 1 .. Len(b) : (a \o b)[Len(a) + i] = b[i]
  BY TwoPieces
<1>3. Len(a) \in Nat /\ Len(b) \in Nat
  OBVIOUS
<1>4. \A i \in 1 .. Len(a) + Len(b) : i \in 1 .. Len(a) \/ \E j \in 1 .. Len(b) : i = Len(a) + j
  BY <1>3, InOneOf
<1>5. \A i \in 1 .. Len(a \o b) : (a \o b)[i] # NUL
  BY <1>1, <1>2, <1>4
<1> QED BY <1>5 DEF FrameEnds

(* What is left of three pieces when the second is cut and the third lost.  *)
LEMMA FewerBytes ==
  ASSUME NEW a \in Seq(Byte), NEW b \in Seq(Byte), NEW c \in Seq(Byte), NEW d \in Seq(Byte),
         Len(d) <= Len(b), \A i \in 1 .. Len(d) : d[i] = b[i],
         NEW s, NEW frames \in Seq(Bodies), NEW whole, Fits(s, Joined(a, b, c), frames, whole)
  PROVE  Fits(s, Joined(a, d, <<>>), frames, FALSE)
<1>2. PICK none \in Seq(Byte) : none = <<>> /\ Len(none) = 0
  BY EmptySeq
<1> DEFINE bytes == Joined(a, b, c)
           fewer == Joined(a, d, none)
<1>9. IsJoined(bytes, a, b, c) /\ IsJoined(fewer, a, d, none)
  BY JoinedIs
<1>7. Fits(s, bytes, frames, whole)
  OBVIOUS
<1> HIDE DEF bytes, fewer
<1>1. /\ bytes \in Seq(Byte) /\ Len(bytes) = Len(a) + Len(b) + Len(c)
      /\ \A i \in 1 .. Len(a) : bytes[i] = a[i]
      /\ \A i \in 1 .. Len(b) : bytes[Len(a) + i] = b[i]
  BY <1>9 DEF IsJoined
<1>3. /\ fewer \in Seq(Byte) /\ Len(fewer) = Len(a) + Len(d) + 0
      /\ \A i \in 1 .. Len(a) : fewer[i] = a[i]
      /\ \A i \in 1 .. Len(d) : fewer[Len(a) + i] = d[i]
  BY <1>2, <1>9 DEF IsJoined
<1>4. Len(a) \in Nat /\ Len(b) \in Nat /\ Len(c) \in Nat /\ Len(d) \in Nat
  BY LenProperties
<1>5. ASSUME NEW i \in 1 .. Len(fewer) PROVE fewer[i] = bytes[i]
  <2>1. i \in 1 .. Len(a) \/ \E j \in 1 .. Len(d) : i = Len(a) + j
    <3>1. i \in 1 .. Len(a) + Len(d)
      BY <1>3, <1>4
    <3> QED BY <1>4, <3>1, InOneOf
  <2>2. CASE i \in 1 .. Len(a)
    BY <1>1, <1>3, <2>2
  <2>3. CASE \E j \in 1 .. Len(d) : i = Len(a) + j
    <3> PICK j \in 1 .. Len(d) : i = Len(a) + j
      BY <2>3
    <3>1. j \in 1 .. Len(b)
      BY <1>4
    <3> QED BY <1>1, <1>3, <3>1
  <2> QED BY <2>1, <2>2, <2>3
<1>6. Len(fewer) <= Len(bytes)
  <2>1. \A x, y, z, l \in Nat : l <= y => x + l + 0 <= x + y + z
    OBVIOUS
  <2> QED BY <1>1, <1>3, <1>4, <2>1
<1>8. Fits(s, fewer, frames, FALSE)
  BY <1>1, <1>3, <1>5, <1>6, <1>7, FewerFit
<1> QED BY <1>2, <1>8 DEF fewer

(* Bytes that are read without a NUL are kept until one comes.              *)
LEMMA ReadSomeKeeps ==
  ASSUME FeedInv, NEW s \in Streams, ReadSome(s)
  PROVE  /\ OnWire'
         /\ buffer' \in [Streams -> Seq(Byte)] /\ net' \in [Streams -> Seq(Byte)]
<1>1. /\ FrameEnds(net[s]) = {} /\ out' = out /\ got' = got /\ open' = open /\ way' = way
      /\ buffer' = [buffer EXCEPT ![s] = @ \o net[s]] /\ net' = [net EXCEPT ![s] = <<>>]
  BY DEF ReadSome
<1>2. /\ buffer[s] \in Seq(Byte) /\ net[s] \in Seq(Byte) /\ out[s] \in Seq(Byte)
      /\ FrameEnds(buffer[s]) = {}
  BY StreamHas
<1>3. buffer[s] \o net[s] \in Seq(Byte) /\ <<>> \in Seq(Byte)
  BY <1>2, ConcatProperties, EmptySeq
<1>4. /\ buffer' \in [Streams -> Seq(Byte)] /\ net' \in [Streams -> Seq(Byte)]
      /\ buffer'[s] = buffer[s] \o net[s] /\ net'[s] = <<>>
  BY <1>1, <1>3 DEF FeedInv, FeedTypes
<1>5. Joined(buffer[s] \o net[s], <<>>, out[s]) = Joined(buffer[s], net[s], out[s])
  <2> PICK ab \in Seq(Byte) : Cat(ab, buffer[s], net[s]) /\ ab = buffer[s] \o net[s]
    BY <1>3 DEF Cat
  <2>1. Joined(ab, <<>>, out[s]) = Joined(buffer[s], net[s], out[s])
    BY <1>2, AllRead
  <2> QED BY <2>1
<1>6. FrameEnds(buffer[s] \o net[s]) = {}
  BY <1>1, <1>2, NoNulYet
<1>7. /\ FrameEnds(buffer'[s]) = {} /\ (~open'[s] => out'[s] = <<>>)
      /\ Fits(s, Joined(buffer'[s], net'[s], out'[s]), way'[s], open'[s])
  BY <1>1, <1>4, <1>5, <1>6, StreamHas
<1>8. \A t \in Streams : t # s =>
           /\ out'[t] = out[t] /\ net'[t] = net[t] /\ buffer'[t] = buffer[t]
           /\ way'[t] = way[t] /\ open'[t] = open[t]
  BY <1>1 DEF FeedInv, FeedTypes
<1>9. OnWire'
  BY <1>7, <1>8, OneStream DEF FeedInv
<1> QED BY <1>4, <1>9

(* A stream that has broken may end anywhere.                               *)
LEMMA ReadFailsKeeps ==
  ASSUME FeedInv, NEW s \in Streams, ReadFails(s)
  PROVE  OnWire' /\ buffer' \in [Streams -> Seq(Byte)]
<1>1. /\ ~open[s] /\ net[s] = <<>> /\ buffer' = [buffer EXCEPT ![s] = <<>>]
      /\ out' = out /\ net' = net /\ got' = got /\ open' = open /\ way' = way
  BY DEF ReadFails
<1>2. <<>> \in Seq(Byte) /\ Len(<<>>) = 0
  BY EmptySeq
<1>3. buffer' \in [Streams -> Seq(Byte)] /\ buffer'[s] = <<>>
  BY <1>1, <1>2 DEF FeedInv, FeedTypes
<1>5. Fits(s, Joined(<<>>, <<>>, <<>>), way[s], FALSE)
  <2> DEFINE bytes == Joined(buffer[s], net[s], out[s])
             none == Joined(<<>>, <<>>, <<>>)
  <2>1. /\ bytes \in Seq(Byte) /\ Fits(s, bytes, way[s], open[s]) /\ way[s] \in Seq(Bodies)
        /\ Len(bytes) \in Nat
    BY StreamHas, LenProperties
  <2>2. none \in Seq(Byte) /\ Len(none) = 0 + 0 + 0
    BY <1>2, JoinedIs DEF IsJoined
  <2> HIDE DEF bytes, none
  <2>3. Len(none) <= Len(bytes) /\ \A i \in 1 .. Len(none) : none[i] = bytes[i]
    BY <2>1, <2>2
  <2>4. Fits(s, none, way[s], FALSE)
    BY <2>1, <2>2, <2>3, FewerFit
  <2> QED BY <2>4 DEF none
<1>6. /\ FrameEnds(buffer'[s]) = {} /\ (~open'[s] => out'[s] = <<>>)
      /\ Fits(s, Joined(buffer'[s], net'[s], out'[s]), way'[s], open'[s])
  <2>1. open'[s] = FALSE /\ out[s] = <<>>
    BY <1>1, StreamHas
  <2>2. FrameEnds(<<>>) = {}
    BY <1>2 DEF FrameEnds
  <2> QED BY <1>1, <1>3, <1>5, <2>1, <2>2
<1>7. \A t \in Streams : t # s =>
           /\ out'[t] = out[t] /\ net'[t] = net[t] /\ buffer'[t] = buffer[t]
           /\ way'[t] = way[t] /\ open'[t] = open[t]
  BY <1>1 DEF FeedInv, FeedTypes
<1>8. OnWire'
  BY <1>6, <1>7, OneStream DEF FeedInv
<1> QED BY <1>3, <1>8

(* When a connection breaks, a beginning of the bytes is left.              *)
LEMMA BreakKeeps ==
  ASSUME FeedInv, NEW s \in Streams, Break(s)
  PROVE  /\ OnWire'
         /\ out' \in [Streams -> Seq(Byte)] /\ net' \in [Streams -> Seq(Byte)]
         /\ open' \in [Streams -> BOOLEAN]
<1>1. PICK left \in Cuts \cup {Len(net[s])} :
        /\ left <= Len(net[s]) /\ net' = [net EXCEPT ![s] = SubSeq(@, 1, left)]
        /\ open' = [open EXCEPT ![s] = FALSE] /\ out' = [out EXCEPT ![s] = <<>>]
        /\ buffer' = buffer /\ got' = got /\ way' = way
  BY DEF Break
<1>2. /\ buffer[s] \in Seq(Byte) /\ net[s] \in Seq(Byte) /\ out[s] \in Seq(Byte)
      /\ <<>> \in Seq(Byte) /\ Len(<<>>) = 0
  BY StreamHas, EmptySeq
<1>3. left \in Nat
  BY <1>2, FramingAssumption, LenProperties
<1> PICK a \in Seq(Byte) : a = buffer[s]
  BY <1>2
<1> PICK b \in Seq(Byte) : b = net[s]
  BY <1>2
<1> PICK c \in Seq(Byte) : c = out[s]
  BY <1>2
<1>4. /\ SubSeq(b, 1, left) \in Seq(Byte) /\ Len(SubSeq(b, 1, left)) = left
      /\ \A i \in 1 .. left : SubSeq(b, 1, left)[i] = b[i]
  BY <1>1, <1>3, TakeIs
<1> PICK d \in Seq(Byte) : d = SubSeq(b, 1, left)
  BY <1>4
<1>5. /\ out' \in [Streams -> Seq(Byte)] /\ net' \in [Streams -> Seq(Byte)]
      /\ open' \in [Streams -> BOOLEAN]
      /\ out'[s] = <<>> /\ net'[s] = d /\ open'[s] = FALSE
  BY <1>1, <1>2 DEF FeedInv, FeedTypes
<1>8. Fits(s, Joined(a, d, <<>>), way[s], FALSE)
  <2>1. Fits(s, Joined(a, b, c), way[s], open[s]) /\ way[s] \in Seq(Bodies)
    BY StreamHas
  <2>2. Len(d) <= Len(b) /\ \A i \in 1 .. Len(d) : d[i] = b[i]
    BY <1>1, <1>4
  <2> QED BY <2>1, <2>2, FewerBytes
<1>9. /\ FrameEnds(buffer'[s]) = {} /\ (~open'[s] => out'[s] = <<>>)
      /\ Fits(s, Joined(buffer'[s], net'[s], out'[s]), way'[s], open'[s])
  BY <1>1, <1>5, <1>8, StreamHas
<1>10. \A t \in Streams : t # s =>
           /\ out'[t] = out[t] /\ net'[t] = net[t] /\ buffer'[t] = buffer[t]
           /\ way'[t] = way[t] /\ open'[t] = open[t]
  BY <1>1 DEF FeedInv, FeedTypes
<1>11. OnWire'
  BY <1>9, <1>10, OneStream DEF FeedInv
<1> QED BY <1>5, <1>11

(* A frame that is read up to its NUL is the first that was written, or the *)
(* nothing before the second NUL of one.                                    *)
ReadGives(s, frame, rest, frames, whole) ==
  \/ frame = <<>> /\ Fits(s, rest, frames, whole)
  \/ /\ frames # <<>> /\ frame = Head(frames) /\ frame # <<>>
     /\ Fits(s, rest, Tail(frames), whole)

(* The three pieces, when the second has its first NUL at end.              *)
ReadTo(frame, d, a, b, end) ==
  /\ end \in 1 .. Len(b) /\ b[end] = NUL /\ \A i \in 1 .. end - 1 : b[i] # NUL
  /\ frame = a \o SubSeq(b, 1, end - 1)
  /\ d \in Seq(Byte) /\ Len(d) = Len(b) - end /\ \A i \in 1 .. Len(d) : d[i] = b[end + i]

(* A frame that is read is the bytes up to the first NUL of all of them.    *)
LEMMA FrameIsCut ==
  ASSUME NEW a \in Seq(Byte), NEW b \in Seq(Byte), NEW c \in Seq(Byte), FrameEnds(a) = {},
         NEW end, NEW frame, NEW d, ReadTo(frame, d, a, b, end)
  PROVE  /\ end \in Nat /\ Len(a) + end \in Nat
         /\ CutAt(Joined(a, b, c), Len(a) + end, Joined(<<>>, d, c))
         /\ frame \in Seq(Byte) /\ Len(frame) + 1 = Len(a) + end
         /\ \A i \in 1 .. Len(frame) : frame[i] = Joined(a, b, c)[i]
<1>1. PICK none \in Seq(Byte) : none = <<>> /\ Len(none) = 0
  BY EmptySeq
<1> DEFINE bytes == Joined(a, b, c)
           rest == Joined(none, d, c)
<1>2. /\ end \in 1 .. Len(b) /\ b[end] = NUL /\ \A i \in 1 .. end - 1 : b[i] # NUL
      /\ d \in Seq(Byte) /\ Len(d) = Len(b) - end /\ \A i \in 1 .. Len(d) : d[i] = b[end + i]
  BY DEF ReadTo
<1>3. IsJoined(bytes, a, b, c) /\ IsJoined(rest, none, d, c)
  BY <1>1, <1>2, JoinedIs
<1> HIDE DEF bytes, rest
<1>4. PICK la \in Nat, lb \in Nat, lc \in Nat : la = Len(a) /\ lb = Len(b) /\ lc = Len(c)
  BY LenProperties
<1>5. end \in Nat /\ end >= 1 /\ end <= lb
  BY <1>2, <1>4
<1>6. PICK ld \in Nat : lb = end + ld
  <2>1. lb - end \in Nat /\ lb = end + (lb - end)
    BY <1>4, <1>5
  <2> QED BY <2>1
<1>7. Len(d) = ld
  BY <1>2, <1>4, <1>5, <1>6
<1>8. /\ bytes \in Seq(Byte) /\ Len(bytes) = la + lb + lc
      /\ \A i \in 1 .. la : bytes[i] = a[i]
      /\ \A i \in 1 .. lb : bytes[la + i] = b[i]
      /\ \A i \in 1 .. lc : bytes[la + lb + i] = c[i]
  BY <1>3, <1>4 DEF IsJoined
<1>9. /\ rest \in Seq(Byte) /\ Len(rest) = 0 + ld + lc
      /\ \A i \in 1 .. ld : rest[0 + i] = d[i]
      /\ \A i \in 1 .. lc : rest[0 + ld + i] = c[i]
  BY <1>1, <1>3, <1>4, <1>7 DEF IsJoined
<1>10. \A i \in 1 .. la : a[i] # NUL
  BY <1>4 DEF FrameEnds
<1> DEFINE p == la + end
<1>11. p \in 1 .. Len(bytes) /\ bytes[p] = NUL /\ Len(rest) = Len(bytes) - p
  <2>1. end \in 1 .. lb
    BY <1>5
  <2>2. p \in 1 .. la + lb + lc /\ 0 + ld + lc = (la + lb + lc) - p
    BY <1>4, <1>5, <1>6
  <2> QED BY <1>2, <1>8, <1>9, <2>1, <2>2
<1>12. ASSUME NEW i \in 1 .. p - 1 PROVE bytes[i] # NUL
  <2>1. i \in 1 .. la \/ \E j \in 1 .. end - 1 : i = la + j
    <3>1. PICK e \in Nat : e = end - 1
      <4>1. end - 1 \in Nat
        BY <1>5
      <4> QED BY <4>1
    <3>2. i \in 1 .. la + e
      BY <1>4, <1>5, <3>1
    <3>3. i \in 1 .. la \/ \E j \in 1 .. e : i = la + j
      BY <3>2, InOneOf
    <3> QED BY <3>1, <3>3
  <2>2. CASE i \in 1 .. la
    BY <1>8, <1>10, <2>2
  <2>3. CASE \E j \in 1 .. end - 1 : i = la + j
    <3>1. PICK j \in 1 .. end - 1 : i = la + j
      BY <2>3
    <3>2. j \in 1 .. lb
      BY <1>5
    <3> QED BY <1>2, <1>8, <3>1, <3>2
  <2> QED BY <2>1, <2>2, <2>3
<1>13. ASSUME NEW i \in 1 .. Len(rest) PROVE rest[i] = bytes[p + i]
  <2>1. i \in 1 .. ld \/ \E j \in 1 .. lc : i = ld + j
    <3>1. i \in 1 .. ld + lc
      BY <1>4, <1>6, <1>9
    <3> QED BY <1>4, <1>6, <3>1, InOneOf
  <2>2. CASE i \in 1 .. ld
    <3>1. end + i \in 1 .. lb /\ p + i = la + (end + i) /\ 0 + i = i
      BY <1>4, <1>5, <1>6, <2>2
    <3> QED BY <1>2, <1>7, <1>8, <1>9, <2>2, <3>1
  <2>3. CASE \E j \in 1 .. lc : i = ld + j
    <3>1. PICK j \in 1 .. lc : i = ld + j
      BY <2>3
    <3>2. p + i = la + lb + j /\ 0 + ld + j = i
      BY <1>4, <1>5, <1>6, <3>1
    <3> QED BY <1>8, <1>9, <3>1, <3>2
  <2> QED BY <2>1, <2>2, <2>3
<1>14. CutAt(bytes, p, rest)
  BY <1>9, <1>11, <1>12, <1>13 DEF CutAt
<1>15. PICK e \in Nat : end = e + 1
  <2>1. end - 1 \in Nat /\ end = (end - 1) + 1
    BY <1>5
  <2> QED BY <2>1
<1>16. PICK first \in Seq(Byte) : first = SubSeq(b, 1, e)
  <2>1. e <= Len(b)
    BY <1>4, <1>5, <1>15
  <2>2. SubSeq(b, 1, e) \in Seq(Byte)
    BY <2>1, TakeIs
  <2> QED BY <2>2
<1>17. frame = a \o first
  <2>1. end - 1 = e
    BY <1>15
  <2> QED BY <1>16, <2>1 DEF ReadTo
<1>18. Len(first) = e /\ \A i \in 1 .. e : first[i] = b[i]
  <2>1. e <= Len(b)
    BY <1>4, <1>5, <1>15
  <2> QED BY <1>16, <2>1, TakeIs
<1>19. /\ frame \in Seq(Byte) /\ Len(frame) = la + e
       /\ \A i \in 1 .. la : frame[i] = a[i]
       /\ \A i \in 1 .. e : frame[la + i] = first[i]
  <2>1. /\ a \o first \in Seq(Byte) /\ Len(a \o first) = Len(a) + Len(first)
        /\ \A i \in 1 .. Len(a) : (a \o first)[i] = a[i]
        /\ \A i \in 1 .. Len(first) : (a \o first)[Len(a) + i] = first[i]
    BY TwoPieces
  <2>2. Len(a) = la /\ Len(first) = e
    BY <1>4, <1>18
  <2> QED BY <1>17, <2>1, <2>2
<1>20. ASSUME NEW i \in 1 .. Len(frame) PROVE frame[i] = bytes[i]
  <2>1. i \in 1 .. la \/ \E j \in 1 .. e : i = la + j
    <3>1. i \in 1 .. la + e
      BY <1>19
    <3> QED BY <3>1, InOneOf
  <2>2. CASE i \in 1 .. la
    BY <1>8, <1>19, <2>2
  <2>3. CASE \E j \in 1 .. e : i = la + j
    <3>1. PICK j \in 1 .. e : i = la + j
      BY <2>3
    <3>2. j \in 1 .. lb
      BY <1>5, <1>15
    <3> QED BY <1>8, <1>18, <1>19, <3>1, <3>2
  <2> QED BY <2>1, <2>2, <2>3
<1>21. Len(frame) + 1 = p /\ p \in Nat
  BY <1>4, <1>15, <1>19
<1> QED BY <1>1, <1>4, <1>5, <1>14, <1>19, <1>20, <1>21 DEF bytes, rest

(* Reading up to the first NUL gives the first frame, or no byte.           *)
LEMMA FrameRead ==
  ASSUME NEW a \in Seq(Byte), NEW b \in Seq(Byte), NEW c \in Seq(Byte), FrameEnds(a) = {},
         NEW end, NEW frame, NEW d, ReadTo(frame, d, a, b, end),
         NEW s, NEW frames \in Seq(Bodies), NEW whole, Fits(s, Joined(a, b, c), frames, whole)
  PROVE  ReadGives(s, frame, Joined(<<>>, d, c), frames, whole)
<1> DEFINE bytes == Joined(a, b, c)
           rest == Joined(<<>>, d, c)
<1>1. PICK p \in Nat :
        /\ CutAt(bytes, p, rest)
        /\ frame \in Seq(Byte) /\ Len(frame) + 1 = p
        /\ \A i \in 1 .. Len(frame) : frame[i] = bytes[i]
  BY FrameIsCut
<1>2. bytes \in Seq(Byte) /\ Fits(s, bytes, frames, whole)
  BY JoinedIs
<1> HIDE DEF bytes, rest
<1>3. Len(frame) \in Nat
  BY <1>1, LenProperties
<1>4. CASE p = 1 /\ Fits(s, rest, frames, whole)
  <2>1. Len(frame) = 0
    BY <1>1, <1>3, <1>4
  <2>2. frame = <<>>
    BY <1>1, <2>1, EmptySeq
  <2> QED BY <1>4, <2>2 DEF ReadGives, rest
<1>5. CASE /\ frames # <<>> /\ p = Len(frames[1]) + 1
           /\ \A j \in 1 .. Len(frames[1]) : bytes[j] = frames[1][j]
           /\ Fits(s, rest, Tail(frames), whole)
  <2>1. Head(frames) = frames[1] /\ Head(frames) \in Bodies
    BY <1>5, TailIs
  <2>2. Head(frames) \in Seq(Byte) /\ Len(Head(frames)) \in Nat \ {0}
    BY <2>1, BodyBytes
  <2> DEFINE head == Head(frames)
  <2>3. Len(frame) = Len(head) /\ \A i \in 1 .. Len(frame) : frame[i] = head[i]
    <3>1. Len(frame) = Len(head)
      BY <1>1, <1>3, <1>5, <2>1, <2>2
    <3> QED BY <1>1, <1>5, <2>1, <3>1
  <2>4. frame = head
    BY <1>1, <2>2, <2>3, SeqEqual
  <2>5. frame # <<>>
    BY <1>1, <2>2, <2>4
  <2> QED BY <1>5, <2>4, <2>5 DEF ReadGives, rest
<1>6. CutAt(bytes, p, rest)
  BY <1>1
<1>7. \/ p = 1 /\ Fits(s, rest, frames, whole)
      \/ /\ frames # <<>> /\ p = Len(frames[1]) + 1
         /\ \A j \in 1 .. Len(frames[1]) : bytes[j] = frames[1][j]
         /\ Fits(s, rest, Tail(frames), whole)
  BY <1>2, <1>6, FirstFrame
<1> QED BY <1>4, <1>5, <1>7

(* The first NUL of some bytes.                                             *)
LEMMA FirstEnd ==
  ASSUME NEW b \in Seq(Byte), FrameEnds(b) # {}, NEW end, end = Least(FrameEnds(b))
  PROVE  /\ end \in 1 .. Len(b) /\ end \in Nat /\ b[end] = NUL
         /\ \A i \in 1 .. end - 1 : b[i] # NUL
<1>1. FrameEnds(b) \in SUBSET Nat
  BY DEF FrameEnds
<1>2. end \in FrameEnds(b) /\ \A j \in FrameEnds(b) : end <= j
  BY <1>1, LeastIs
<1>3. end \in 1 .. Len(b) /\ b[end] = NUL /\ end \in Nat
  BY <1>2 DEF FrameEnds
<1>4. ASSUME NEW i \in 1 .. end - 1, b[i] = NUL PROVE FALSE
  <2>1. i \in 1 .. Len(b)
    BY <1>3
  <2>2. i \in FrameEnds(b)
    BY <1>4, <2>1 DEF FrameEnds
  <2> QED BY <1>2, <1>3, <2>2
<1> QED BY <1>3, <1>4

(* The sequence from its second item on.                                    *)
LEMMA SecondOn ==
  ASSUME NEW S, NEW q \in Seq(S), q # <<>>
  PROVE  SubSeq(q, 2, Len(q)) = Tail(q)
  OBVIOUS

(* What read hands over, and what it leaves.                                *)
ReadAs(s, end, frame, d) ==
  /\ end = Least(FrameEnds(net[s]))
  /\ frame = buffer[s] \o SubSeq(net[s], 1, end - 1)
  /\ d = SubSeq(net[s], end + 1, Len(net[s]))

(* ReadFrame hands over the bytes up to the first NUL, and keeps the others.*)
LEMMA ReadFrameIs ==
  ASSUME FeedInv, NEW s \in Streams, ReadFrame(s), NEW end, NEW frame, NEW d, ReadAs(s, end, frame, d)
  PROVE  /\ d \in Seq(Byte)
         /\ ReadGives(s, frame, Joined(<<>>, d, out[s]), way[s], open[s])
         /\ got' = [got EXCEPT ![s] = Hand(frame)]
         /\ way' = [way EXCEPT ![s] = IF Hand(frame) = <<>> THEN @ ELSE SubSeq(@, 2, Len(@))]
         /\ net' = [net EXCEPT ![s] = d] /\ buffer' = [buffer EXCEPT ![s] = <<>>]
         /\ out' = out /\ open' = open /\ got[s] = <<>>
<1>1. /\ got[s] = <<>> /\ FrameEnds(net[s]) # {}
      /\ Receive(s, Hand(frame))
      /\ net' = [net EXCEPT ![s] = SubSeq(@, end + 1, Len(@))]
      /\ buffer' = [buffer EXCEPT ![s] = <<>>] /\ out' = out /\ open' = open
  BY DEF ReadFrame, ReadAs, Least
<1>2. /\ buffer[s] \in Seq(Byte) /\ net[s] \in Seq(Byte) /\ out[s] \in Seq(Byte)
      /\ way[s] \in Seq(Bodies) /\ FrameEnds(buffer[s]) = {}
      /\ Fits(s, Joined(buffer[s], net[s], out[s]), way[s], open[s])
  BY StreamHas
<1>3. PICK a \in Seq(Byte) : a = buffer[s]
  BY <1>2
<1>4. PICK b \in Seq(Byte) : b = net[s]
  BY <1>2
<1>5. PICK c \in Seq(Byte) : c = out[s]
  BY <1>2
<1>6. /\ end \in 1 .. Len(b) /\ end \in Nat /\ b[end] = NUL
      /\ \A i \in 1 .. end - 1 : b[i] # NUL
  BY <1>1, <1>4, FirstEnd DEF ReadAs
<1>7. d \in Seq(Byte) /\ Len(d) = Len(b) - end /\ \A i \in 1 .. Len(d) : d[i] = b[end + i]
  <2>1. end <= Len(b)
    BY <1>6
  <2>2. d = SubSeq(b, end + 1, Len(b))
    BY <1>4 DEF ReadAs
  <2> QED BY <1>6, <2>1, <2>2, DropIs
<1>8. ReadTo(frame, d, a, b, end)
  BY <1>3, <1>4, <1>6, <1>7 DEF ReadTo, ReadAs
<1>9. FrameEnds(a) = {} /\ Fits(s, Joined(a, b, c), way[s], open[s])
  BY <1>2, <1>3, <1>4, <1>5
<1>10. ReadGives(s, frame, Joined(<<>>, d, c), way[s], open[s])
  BY <1>2, <1>8, <1>9, FrameRead
<1>11. net' = [net EXCEPT ![s] = d]
  BY <1>1 DEF ReadAs
<1> QED BY <1>1, <1>5, <1>7, <1>10, <1>11 DEF Receive

(* A frame that is read is the first that is on its way, and a second NUL   *)
(* gives none.                                                              *)
LEMMA ReadFrameKeeps ==
  ASSUME FeedInv, NEW s \in Streams, ReadFrame(s)
  PROVE  /\ OnWire'
         /\ buffer' \in [Streams -> Seq(Byte)] /\ net' \in [Streams -> Seq(Byte)]
         /\ way' \in [Streams -> Seq(Bodies)]
         /\ got' \in [Streams -> {<<>>} \cup {<<frame>> : frame \in Bodies}]
         /\ Fifo!Receive(s) \/ UNCHANGED <<way, got, open>>
<1>1. PICK end : end = Least(FrameEnds(net[s]))
  OBVIOUS
<1>2. PICK frame : frame = buffer[s] \o SubSeq(net[s], 1, end - 1)
  OBVIOUS
<1>3. PICK d : d = SubSeq(net[s], end + 1, Len(net[s]))
  OBVIOUS
<1>4. ReadAs(s, end, frame, d)
  BY <1>1, <1>2, <1>3 DEF ReadAs
<1>5. /\ d \in Seq(Byte)
      /\ ReadGives(s, frame, Joined(<<>>, d, out[s]), way[s], open[s])
      /\ got' = [got EXCEPT ![s] = Hand(frame)]
      /\ way' = [way EXCEPT ![s] = IF Hand(frame) = <<>> THEN @ ELSE SubSeq(@, 2, Len(@))]
      /\ net' = [net EXCEPT ![s] = d] /\ buffer' = [buffer EXCEPT ![s] = <<>>]
      /\ out' = out /\ open' = open /\ got[s] = <<>>
  BY <1>4, ReadFrameIs
<1>6. /\ way \in [Streams -> Seq(Bodies)] /\ net \in [Streams -> Seq(Byte)]
      /\ buffer \in [Streams -> Seq(Byte)]
      /\ got \in [Streams -> {<<>>} \cup {<<f>> : f \in Bodies}]
  BY DEF FeedInv, FeedTypes
<1>7. <<>> \in Seq(Byte) /\ FrameEnds(<<>>) = {}
  BY EmptySeq DEF FrameEnds
<1>8. /\ buffer' \in [Streams -> Seq(Byte)] /\ net' \in [Streams -> Seq(Byte)]
      /\ buffer'[s] = <<>> /\ net'[s] = d
      /\ \A t \in Streams : t # s => net'[t] = net[t] /\ buffer'[t] = buffer[t]
  BY <1>5, <1>6, <1>7
<1>9. CASE frame = <<>> /\ Fits(s, Joined(<<>>, d, out[s]), way[s], open[s])
  <2>1. Hand(frame) = <<>>
    BY <1>9 DEF Hand
  <2>2. way' = way /\ got' = got
    BY <1>5, <1>6, <2>1
  <2>3. OnWire'
    <3>1. /\ FrameEnds(buffer'[s]) = {} /\ (~open'[s] => out'[s] = <<>>)
          /\ Fits(s, Joined(buffer'[s], net'[s], out'[s]), way'[s], open'[s])
      BY <1>5, <1>7, <1>8, <1>9, <2>2, StreamHas
    <3>2. \A t \in Streams : t # s =>
             /\ out'[t] = out[t] /\ net'[t] = net[t] /\ buffer'[t] = buffer[t]
             /\ way'[t] = way[t] /\ open'[t] = open[t]
      BY <1>5, <1>8, <2>2
    <3> QED BY <3>1, <3>2, OneStream DEF FeedInv
  <2> QED BY <1>5, <1>6, <1>8, <2>2, <2>3
<1>10. CASE /\ way[s] # <<>> /\ frame = Head(way[s]) /\ frame # <<>>
            /\ Fits(s, Joined(<<>>, d, out[s]), Tail(way[s]), open[s])
  <2>1. Hand(frame) = <<frame>> /\ Hand(frame) # <<>>
    BY <1>10 DEF Hand
  <2>2. way[s] \in Seq(Bodies)
    BY <1>6
  <2>3. /\ SubSeq(way[s], 2, Len(way[s])) = Tail(way[s]) /\ Tail(way[s]) \in Seq(Bodies)
        /\ Head(way[s]) \in Bodies
    BY <1>10, <2>2, SecondOn, TailIs
  <2>4. way' = [way EXCEPT ![s] = Tail(@)] /\ got' = [got EXCEPT ![s] = <<Head(way[s])>>]
    BY <1>5, <1>10, <2>1, <2>3
  <2>5. /\ way' \in [Streams -> Seq(Bodies)] /\ way'[s] = Tail(way[s])
        /\ \A t \in Streams : t # s => way'[t] = way[t]
        /\ got' \in [Streams -> {<<>>} \cup {<<f>> : f \in Bodies}]
    BY <1>6, <2>3, <2>4
  <2>6. OnWire'
    <3>1. /\ FrameEnds(buffer'[s]) = {} /\ (~open'[s] => out'[s] = <<>>)
          /\ Fits(s, Joined(buffer'[s], net'[s], out'[s]), way'[s], open'[s])
      BY <1>5, <1>7, <1>8, <1>10, <2>5, StreamHas
    <3>2. \A t \in Streams : t # s =>
             /\ out'[t] = out[t] /\ net'[t] = net[t] /\ buffer'[t] = buffer[t]
             /\ way'[t] = way[t] /\ open'[t] = open[t]
      BY <1>5, <1>8, <2>5
    <3> QED BY <3>1, <3>2, OneStream DEF FeedInv
  <2>7. Fifo!Receive(s)
    BY <1>5, <1>10, <2>4 DEF Fifo!Receive
  <2> QED BY <1>8, <2>5, <2>6, <2>7
<1> QED BY <1>5, <1>9, <1>10 DEF ReadGives

-----------------------------------------------------------------------------
(* Steps of the feed                                                        *)

(* At the start there are no bytes and no frames.                           *)
LEMMA FeedInvInit == Init => FeedInv
<1> SUFFICES ASSUME Init PROVE FeedInv
  OBVIOUS
<1>1. FramingInit /\ GameInit /\ file \in Files /\ unsent = file
  BY DEF Init
<1>2. <<>> \in Seq(Byte) /\ Len(<<>>) = 0 /\ <<>> \in Seq(Bodies)
  BY EmptySeq
<1>3. FeedTypes
  BY <1>1, <1>2, FeedAssumption DEF FramingInit, FeedTypes
<1>4. ASSUME NEW s \in Streams PROVE Fits(s, Joined(<<>>, <<>>, <<>>), <<>>, TRUE)
  <2>1. PICK none \in Seq(Byte) : none = Joined(<<>>, <<>>, <<>>) /\ Len(none) = 0
    <3>1. /\ Joined(<<>>, <<>>, <<>>) \in Seq(Byte)
          /\ Len(Joined(<<>>, <<>>, <<>>)) = Len(<<>>) + Len(<<>>) + Len(<<>>)
      BY <1>2, JoinedIs DEF IsJoined
    <3> QED BY <1>2, <3>1
  <2>2. PICK noFrames \in Seq(Bodies) : noFrames = <<>> /\ Len(noFrames) = 0
    BY <1>2
  <2>3. PICK b : b = [k \in 0 .. 0 |-> 0]
    OBVIOUS
  <2>4. Marks(s, noFrames, b)
    BY <2>2, <2>3 DEF Marks
  <2>5. Holds(s, none, noFrames, b) /\ Len(none) = b[Len(noFrames)]
    BY <2>1, <2>2, <2>3 DEF Holds
  <2> QED BY <2>1, <2>2, <2>4, <2>5 DEF Fits
<1>5. FrameEnds(<<>>) = {}
  BY <1>2 DEF FrameEnds
<1>6. OnWire
  BY <1>1, <1>4, <1>5 DEF FramingInit, OnWire, InFlight
<1> QED BY <1>3, <1>6 DEF FeedInv

(* What a reader was handed is the body of an event, until it has handled it. *)
LEMMA Handed ==
  ASSUME FeedInv, NEW s \in Streams, got[s] # <<>>
  PROVE  got[s][1] \in Bodies
<1>1. got[s] \in {<<>>} \cup {<<frame>> : frame \in Bodies}
  BY DEF FeedInv, FeedTypes
<1> QED BY <1>1

(* A reader that has handled its frame has none.                            *)
LEMMA HandledTypes ==
  ASSUME FeedInv, NEW s \in Streams, got' = [got EXCEPT ![s] = <<>>]
  PROVE  got' \in [Streams -> {<<>>} \cup {<<frame>> : frame \in Bodies}]
  BY DEF FeedInv, FeedTypes

(* Where no byte moves and no frame, the bytes are those of the frames.     *)
LEMMA SameWire ==
  ASSUME FeedInv, UNCHANGED <<out, net, buffer, way, open>>
  PROVE  OnWire'
<1>1. PICK s \in Streams : s = Follower
  BY FeedAssumption
<1>2. /\ FrameEnds(buffer[s]) = {} /\ (~open[s] => out[s] = <<>>)
      /\ Fits(s, Joined(buffer[s], net[s], out[s]), way[s], open[s])
  BY StreamHas
<1>3. /\ FrameEnds(buffer'[s]) = {} /\ (~open'[s] => out'[s] = <<>>)
      /\ Fits(s, Joined(buffer'[s], net'[s], out'[s]), way'[s], open'[s])
  BY <1>2
<1>4. \A t \in Streams : t # s =>
           /\ out'[t] = out[t] /\ net'[t] = net[t] /\ buffer'[t] = buffer[t]
           /\ way'[t] = way[t] /\ open'[t] = open[t]
  OBVIOUS
<1> QED BY <1>3, <1>4, OneStream DEF FeedInv

FifoStep ==
  \/ \E s \in Streams : Fifo!Send(s) \/ Fifo!Receive(s) \/ Fifo!Handle(s) \/ Fifo!Lose(s)
  \/ \E s, t \in Streams : Fifo!Forward(s, t)
  \/ UNCHANGED <<way, got, open>>

(* A reporter sends a frame.                                                *)
LEMMA ReportKeeps ==
  ASSUME FeedInv, NEW u \in Users, Report(u)
  PROVE  FeedInv' /\ FifoStep
<1>1. /\ unsent[u] # <<>> /\ Write(u, Body[u][Head(unsent[u])])
      /\ unsent' = [unsent EXCEPT ![u] = Tail(@)]
      /\ UNCHANGED <<net, buffer, got, open>>
  BY DEF Report
<1>2. u \in Streams
  BY FeedAssumption
<1>3. unsent[u] \in Seq(Events)
  BY DEF FeedInv, FeedTypes
<1>4. Head(unsent[u]) \in Events /\ Tail(unsent[u]) \in Seq(Events)
  BY <1>1, <1>3, TailIs
<1>5. PICK frame \in Bodies : frame = Body[u][Head(unsent[u])]
  BY <1>4 DEF Bodies
<1>6. Write(u, frame)
  BY <1>1, <1>5
<1>7. /\ OnWire'
      /\ out' \in [Streams -> Seq(Byte)] /\ way' \in [Streams -> Seq(Bodies)]
      /\ way' = [way EXCEPT ![u] = Append(@, frame)]
  BY <1>1, <1>2, <1>6, WriteKeeps
<1>8. FeedTypes'
  BY <1>1, <1>4, <1>7 DEF FeedInv, FeedTypes
<1>9. Fifo!Send(u)
  <2>1. open[u]
    BY <1>6 DEF Write
  <2> QED BY <1>1, <1>7, <2>1 DEF Fifo!Send
<1> QED BY <1>2, <1>7, <1>8, <1>9 DEF FeedInv, FifoStep

(* A reporter gives up what it has yet to send.                             *)
LEMMA ReportFailsKeeps ==
  ASSUME FeedInv, NEW u \in Users, ReportFails(u)
  PROVE  FeedInv' /\ FifoStep
<1>1. /\ unsent' = [unsent EXCEPT ![u] = <<>>]
      /\ UNCHANGED <<out, net, buffer, got, open, way>>
  BY DEF ReportFails, streamVars
<1>2. <<>> \in Seq(Events)
  BY EmptySeq
<1>3. FeedTypes'
  BY <1>1, <1>2 DEF FeedInv, FeedTypes
<1> QED BY <1>1, <1>3, SameWire DEF FeedInv, FifoStep

(* The server passes a frame on to the follower, or drops it.               *)
LEMMA RelayKeeps ==
  ASSUME FeedInv, NEW u \in Users, Relay(u)
  PROVE  FeedInv' /\ FifoStep
<1>1. /\ got[u] # <<>>
      /\ IF open[Follower] THEN Write(Follower, got[u][1]) ELSE UNCHANGED <<out, way>>
      /\ got' = [got EXCEPT ![u] = <<>>]
      /\ UNCHANGED <<net, buffer, open, unsent>>
  BY DEF Relay, feedVars
<1>2. u \in Streams /\ Follower \in Streams /\ u # Follower
  BY FeedAssumption
<1>3. PICK frame \in Bodies : frame = got[u][1]
  BY <1>1, <1>2, Handed
<1>4. got' \in [Streams -> {<<>>} \cup {<<f>> : f \in Bodies}]
  BY <1>1, <1>2, HandledTypes
<1>5. CASE open[Follower]
  <2>1. Write(Follower, frame)
    BY <1>1, <1>3, <1>5
  <2>2. /\ OnWire'
        /\ out' \in [Streams -> Seq(Byte)] /\ way' \in [Streams -> Seq(Bodies)]
        /\ way' = [way EXCEPT ![Follower] = Append(@, frame)]
    BY <1>1, <1>2, <2>1, WriteKeeps
  <2>3. FeedTypes'
    BY <1>1, <1>4, <2>2 DEF FeedInv, FeedTypes
  <2>4. Fifo!Forward(u, Follower)
    BY <1>1, <1>2, <1>3, <1>5, <2>2 DEF Fifo!Forward
  <2> QED BY <1>2, <2>2, <2>3, <2>4 DEF FeedInv, FifoStep
<1>6. CASE ~open[Follower]
  <2>1. UNCHANGED <<out, way>>
    BY <1>1, <1>6
  <2>2. OnWire'
    BY <1>1, <2>1, SameWire
  <2>3. FeedTypes'
    BY <1>1, <1>4, <2>1 DEF FeedInv, FeedTypes
  <2>4. Fifo!Handle(u)
    BY <1>1, <2>1 DEF Fifo!Handle
  <2> QED BY <1>2, <2>2, <2>3, <2>4 DEF FeedInv, FifoStep
<1> QED BY <1>5, <1>6

(* The follower takes a frame.                                              *)
LEMMA DeliverKeeps ==
  ASSUME FeedInv, Deliver
  PROVE  FeedInv' /\ FifoStep
<1>1. /\ got[Follower] # <<>> /\ got' = [got EXCEPT ![Follower] = <<>>]
      /\ UNCHANGED <<out, net, buffer, open, way, unsent>>
  BY DEF Deliver, feedVars
<1>2. Follower \in Streams
  BY FeedAssumption
<1>3. got' \in [Streams -> {<<>>} \cup {<<f>> : f \in Bodies}]
  BY <1>1, <1>2, HandledTypes
<1>4. FeedTypes'
  BY <1>1, <1>3 DEF FeedInv, FeedTypes
<1>5. Fifo!Handle(Follower)
  BY <1>1 DEF Fifo!Handle
<1> QED BY <1>1, <1>2, <1>4, <1>5, SameWire DEF FeedInv, FifoStep

(* One of the three reads of a connection.                                  *)
LEMMA ReadKeeps ==
  ASSUME FeedInv, NEW s \in Streams, Reading(s), UNCHANGED unsent
  PROVE  FeedInv' /\ FifoStep
<1>1. CASE ReadSome(s)
  <2>1. OnWire' /\ buffer' \in [Streams -> Seq(Byte)] /\ net' \in [Streams -> Seq(Byte)]
    BY <1>1, ReadSomeKeeps
  <2>2. UNCHANGED <<out, got, open, way>>
    BY <1>1 DEF ReadSome
  <2> QED BY <2>1, <2>2 DEF FeedInv, FeedTypes, FifoStep
<1>2. CASE ReadFrame(s)
  <2>1. /\ OnWire' /\ buffer' \in [Streams -> Seq(Byte)] /\ net' \in [Streams -> Seq(Byte)]
        /\ way' \in [Streams -> Seq(Bodies)]
        /\ got' \in [Streams -> {<<>>} \cup {<<frame>> : frame \in Bodies}]
        /\ Fifo!Receive(s) \/ UNCHANGED <<way, got, open>>
    BY <1>2, ReadFrameKeeps
  <2>2. UNCHANGED <<out, open>>
    BY <1>2 DEF ReadFrame
  <2> QED BY <2>1, <2>2 DEF FeedInv, FeedTypes, FifoStep
<1>3. CASE ReadFails(s)
  <2>1. OnWire' /\ buffer' \in [Streams -> Seq(Byte)]
    BY <1>3, ReadFailsKeeps
  <2>2. UNCHANGED <<out, net, got, open, way>>
    BY <1>3 DEF ReadFails
  <2> QED BY <2>1, <2>2 DEF FeedInv, FeedTypes, FifoStep
<1> QED BY <1>1, <1>2, <1>3 DEF Reading

(* Bytes are carried.                                                       *)
LEMMA CarryKeeps ==
  ASSUME FeedInv, NEW s \in Streams, WriteSome(s), UNCHANGED unsent
  PROVE  FeedInv' /\ FifoStep
<1>1. OnWire' /\ out' \in [Streams -> Seq(Byte)] /\ net' \in [Streams -> Seq(Byte)]
  BY WriteSomeKeeps
<1>2. UNCHANGED <<buffer, got, open, way>>
  BY DEF WriteSome
<1> QED BY <1>1, <1>2 DEF FeedInv, FeedTypes, FifoStep

(* A connection breaks.                                                     *)
LEMMA FailKeeps ==
  ASSUME FeedInv, NEW s \in Streams, Break(s), UNCHANGED unsent
  PROVE  FeedInv' /\ FifoStep
<1>1. /\ OnWire' /\ out' \in [Streams -> Seq(Byte)] /\ net' \in [Streams -> Seq(Byte)]
      /\ open' \in [Streams -> BOOLEAN]
  BY BreakKeeps
<1>2. open[s] /\ open' = [open EXCEPT ![s] = FALSE] /\ UNCHANGED <<buffer, got, way>>
  BY DEF Break
<1>3. Fifo!Lose(s)
  BY <1>2 DEF Fifo!Lose
<1> QED BY <1>1, <1>2, <1>3 DEF FeedInv, FeedTypes, FifoStep

(* Every step keeps the invariant, and is one that frames may take.         *)
LEMMA FeedInvKept ==
  ASSUME FeedInv, [Next]_vars
  PROVE  FeedInv' /\ FifoStep
<1>1. ASSUME UNCHANGED <<out, net, buffer, got, open, way, unsent>>
      PROVE  FeedInv' /\ FifoStep
  <2>1. FeedTypes'
    BY <1>1 DEF FeedInv, FeedTypes
  <2> QED BY <1>1, <2>1, SameWire DEF FeedInv, FifoStep
<1>2. CASE \E u \in Users : Report(u) \/ ReportFails(u) \/ Relay(u)
  BY <1>2, ReportKeeps, ReportFailsKeeps, RelayKeeps
<1>3. CASE Deliver
  BY <1>3, DeliverKeeps
<1>4. CASE \E s \in Streams : Read(s) \/ Carry(s) \/ Fail(s)
  <2>1. PICK s \in Streams : Reading(s) \/ WriteSome(s) \/ Break(s)
    BY <1>4 DEF Read, Carry, Fail
  <2>2. UNCHANGED unsent
    BY <1>4 DEF Read, Carry, Fail, feedVars
  <2> QED BY <2>1, <2>2, ReadKeeps, CarryKeeps, FailKeeps
<1>5. CASE GameStep \/ UNCHANGED vars
  BY <1>1, <1>5 DEF GameStep, vars, streamVars, feedVars
<1> QED BY <1>2, <1>3, <1>4, <1>5 DEF Next

(* In whatever pieces a socket takes the bytes of sendFrameAscii and of     *)
(* ConnectionHandlerImp.send, getFrameAscii and the decoder find the frames *)
(* in them: whole, in order, once, and nothing else.                        *)
THEOREM FramesArriveWhole == Spec => FramesCarried
<1>1. Init => FeedInv
  BY FeedInvInit
<1>2. FeedInv /\ [Next]_vars => FeedInv' /\ FifoStep
  BY FeedInvKept
<1>3. Init => Fifo!Init
  BY DEF Init, FramingInit, Fifo!Init
<1>4. FifoStep => [Fifo!Next]_<<way, got, open>>
  BY DEF FifoStep, Fifo!Next
<1> QED BY <1>1, <1>2, <1>3, <1>4, PTL DEF Spec, FramesCarried, Fifo!Spec

(* A body that is handed over is read as the event it was made of.          *)
LEMMA MessageRead ==
  ASSUME FeedInv, Deliver
  PROVE  \E u \in Users, e \in Events : HandleMessage(u, e, Body[u][e])
<1>1. got[Follower] # <<>> /\ Follower \in Streams
  BY FeedAssumption DEF Deliver
<1>2. PICK body \in Bodies : body = got[Follower][1]
  BY <1>1, Handed
<1>3. HandleMessage(body[1].value, EventOf(body), body)
  BY <1>2 DEF Deliver
<1>4. \E u \in Users, e \in Events : body = Body[u][e]
  BY DEF Bodies
<1>5. PICK e : e = EventOf(body)
  OBVIOUS
<1>6. e \in Events /\ \E u \in Users : body = Body[u][e]
  BY <1>4, <1>5 DEF EventOf
<1>7. PICK u \in Users : body = Body[u][e]
  BY <1>6
<1>8. body[1] = UserLine(u)
  BY <1>6, <1>7, BodyLines DEF BodyHas
<1>9. body[1].value = u
  BY <1>8 DEF UserLine, Line
<1> QED BY <1>3, <1>5, <1>6, <1>7, <1>9

(* All that parseFrame is ever given is the body of an event that a reporter*)
(* has sent, under that reporter's name: what Game says holds of the feed.  *)
THEOREM MessagesAreBodies == Spec => GamesRead
<1>1. Init => FeedInv
  BY FeedInvInit
<1>2. FeedInv /\ [Next]_vars => FeedInv'
  BY FeedInvKept
<1>3. Init => GameInit
  BY DEF Init
<1>4. FeedInv /\ [Next]_vars => [GameNext]_gameVars
  <2> SUFFICES ASSUME FeedInv, [Next]_vars PROVE [GameNext]_gameVars
    OBVIOUS
  <2>1. CASE Deliver
    BY <2>1, MessageRead DEF GameNext
  <2>2. CASE GameStep
    BY <2>2 DEF GameStep, Reader, GameNext
  <2>3. CASE \E u \in Users : Report(u) \/ ReportFails(u) \/ Relay(u)
    BY <2>3 DEF Report, ReportFails, Relay
  <2>4. CASE \E s \in Streams : Read(s) \/ Carry(s) \/ Fail(s)
    BY <2>4 DEF Read, Carry, Fail
  <2>5. CASE UNCHANGED vars
    BY <2>5 DEF vars
  <2> QED BY <2>1, <2>2, <2>3, <2>4, <2>5 DEF Next
<1> QED BY <1>1, <1>2, <1>3, <1>4, PTL DEF Spec, GamesRead, GameSpec

(* A follower's Games list the events of the reports that arrived, whatever *)
(* pieces they arrived in.                                                  *)
THEOREM FeedListsEvents == Spec => []EventsListed
BY MessagesAreBodies, AllEventsListed, PTL DEF GamesRead

(* They have the statistics that each reporter gave last.                   *)
THEOREM FeedStatsAreLatest == Spec => []StatsAreLatest
BY MessagesAreBodies, AllStatsAreLatest, PTL DEF GamesRead

(* And no summary of them misses what was there when it was asked for.      *)
THEOREM FeedSummariesAreFresh == Spec => []SummaryFresh
BY MessagesAreBodies, SummariesAreFresh, PTL DEF GamesRead

-----------------------------------------------------------------------------
(* A body is of one event                                                   *)

(* The next section of a body begins after the statistics of this one.      *)
LEMMA StartAfter ==
  ASSUME NEW e \in Events, NEW s \in Stats
  PROVE  /\ s + 1 \in Sections /\ s \in Sections
         /\ Start(e, s) \in Nat /\ Size(e, s) \in Nat
         /\ Start(e, s + 1) = Start(e, s) + Size(e, s) + 1
<1>1. s = 1 \/ s = 2 \/ s = 3
  BY DEF Stats
<1>2. 1 + 1 = 2 /\ 2 + 1 = 3 /\ 3 + 1 = 4
  OBVIOUS
<1>3. s + 1 \in Sections /\ s \in Sections
  BY <1>1 DEF Sections
<1> QED BY <1>1, <1>2, <1>3, Starts, Sizes

(* Of two events with the same body, neither has the shorter section.       *)
LEMMA NotShorter ==
  ASSUME NEW body, NEW u, NEW v, NEW d \in Events, NEW e \in Events,
         BodyHas(body, u, d), BodyHas(body, v, e),
         NEW s \in Stats, Start(d, s) = Start(e, s)
  PROVE  ~(Start(d, s + 1) < Start(e, s + 1))
<1> SUFFICES ASSUME Start(d, s + 1) < Start(e, s + 1) PROVE FALSE
  OBVIOUS
<1>1. /\ s + 1 \in Sections /\ Start(d, s) \in Nat /\ Size(d, s) \in Nat /\ Size(e, s) \in Nat
      /\ Start(d, s + 1) = Start(d, s) + Size(d, s) + 1
      /\ Start(e, s + 1) = Start(e, s) + Size(e, s) + 1
  BY StartAfter
<1>2. PICK i \in Nat : i = Size(d, s) + 1
  BY <1>1
<1>3. i \in 1 .. Size(e, s) /\ Start(d, s + 1) = Start(e, s) + i
  BY <1>1, <1>2
<1>4. body[Start(d, s + 1)] = HeadLine(s + 1)
  BY <1>1 DEF BodyHas
<1>5. body[Start(e, s) + i] = StatLine(Key(e, s, i), e.updates[s][Key(e, s, i)])
  BY <1>3 DEF BodyHas
<1>6. HeadLine(s + 1).field = "head"
  BY DEF HeadLine, Line
<1>7. StatLine(Key(e, s, i), e.updates[s][Key(e, s, i)]).field = "stat"
  BY DEF StatLine, Line
<1> QED BY <1>3, <1>4, <1>5, <1>6, <1>7

SameShape(d, e) ==
  /\ \A s \in Sections : Start(d, s) = Start(e, s)
  /\ \A s \in Stats : Size(d, s) = Size(e, s)
  /\ Len(d.description) = Len(e.description)

(* Two events with the same body have their sections at the same lines.     *)
LEMMA SameStarts ==
  ASSUME NEW body, NEW u, NEW v, NEW d \in Events, NEW e \in Events,
         BodyHas(body, u, d), BodyHas(body, v, e)
  PROVE  SameShape(d, e)
<1>1. ASSUME NEW s \in Stats, Start(d, s) = Start(e, s)
      PROVE  Start(d, s + 1) = Start(e, s + 1) /\ Size(d, s) = Size(e, s)
  <2>1. ~(Start(d, s + 1) < Start(e, s + 1)) /\ ~(Start(e, s + 1) < Start(d, s + 1))
    BY <1>1, NotShorter
  <2>2. /\ Start(d, s) \in Nat /\ Size(d, s) \in Nat /\ Size(e, s) \in Nat
        /\ Start(d, s + 1) = Start(d, s) + Size(d, s) + 1
        /\ Start(e, s + 1) = Start(e, s) + Size(e, s) + 1
    BY StartAfter
  <2> QED BY <1>1, <2>1, <2>2
<1>2. Start(d, 1) = Start(e, 1)
  BY Starts
<1>3. 1 \in Stats /\ 2 \in Stats /\ 3 \in Stats /\ 1 + 1 = 2 /\ 2 + 1 = 3 /\ 3 + 1 = 4
  BY DEF Stats
<1>4. Start(d, 2) = Start(e, 2) /\ Size(d, 1) = Size(e, 1)
  BY <1>1, <1>2, <1>3
<1>5. Start(d, 3) = Start(e, 3) /\ Size(d, 2) = Size(e, 2)
  BY <1>1, <1>3, <1>4
<1>6. Start(d, 4) = Start(e, 4) /\ Size(d, 3) = Size(e, 3)
  BY <1>1, <1>3, <1>5
<1>7. Len(d.description) = Len(e.description)
  <2>1. Len(body) = Last(d) /\ Len(body) = Last(e)
    BY DEF BodyHas
  <2>2. /\ Last(d) = Start(d, 4) + Len(d.description) /\ Last(e) = Start(e, 4) + Len(e.description)
        /\ Len(d.description) \in Nat /\ Len(e.description) \in Nat
    BY Starts
  <2>3. Start(d, 4) \in Nat
    <3>1. \A s \in Sections : Start(d, s) \in Nat
      BY Sizes
    <3> QED BY <3>1 DEF Sections
  <2>4. \A p, m, n \in Nat : p + m = p + n => m = n
    OBVIOUS
  <2>5. Start(d, 4) + Len(d.description) = Start(d, 4) + Len(e.description)
    BY <1>6, <2>1, <2>2
  <2> QED BY <2>2, <2>3, <2>4, <2>5
<1> QED BY <1>2, <1>4, <1>5, <1>6, <1>7 DEF Sections, Stats, SameShape

(* Maps with the same entries are the same.                                 *)
LEMMA SameMaps ==
  ASSUME NEW a \in Maps(Texts, Texts), NEW b \in Maps(Texts, Texts),
         DOMAIN a = DOMAIN b, \A k \in DOMAIN a : a[k] = b[k]
  PROVE  a = b
<1>1. a \in [DOMAIN a -> Texts] /\ b \in [DOMAIN b -> Texts]
  BY DEF Maps
<1> QED BY <1>1

(* A line tells what it was made of.                                        *)
LEMMA LineTells ==
  ASSUME NEW k, NEW v, NEW j, NEW w
  PROVE  /\ UserLine(k) = UserLine(j) => k = j
         /\ NameLine(k) = NameLine(j) => k = j
         /\ TimeLine(k) = TimeLine(j) => k = j
         /\ TextLine(k) = TextLine(j) => k = j
         /\ StatLine(k, v) = StatLine(j, w) => k = j /\ v = w
<1>1. /\ UserLine(k) = UserLine(j) => k = j
      /\ NameLine(k) = NameLine(j) => k = j
      /\ TimeLine(k) = TimeLine(j) => k = j
  BY DEF UserLine, NameLine, TimeLine, Line
<1>2. TextLine(k).key = k /\ TextLine(j).key = j
  BY DEF TextLine, Line
<1>3. /\ StatLine(k, v).key = k /\ StatLine(k, v).value = v
      /\ StatLine(j, w).key = j /\ StatLine(j, w).value = w
  BY DEF StatLine, Line
<1> QED BY <1>1, <1>2, <1>3

(* Two events whose lines are those of one body are the same event.         *)
LEMMA OneEvent ==
  ASSUME NEW body, NEW u \in Users, NEW v \in Users, NEW d \in Events, NEW e \in Events,
         BodyHas(body, u, d), BodyHas(body, v, e)
  PROVE  u = v /\ d = e
<1>2. BodyHas(body, u, d) /\ BodyHas(body, v, e)
  OBVIOUS
<1>3. /\ \A s \in Sections : Start(d, s) = Start(e, s)
      /\ \A s \in Stats : Size(d, s) = Size(e, s)
      /\ Len(d.description) = Len(e.description)
  <2>1. SameShape(d, e)
    BY <1>2, SameStarts
  <2> QED BY <2>1 DEF SameShape
<1>4. u = v /\ d.name = e.name /\ d.time = e.time
  <2>1. UserLine(u) = UserLine(v) /\ NameLine(d.name) = NameLine(e.name)
        /\ TimeLine(d.time) = TimeLine(e.time)
    BY <1>2 DEF BodyHas
  <2> QED BY <2>1, LineTells
<1>5. ASSUME NEW s \in Stats PROVE d.updates[s] = e.updates[s]
  <2>1. \A i \in 1 .. Size(d, s) :
          Key(d, s, i) = Key(e, s, i) /\ d.updates[s][Key(d, s, i)] = e.updates[s][Key(e, s, i)]
    <3> SUFFICES ASSUME NEW i \in 1 .. Size(d, s)
                 PROVE  Key(d, s, i) = Key(e, s, i)
                        /\ d.updates[s][Key(d, s, i)] = e.updates[s][Key(e, s, i)]
      OBVIOUS
    <3>1. i \in 1 .. Size(e, s) /\ Start(d, s) = Start(e, s)
      BY <1>3, StartAfter
    <3>2. body[Start(d, s) + i] = StatLine(Key(d, s, i), d.updates[s][Key(d, s, i)])
      BY <1>2 DEF BodyHas
    <3>3. body[Start(e, s) + i] = StatLine(Key(e, s, i), e.updates[s][Key(e, s, i)])
      BY <1>2, <3>1 DEF BodyHas
    <3> QED BY <3>1, <3>2, <3>3, LineTells
  <2>2. Size(d, s) = Size(e, s)
    BY <1>3
  <2>3. /\ \A i \in 1 .. Size(d, s) : Key(d, s, i) \in DOMAIN d.updates[s]
        /\ \A k \in DOMAIN d.updates[s] : \E i \in 1 .. Size(d, s) : Key(d, s, i) = k
        /\ \A i \in 1 .. Size(e, s) : Key(e, s, i) \in DOMAIN e.updates[s]
        /\ \A k \in DOMAIN e.updates[s] : \E i \in 1 .. Size(e, s) : Key(e, s, i) = k
    BY Sizes
  <2>4. /\ DOMAIN d.updates[s] = DOMAIN e.updates[s]
        /\ \A k \in DOMAIN d.updates[s] : d.updates[s][k] = e.updates[s][k]
    <3>1. ASSUME NEW k \in DOMAIN d.updates[s]
          PROVE  k \in DOMAIN e.updates[s] /\ d.updates[s][k] = e.updates[s][k]
      <4>1. PICK i \in 1 .. Size(d, s) : Key(d, s, i) = k
        BY <2>3
      <4>2. i \in 1 .. Size(e, s) /\ Key(e, s, i) = k
        BY <2>1, <2>2, <4>1
      <4> QED BY <2>1, <2>3, <4>1, <4>2
    <3>2. ASSUME NEW k \in DOMAIN e.updates[s] PROVE k \in DOMAIN d.updates[s]
      <4>1. PICK i \in 1 .. Size(e, s) : Key(e, s, i) = k
        BY <2>3
      <4>2. i \in 1 .. Size(d, s) /\ Key(d, s, i) = k
        BY <2>1, <2>2, <4>1
      <4> QED BY <2>3, <4>2
    <3> QED BY <3>1, <3>2
  <2>5. d.updates[s] \in Maps(Texts, Texts) /\ e.updates[s] \in Maps(Texts, Texts)
    BY GameAssumption
  <2> QED BY <2>4, <2>5, SameMaps
<1>6. d.updates = e.updates
  <2>1. d.updates \in [Stats -> Maps(Texts, Texts)] /\ e.updates \in [Stats -> Maps(Texts, Texts)]
    BY GameAssumption
  <2> QED BY <1>5, <2>1
<1>7. d.description = e.description
  <2>1. d.description \in Seq(Texts) /\ e.description \in Seq(Texts)
    BY EventParts
  <2>2. ASSUME NEW i \in 1 .. Len(d.description) PROVE d.description[i] = e.description[i]
    <3>1. i \in 1 .. Len(e.description) /\ Start(d, 4) = Start(e, 4)
      BY <1>3 DEF Sections
    <3>2. body[Start(d, 4) + i] = TextLine(d.description[i])
      BY <1>2 DEF BodyHas
    <3>3. body[Start(e, 4) + i] = TextLine(e.description[i])
      BY <1>2, <3>1 DEF BodyHas
    <3> QED BY <3>1, <3>2, <3>3, LineTells
  <2> QED BY <1>3, <2>1, <2>2, SeqEqual
<1>8. /\ d = [name |-> d.name, time |-> d.time, updates |-> d.updates, description |-> d.description]
      /\ e = [name |-> e.name, time |-> e.time, updates |-> e.updates, description |-> e.description]
  BY GameAssumption
<1> QED BY <1>4, <1>6, <1>7, <1>8

(* A body is that of one event of one reporter.                             *)
LEMMA OneBody ==
  ASSUME NEW u \in Users, NEW v \in Users, NEW d \in Events, NEW e \in Events,
         Body[u][d] = Body[v][e]
  PROVE  u = v /\ d = e
<1>1. BodyHas(Body[u][d], u, d) /\ BodyHas(Body[u][d], v, e)
  BY BodyLines
<1> QED BY <1>1, OneEvent

-----------------------------------------------------------------------------
(* Frames and the files they come from                                      *)

(* No frames have no events.                                                *)
LEMMA RelayedNone ==
  ASSUME NEW u, NEW f, NEW first \in Nat
  PROVE  Relayed(<<>>, u, f, first, first)
<1>1. PICK none \in Seq(Bodies) : none = <<>> /\ Len(none) = 0
  BY EmptySeq
<1>2. PICK n : n = [k \in 0 .. 0 |-> first]
  OBVIOUS
<1>3. Counted(none, u, f, n) /\ n[0] = first /\ n[Len(none)] = first
  BY <1>1, <1>2 DEF Counted
<1> QED BY <1>1, <1>3 DEF Relayed

(* One more frame at the end of a queue.                                    *)
LEMMA AppendIs ==
  ASSUME NEW q \in Seq(Bodies), NEW frame \in Bodies, NEW more, more = Append(q, frame),
         NEW z \in Nat, z = Len(q)
  PROVE  /\ more \in Seq(Bodies) /\ Len(more) = z + 1
         /\ \A k \in 1 .. z : more[k] = q[k]
         /\ more[z + 1] = frame
  OBVIOUS

(* A frame at the end: the next event of its reporter, or another's.        *)
LEMMA RelayedMore ==
  ASSUME NEW q \in Seq(Bodies), NEW frame \in Bodies, NEW u, NEW f, NEW first, NEW last, NEW to \in Nat,
         Relayed(q, u, f, first, last),
         IF Of(frame) = u
         THEN to = last + 1 /\ to <= Len(f) /\ frame = Body[u][f[to]]
         ELSE to = last
  PROVE  Relayed(Append(q, frame), u, f, first, to)
<1>1. PICK n : Counted(q, u, f, n) /\ n[0] = first /\ n[Len(q)] = last
  BY DEF Relayed
<1>2. PICK z \in Nat : z = Len(q)
  BY LenProperties
<1>3. PICK more : more = Append(q, frame)
  OBVIOUS
<1>4. /\ more \in Seq(Bodies) /\ Len(more) = z + 1
      /\ \A k \in 1 .. z : more[k] = q[k]
      /\ more[z + 1] = frame
  BY <1>2, <1>3, AppendIs
<1>5. PICK m : m = [k \in 0 .. z + 1 |-> IF k <= z THEN n[k] ELSE to]
  OBVIOUS
<1>6. n \in [0 .. z -> Nat]
  BY <1>1, <1>2 DEF Counted
<1>7. /\ m \in [0 .. z + 1 -> Nat] /\ m[z + 1] = to /\ \A k \in 0 .. z : m[k] = n[k]
  BY <1>5, <1>6
<1>8. m[0] = first /\ m[z] = last
  BY <1>1, <1>2, <1>7
<1>9. ASSUME NEW k \in 1 .. z + 1
      PROVE  IF Of(more[k]) = u
             THEN m[k] = m[k - 1] + 1 /\ m[k] <= Len(f) /\ more[k] = Body[u][f[m[k]]]
             ELSE m[k] = m[k - 1]
  <2>1. CASE k = z + 1
    <3>1. m[k] = to /\ k - 1 = z /\ more[k] = frame
      BY <1>4, <1>7, <2>1
    <3>2. m[k - 1] = last
      BY <1>8, <3>1
    <3> QED BY <3>1, <3>2
  <2>2. CASE k \in 1 .. z
    <3>1. k \in 0 .. z /\ k - 1 \in 0 .. z
      BY <2>2
    <3>2. m[k] = n[k] /\ m[k - 1] = n[k - 1] /\ more[k] = q[k]
      BY <1>4, <1>7, <2>2, <3>1
    <3>3. IF Of(q[k]) = u
          THEN n[k] = n[k - 1] + 1 /\ n[k] <= Len(f) /\ q[k] = Body[u][f[n[k]]]
          ELSE n[k] = n[k - 1]
      BY <1>1, <1>2, <2>2 DEF Counted
    <3> QED BY <3>2, <3>3
  <2> QED BY <2>1, <2>2
<1>10. Counted(more, u, f, m)
  BY <1>4, <1>7, <1>9 DEF Counted
<1> QED BY <1>3, <1>4, <1>7, <1>8, <1>10 DEF Relayed

(* The first frame: the next event of its reporter, or another's.           *)
LEMMA RelayedFirst ==
  ASSUME NEW q \in Seq(Bodies), q # <<>>, NEW u, NEW f, NEW first, NEW last,
         Relayed(q, u, f, first, last),
         NEW to, to = IF Of(Head(q)) = u THEN first + 1 ELSE first
  PROVE  /\ Relayed(Tail(q), u, f, to, last)
         /\ Of(Head(q)) = u => to <= Len(f) /\ Head(q) = Body[u][f[to]]
<1>1. PICK n : Counted(q, u, f, n) /\ n[0] = first /\ n[Len(q)] = last
  BY DEF Relayed
<1>2. PICK r \in Seq(Bodies) : r = Tail(q)
  BY TailIs
<1>3. PICK z \in Nat : z = Len(r)
  BY LenProperties
<1>4. Len(q) = z + 1 /\ q[1] = Head(q) /\ \A k \in 1 .. z : r[k] = q[k + 1]
  BY <1>2, <1>3, TailIs
<1>5. n \in [0 .. z + 1 -> Nat]
  BY <1>1, <1>4 DEF Counted
<1>6. ASSUME NEW k \in 1 .. z + 1
      PROVE  IF Of(q[k]) = u
             THEN n[k] = n[k - 1] + 1 /\ n[k] <= Len(f) /\ q[k] = Body[u][f[n[k]]]
             ELSE n[k] = n[k - 1]
  BY <1>1, <1>4 DEF Counted
<1>7. n[1] = to /\ (Of(Head(q)) = u => to <= Len(f) /\ Head(q) = Body[u][f[to]])
  <2>1. 1 \in 1 .. z + 1 /\ 1 - 1 = 0
    BY <1>3
  <2>2. IF Of(q[1]) = u
        THEN n[1] = n[1 - 1] + 1 /\ n[1] <= Len(f) /\ q[1] = Body[u][f[n[1]]]
        ELSE n[1] = n[1 - 1]
    BY <1>6, <2>1
  <2>3. n[1 - 1] = first
    BY <1>1, <2>1
  <2> QED BY <1>4, <2>2, <2>3
<1>8. PICK m : m = [k \in 0 .. z |-> n[k + 1]]
  OBVIOUS
<1>9. m \in [0 .. z -> Nat] /\ \A k \in 0 .. z : m[k] = n[k + 1]
  <2>1. \A k \in 0 .. z : k + 1 \in 0 .. z + 1
    BY <1>3
  <2> QED BY <1>5, <1>8, <2>1
<1>10. ASSUME NEW k \in 1 .. z
       PROVE  IF Of(r[k]) = u
              THEN m[k] = m[k - 1] + 1 /\ m[k] <= Len(f) /\ r[k] = Body[u][f[m[k]]]
              ELSE m[k] = m[k - 1]
  <2>1. k + 1 \in 1 .. z + 1 /\ (k + 1) - 1 = k /\ k \in 0 .. z /\ k - 1 \in 0 .. z /\ (k - 1) + 1 = k
    BY <1>3
  <2>2. PICK j : j = k + 1
    OBVIOUS
  <2>3. IF Of(q[j]) = u
        THEN n[j] = n[j - 1] + 1 /\ n[j] <= Len(f) /\ q[j] = Body[u][f[n[j]]]
        ELSE n[j] = n[j - 1]
    BY <1>6, <2>1, <2>2
  <2>4. m[k] = n[j] /\ m[k - 1] = n[k] /\ r[k] = q[j] /\ j - 1 = k
    BY <1>4, <1>9, <2>1, <2>2
  <2> QED BY <2>3, <2>4
<1>11. Counted(r, u, f, m)
  BY <1>3, <1>9, <1>10 DEF Counted
<1>12. m[0] = to /\ m[Len(r)] = last
  <2>1. 0 \in 0 .. z /\ z \in 0 .. z /\ 0 + 1 = 1
    BY <1>3
  <2> QED BY <1>1, <1>3, <1>4, <1>7, <1>9, <2>1
<1> QED BY <1>2, <1>7, <1>11, <1>12 DEF Relayed

(* A body says whose event it is.                                           *)
LEMMA BodyOf ==
  ASSUME NEW u \in Users, NEW e \in Events
  PROVE  Body[u][e] \in Bodies /\ Of(Body[u][e]) = u
<1>1. Body[u][e][1] = UserLine(u)
  BY BodyLines DEF BodyHas
<1>2. UserLine(u).value = u
  BY DEF UserLine, Line
<1> QED BY <1>1, <1>2 DEF Bodies, Of

(* The first of a reporter's frames is its next event.                      *)
LEMMA ComesFirst ==
  ASSUME NEW r \in Seq(Bodies), r # <<>>, NEW u, NEW f \in Seq(Events), NEW last \in Nat,
         Comes(r, u, f, last)
  PROVE  /\ last + 1 \in 1 .. Len(f) /\ Head(r) = Body[u][f[last + 1]]
         /\ Comes(Tail(r), u, f, last + 1)
         /\ last + Len(r) = (last + 1) + Len(Tail(r))
<1>1. PICK z \in Nat : z = Len(Tail(r))
  BY TailIs, LenProperties
<1>2. PICK t : t = Tail(r)
  OBVIOUS
<1>3. /\ Len(r) = z + 1 /\ r[1] = Head(r) /\ Len(t) = z
      /\ \A k \in 1 .. z : t[k] = r[k + 1]
  BY <1>1, <1>2, TailIs
<1>4. last + (z + 1) <= Len(f) /\ \A j \in 1 .. z + 1 : r[j] = Body[u][f[last + j]]
  BY <1>3 DEF Comes
<1>5. PICK n \in Nat : n = Len(f)
  BY LenProperties
<1>6. 1 \in 1 .. z + 1 /\ last + 1 \in 1 .. n
  BY <1>1, <1>4, <1>5
<1>7. Head(r) = Body[u][f[last + 1]]
  BY <1>3, <1>4, <1>6
<1>8. ASSUME NEW k \in 1 .. z PROVE t[k] = Body[u][f[(last + 1) + k]]
  <2>1. PICK j \in 1 .. z + 1 : j = k + 1
    BY <1>1
  <2>2. last + j = (last + 1) + k
    BY <1>1, <2>1
  <2> QED BY <1>3, <1>4, <2>1, <2>2
<1>9. (last + 1) + z <= Len(f)
  BY <1>1, <1>4, <1>5
<1>10. Comes(t, u, f, last + 1)
  BY <1>3, <1>8, <1>9 DEF Comes
<1>11. last + Len(r) = (last + 1) + Len(t)
  BY <1>1, <1>3
<1> QED BY <1>2, <1>5, <1>6, <1>7, <1>10, <1>11

(* What it sends is the next event of its file.                             *)
LEMMA ComesMore ==
  ASSUME NEW r \in Seq(Bodies), NEW u \in Users, NEW f \in Seq(Events), NEW last \in Nat,
         Comes(r, u, f, last),
         NEW rest \in Seq(Events), rest # <<>>, RestIs(rest, f, last + Len(r)),
         NEW more, more = Append(r, Body[u][Head(rest)])
  PROVE  Comes(more, u, f, last) /\ RestIs(Tail(rest), f, last + Len(more))
<1>1. PICK z \in Nat : z = Len(r)
  BY LenProperties
<1>2. PICK t \in Seq(Events) : t = Tail(rest)
  BY TailIs
<1>3. PICK y \in Nat : y = Len(t)
  BY LenProperties
<1>4. /\ Len(rest) = y + 1 /\ rest[1] = Head(rest) /\ Head(rest) \in Events
      /\ \A k \in 1 .. y : t[k] = rest[k + 1]
  BY <1>2, <1>3, TailIs
<1>5. PICK frame \in Bodies : frame = Body[u][Head(rest)]
  BY <1>4, BodyOf
<1>6. Len(more) = z + 1 /\ more[z + 1] = frame /\ \A k \in 1 .. z : more[k] = r[k]
  BY <1>1, <1>5, AppendIs
<1>7. \A j \in 1 .. z : r[j] = Body[u][f[last + j]]
  BY <1>1 DEF Comes
<1>8. (last + z) + (y + 1) = Len(f) /\ \A i \in 1 .. y + 1 : rest[i] = f[(last + z) + i]
  BY <1>1, <1>4 DEF RestIs
<1>9. PICK n \in Nat : n = Len(f)
  BY LenProperties
<1>10. last + (z + 1) <= n /\ (last + (z + 1)) + y = n
  BY <1>1, <1>3, <1>8, <1>9
<1>11. rest[1] = f[last + (z + 1)]
  <2>1. 1 \in 1 .. y + 1 /\ (last + z) + 1 = last + (z + 1)
    BY <1>1, <1>3
  <2> QED BY <1>8, <2>1
<1>12. ASSUME NEW j \in 1 .. z + 1 PROVE more[j] = Body[u][f[last + j]]
  <2>1. CASE j = z + 1
    <3>1. more[j] = Body[u][rest[1]]
      BY <1>4, <1>5, <1>6, <2>1
    <3> QED BY <1>11, <2>1, <3>1
  <2>2. CASE j \in 1 .. z
    BY <1>6, <1>7, <2>2
  <2>3. j = z + 1 \/ j \in 1 .. z
    BY <1>1
  <2> QED BY <2>1, <2>2, <2>3
<1>13. ASSUME NEW i \in 1 .. y PROVE t[i] = f[(last + (z + 1)) + i]
  <2>1. PICK j \in 1 .. y + 1 : j = i + 1
    BY <1>3
  <2>2. (last + z) + j = (last + (z + 1)) + i
    BY <1>1, <1>3, <2>1
  <2> QED BY <1>4, <1>8, <2>1, <2>2
<1>14. Comes(more, u, f, last)
  BY <1>6, <1>9, <1>10, <1>12 DEF Comes
<1>15. RestIs(t, f, last + Len(more))
  BY <1>3, <1>6, <1>9, <1>10, <1>13 DEF RestIs
<1> QED BY <1>2, <1>14, <1>15

(* The next event of the file goes to the end of what comes from its        *)
(* reporter.                                                                *)
LEMMA OrderReport ==
  ASSUME NEW q, NEW r \in Seq(Bodies), NEW rest \in Seq(Events), NEW said, NEW f \in Seq(Events),
         NEW u \in Users, NEW followed \in BOOLEAN,
         Order(q, r, rest, said, f, u, followed, TRUE), rest # <<>>
  PROVE  Order(q, Append(r, Body[u][Head(rest)]), Tail(rest), said, f, u, followed, TRUE)
<1>1. PICK last \in Nat :
        /\ Relayed(q, u, f, Len(said), last)
        /\ followed => Comes(r, u, f, last) /\ RestIs(rest, f, last + Len(r))
  BY DEF Order
<1>2. PICK more : more = Append(r, Body[u][Head(rest)])
  OBVIOUS
<1>3. followed => Comes(more, u, f, last) /\ RestIs(Tail(rest), f, last + Len(more))
  BY <1>1, <1>2, ComesMore
<1>4. Order(q, more, Tail(rest), said, f, u, followed, TRUE)
  BY <1>1, <1>3 DEF Order
<1> QED BY <1>2, <1>4

(* The first frame from a reporter goes to the end of what goes to the      *)
(* follower.                                                                *)
LEMMA OrderRelay ==
  ASSUME NEW q \in Seq(Bodies), NEW r \in Seq(Bodies), NEW rest, NEW said, NEW f \in Seq(Events),
         NEW u \in Users, NEW stands \in BOOLEAN,
         Order(q, r, rest, said, f, u, TRUE, stands), r # <<>>
  PROVE  Order(Append(q, Head(r)), Tail(r), rest, said, f, u, TRUE, stands)
<1>1. PICK last \in Nat :
        /\ Relayed(q, u, f, Len(said), last)
        /\ Comes(r, u, f, last)
        /\ stands => RestIs(rest, f, last + Len(r))
  BY DEF Order
<1>2. /\ last + 1 \in 1 .. Len(f) /\ Head(r) = Body[u][f[last + 1]]
      /\ Comes(Tail(r), u, f, last + 1)
      /\ last + Len(r) = (last + 1) + Len(Tail(r))
  BY <1>1, ComesFirst
<1>3. PICK frame \in Bodies : frame = Head(r)
  BY TailIs
<1>4. PICK to \in Nat : to = last + 1
  BY <1>1
<1>5. f[to] \in Events
  BY <1>2, <1>4
<1>6. Of(frame) = u /\ to <= Len(f) /\ frame = Body[u][f[to]]
  BY <1>2, <1>3, <1>4, <1>5, BodyOf
<1>7. Relayed(Append(q, frame), u, f, Len(said), to)
  BY <1>1, <1>4, <1>6, RelayedMore
<1> QED BY <1>1, <1>2, <1>3, <1>4, <1>7 DEF Order

(* A frame of another reporter there changes nothing for this one.          *)
LEMMA OrderOther ==
  ASSUME NEW q \in Seq(Bodies), NEW frame \in Bodies, NEW r, NEW rest, NEW said, NEW f,
         NEW u, NEW followed, NEW stands,
         Order(q, r, rest, said, f, u, followed, stands), Of(frame) # u
  PROVE  Order(Append(q, frame), r, rest, said, f, u, followed, stands)
<1>1. PICK last \in Nat :
        /\ Relayed(q, u, f, Len(said), last)
        /\ followed => Comes(r, u, f, last)
        /\ followed /\ stands => RestIs(rest, f, last + Len(r))
  BY DEF Order
<1>2. Relayed(Append(q, frame), u, f, Len(said), last)
  BY <1>1, RelayedMore
<1> QED BY <1>1, <1>2 DEF Order

(* Nor does telling the follower of another reporter's event.               *)
LEMMA OrderToOther ==
  ASSUME NEW q \in Seq(Bodies), q # <<>>, NEW r, NEW rest, NEW said, NEW f,
         NEW u, NEW followed, NEW stands,
         Order(q, r, rest, said, f, u, followed, stands), Of(Head(q)) # u
  PROVE  Order(Tail(q), r, rest, said, f, u, followed, stands)
<1>1. PICK last \in Nat :
        /\ Relayed(q, u, f, Len(said), last)
        /\ followed => Comes(r, u, f, last)
        /\ followed /\ stands => RestIs(rest, f, last + Len(r))
  BY DEF Order
<1>2. Relayed(Tail(q), u, f, Len(said), last)
  BY <1>1, RelayedFirst
<1> QED BY <1>1, <1>2 DEF Order

(* The next event that is said is the next of the file.                     *)
LEMMA OrderSaid ==
  ASSUME NEW q \in Seq(Bodies), q # <<>>, NEW r, NEW rest, NEW said \in Seq(Events),
         NEW f \in Seq(Events), NEW u \in Users, NEW followed, NEW stands,
         Order(q, r, rest, said, f, u, followed, stands),
         NEW e \in Events, Head(q) = Body[u][e]
  PROVE  Order(Tail(q), r, rest, Append(said, e), f, u, followed, stands)
<1>1. PICK last \in Nat :
        /\ Relayed(q, u, f, Len(said), last)
        /\ followed => Comes(r, u, f, last)
        /\ followed /\ stands => RestIs(rest, f, last + Len(r))
  BY DEF Order
<1>2. Of(Head(q)) = u
  BY BodyOf
<1>3. PICK z \in Nat : z = Len(said)
  BY LenProperties
<1>4. PICK to \in Nat : to = z + 1
  BY <1>3
<1>5. Relayed(Tail(q), u, f, to, last) /\ to <= Len(f) /\ Head(q) = Body[u][f[to]]
  BY <1>1, <1>2, <1>3, <1>4, RelayedFirst
<1>6. to \in 1 .. Len(f)
  BY <1>3, <1>4, <1>5
<1>7. e = f[to]
  <2>1. f[to] \in Events
    BY <1>6
  <2> QED BY <1>5, <2>1, OneBody
<1>8. PICK more : more = Append(said, e)
  OBVIOUS
<1>9. Len(more) = to /\ more[to] = e /\ \A i \in 1 .. z : more[i] = said[i]
  BY <1>3, <1>4, <1>8
<1>10. Begins(more, f)
  <2>1. ASSUME NEW i \in 1 .. to PROVE more[i] = f[i]
    <3>1. CASE i = to
      BY <1>7, <1>9, <3>1
    <3>2. CASE i \in 1 .. z
      BY <1>3, <1>9, <3>2 DEF Order, Begins
    <3> QED BY <1>3, <1>4, <3>1, <3>2
  <2> QED BY <1>5, <1>9, <2>1 DEF Begins
<1>11. Order(Tail(q), r, rest, more, f, u, followed, stands)
  BY <1>1, <1>5, <1>9, <1>10 DEF Order
<1> QED BY <1>8, <1>11

(* Nothing more comes to a follower whose connection is broken.             *)
LEMMA OrderUnfollowed ==
  ASSUME NEW q, NEW r, NEW rest, NEW said, NEW f, NEW u, NEW stands,
         Order(q, r, rest, said, f, u, FALSE, stands), NEW other
  PROVE  Order(q, other, rest, said, f, u, FALSE, stands)
  BY DEF Order

(* When connections break or a reporter gives up, less is promised.         *)
LEMMA OrderBroken ==
  ASSUME NEW q, NEW r, NEW rest, NEW said, NEW f, NEW u, NEW followed \in BOOLEAN, NEW stands \in BOOLEAN,
         Order(q, r, rest, said, f, u, followed, stands),
         NEW left, NEW follows \in BOOLEAN, NEW still \in BOOLEAN,
         follows => followed, still => stands /\ left = rest
  PROVE  Order(q, r, left, said, f, u, follows, still)
<1>1. PICK last \in Nat :
        /\ Relayed(q, u, f, Len(said), last)
        /\ followed => Comes(r, u, f, last)
        /\ followed /\ stands => RestIs(rest, f, last + Len(r))
  BY DEF Order
<1>2. follows => Comes(r, u, f, last)
  BY <1>1
<1>3. follows /\ still => RestIs(left, f, last + Len(r))
  BY <1>1
<1> QED BY <1>1, <1>2, <1>3 DEF Order

(* The frame in hand is the first of a queue.                               *)
LEMMA QueueIs ==
  ASSUME FeedInv, NEW s \in Streams
  PROVE  /\ Queue(s) \in Seq(Bodies) /\ way[s] \in Seq(Bodies)
         /\ got[s] = <<>> => Queue(s) = way[s]
         /\ got[s] # <<>> =>
              /\ got[s] = <<got[s][1]>> /\ got[s][1] \in Bodies /\ Queue(s) # <<>>
              /\ Head(Queue(s)) = got[s][1] /\ Tail(Queue(s)) = way[s]
<1>1. way[s] \in Seq(Bodies) /\ got[s] \in {<<>>} \cup {<<frame>> : frame \in Bodies}
  BY DEF FeedInv, FeedTypes
<1>2. PICK w \in Seq(Bodies) : w = way[s]
  BY <1>1
<1>3. CASE got[s] = <<>>
  <2>1. <<>> \o w = w
    BY ConcatEmptySeq
  <2> QED BY <1>2, <1>3, <2>1 DEF Queue
<1>4. CASE got[s] # <<>>
  <2>1. PICK frame \in Bodies : got[s] = <<frame>>
    BY <1>1, <1>4
  <2>2. /\ <<frame>> \o w \in Seq(Bodies) /\ <<frame>> \o w # <<>>
        /\ Head(<<frame>> \o w) = frame /\ Tail(<<frame>> \o w) = w
    OBVIOUS
  <2> QED BY <1>2, <1>4, <2>1, <2>2 DEF Queue
<1> QED BY <1>3, <1>4

(* A queue that is handed one frame from way, and one to which one is added. *)
LEMMA HeadTail ==
  ASSUME NEW q \in Seq(Bodies), q # <<>>
  PROVE  <<Head(q)>> \o Tail(q) = <<>> \o q
  OBVIOUS

(* What is put at the end of what is on its way is at the end of the queue. *)
LEMMA AppendQueue ==
  ASSUME NEW a \in Seq(Bodies), NEW b \in Seq(Bodies), NEW frame \in Bodies
  PROVE  a \o Append(b, frame) = Append(a \o b, frame)
  OBVIOUS

(* A frame that is written is the last of its queue.                        *)
LEMMA QueueAppended ==
  ASSUME FeedInv, NEW s \in Streams, NEW frame \in Bodies,
         way'[s] = Append(way[s], frame), got'[s] = got[s]
  PROVE  Queue(s)' = Append(Queue(s), frame)
<1>1. got[s] \in Seq(Bodies)
  <2>1. got[s] \in {<<>>} \cup {<<f>> : f \in Bodies}
    BY DEF FeedInv, FeedTypes
  <2>2. CASE got[s] = <<>>
    BY <2>2, EmptySeq
  <2>3. CASE got[s] # <<>>
    <3>1. PICK f \in Bodies : got[s] = <<f>>
      BY <2>1, <2>3
    <3>2. <<f>> \in Seq(Bodies)
      OBVIOUS
    <3> QED BY <3>1, <3>2
  <2> QED BY <2>2, <2>3
<1>2. got[s] \o Append(way[s], frame) = Append(got[s] \o way[s], frame)
  BY <1>1, QueueIs, AppendQueue
<1>3. Queue(s)' = got[s] \o Append(way[s], frame)
  BY DEF Queue
<1> QED BY <1>2, <1>3 DEF Queue

(* A stream where no frame moves has the same queue.                        *)
LEMMA QueueSame ==
  ASSUME NEW s \in Streams, way'[s] = way[s], got'[s] = got[s]
  PROVE  Queue(s)' = Queue(s)
  BY DEF Queue

(* A frame that is received is still the first of its queue.                *)
LEMMA QueueHanded ==
  ASSUME FeedInv, NEW s \in Streams, Fifo!Receive(s)
  PROVE  \A t \in Streams : Queue(t)' = Queue(t)
<1>1. /\ got[s] = <<>> /\ way[s] # <<>>
      /\ got' = [got EXCEPT ![s] = <<Head(way[s])>>]
      /\ way' = [way EXCEPT ![s] = Tail(@)]
  BY DEF Fifo!Receive
<1>2. /\ got \in [Streams -> {<<>>} \cup {<<f>> : f \in Bodies}]
      /\ way \in [Streams -> Seq(Bodies)]
  BY DEF FeedInv, FeedTypes
<1>3. ASSUME NEW t \in Streams, t # s PROVE Queue(t)' = Queue(t)
  BY <1>1, <1>2, <1>3 DEF Queue
<1>4. Queue(s)' = Queue(s)
  <2>1. got'[s] = <<Head(way[s])>> /\ way'[s] = Tail(way[s])
    BY <1>1, <1>2
  <2>2. <<Head(way[s])>> \o Tail(way[s]) = <<>> \o way[s]
    BY <1>1, <1>2, HeadTail
  <2> QED BY <1>1, <2>1, <2>2 DEF Queue
<1> QED BY <1>3, <1>4

(* A frame that was handled leaves its queue.                               *)
LEMMA QueueHandled ==
  ASSUME FeedInv, NEW s \in Streams, got[s] # <<>>, got' = [got EXCEPT ![s] = <<>>], way'[s] = way[s]
  PROVE  /\ Queue(s) \in Seq(Bodies) /\ Queue(s) # <<>> /\ Head(Queue(s)) = got[s][1]
         /\ Queue(s)' = Tail(Queue(s))
<1>1. got'[s] = <<>> /\ way[s] \in Seq(Bodies)
  BY DEF FeedInv, FeedTypes
<1>2. <<>> \o way[s] = way[s]
  BY <1>1, ConcatEmptySeq
<1>3. Queue(s)' = way[s]
  BY <1>1, <1>2 DEF Queue
<1> QED BY <1>3, QueueIs

(* Nothing is promised of a reporter that its steps do not change.          *)
LEMMA SamePromise ==
  ASSUME NEW u \in Users, InFileOrder(u), Queue(Follower)' = Queue(Follower), Queue(u)' = Queue(u),
         unsent'[u] = unsent[u], told'[u] = told[u], file'[u] = file[u],
         open'[Follower] = open[Follower], open'[u] = open[u]
  PROVE  InFileOrder(u)'
  BY DEF InFileOrder

-----------------------------------------------------------------------------
(* Every step keeps the order                                               *)

(* What a reporter sends is the next of its file.                           *)
LEMMA ReportInOrder ==
  ASSUME FeedInv, OrderInv, NEW u \in Users, Report(u)
  PROVE  OrderInv'
<1>1. /\ open[u] /\ unsent[u] # <<>>
      /\ way' = [way EXCEPT ![u] = Append(@, Body[u][Head(unsent[u])])]
      /\ unsent' = [unsent EXCEPT ![u] = Tail(@)]
      /\ got' = got /\ open' = open /\ told' = told /\ file' = file
  BY DEF Report, Write, gameVars
<1>2. /\ way \in [Streams -> Seq(Bodies)] /\ unsent \in [Users -> Seq(Events)]
      /\ open \in [Streams -> BOOLEAN] /\ file \in [Users -> Seq(Events)]
      /\ u \in Streams /\ Follower \in Streams /\ Follower \notin Users /\ Users \subseteq Streams
  BY FeedAssumption DEF FeedInv, FeedTypes, OrderInv
<1>3. Head(unsent[u]) \in Events
  BY <1>1, <1>2, TailIs
<1>4. PICK frame \in Bodies : frame = Body[u][Head(unsent[u])]
  BY <1>3, BodyOf
<1>5. /\ way'[u] = Append(way[u], frame) /\ \A s \in Streams : s # u => way'[s] = way[s]
      /\ unsent'[u] = Tail(unsent[u]) /\ \A v \in Users : v # u => unsent'[v] = unsent[v]
  BY <1>1, <1>2, <1>4
<1>6. Queue(u)' = Append(Queue(u), frame)
  BY <1>1, <1>2, <1>5, QueueAppended
<1>7. \A s \in Streams : s # u => Queue(s)' = Queue(s)
  BY <1>1, <1>5, QueueSame
<1>8. InFileOrder(u)'
  <2>1. Order(Queue(Follower), Queue(u), unsent[u], told[u], file[u], u, open[Follower], TRUE)
    BY <1>1, <1>2 DEF OrderInv, InFileOrder
  <2>2. Queue(u) \in Seq(Bodies) /\ unsent[u] \in Seq(Events) /\ file[u] \in Seq(Events)
        /\ open[Follower] \in BOOLEAN
    BY <1>2, QueueIs
  <2>3. Order(Queue(Follower), Append(Queue(u), frame), Tail(unsent[u]), told[u], file[u], u,
              open[Follower], TRUE)
    BY <1>1, <1>4, <2>1, <2>2, OrderReport
  <2>4. Queue(Follower)' = Queue(Follower) /\ open'[u] = TRUE
    BY <1>1, <1>2, <1>7
  <2> QED BY <1>1, <1>5, <1>6, <2>3, <2>4 DEF InFileOrder
<1>9. ASSUME NEW v \in Users, v # u PROVE InFileOrder(v)'
  <2>1. Queue(v)' = Queue(v) /\ Queue(Follower)' = Queue(Follower)
    BY <1>2, <1>7, <1>9
  <2> QED BY <1>1, <1>5, <1>9, <2>1, SamePromise DEF OrderInv
<1> QED BY <1>1, <1>8, <1>9 DEF OrderInv

(* What the server writes to the follower is the next of a reporter's file. *)
LEMMA RelayInOrder ==
  ASSUME FeedInv, OrderInv, NEW u \in Users, Relay(u)
  PROVE  OrderInv'
<1>1. /\ got[u] # <<>> /\ got' = [got EXCEPT ![u] = <<>>]
      /\ IF open[Follower] THEN Write(Follower, got[u][1]) ELSE UNCHANGED <<out, way>>
      /\ unsent' = unsent /\ open' = open /\ told' = told /\ file' = file
  BY DEF Relay, gameVars, feedVars
<1>2. /\ way \in [Streams -> Seq(Bodies)] /\ open \in [Streams -> BOOLEAN]
      /\ got \in [Streams -> {<<>>} \cup {<<f>> : f \in Bodies}]
      /\ file \in [Users -> Seq(Events)]
      /\ u \in Streams /\ Follower \in Streams /\ Follower \notin Users /\ Users \subseteq Streams
  BY FeedAssumption DEF FeedInv, FeedTypes, OrderInv
<1>3. PICK frame \in Bodies : frame = got[u][1]
  BY <1>1, <1>2, Handed
<1>4. /\ \A s \in Streams : s # Follower => way'[s] = way[s]
      /\ \A s \in Streams : s # u => got'[s] = got[s]
      /\ open[Follower] => way'[Follower] = Append(way[Follower], frame)
      /\ ~open[Follower] => way' = way
  BY <1>1, <1>2, <1>3 DEF Write
<1>5. /\ Queue(u) \in Seq(Bodies) /\ Queue(u) # <<>> /\ Head(Queue(u)) = frame
      /\ Queue(u)' = Tail(Queue(u))
  BY <1>1, <1>2, <1>3, <1>4, QueueHandled
<1>6. \A v \in Users : v # u => Queue(v)' = Queue(v)
  BY <1>2, <1>4, QueueSame
<1>7. CASE open[Follower]
  <2>1. Queue(Follower)' = Append(Queue(Follower), frame)
    BY <1>2, <1>4, <1>7, QueueAppended
  <2>2. Queue(Follower) \in Seq(Bodies)
    BY <1>2, QueueIs
  <2>3. InFileOrder(u)'
    <3>1. Order(Queue(Follower), Queue(u), unsent[u], told[u], file[u], u, TRUE, open[u])
      BY <1>2, <1>7 DEF OrderInv, InFileOrder
    <3>2. file[u] \in Seq(Events) /\ open[u] \in BOOLEAN
      BY <1>2
    <3>3. Order(Append(Queue(Follower), frame), Tail(Queue(u)), unsent[u], told[u], file[u], u, TRUE, open[u])
      BY <1>5, <2>2, <3>1, <3>2, OrderRelay
    <3>4. open'[Follower] = TRUE
      BY <1>1, <1>2, <1>7
    <3> QED BY <1>1, <1>5, <2>1, <3>3, <3>4 DEF InFileOrder
  <2>4. Of(frame) = u
    <3>1. Order(Queue(Follower), Queue(u), unsent[u], told[u], file[u], u, TRUE, open[u])
      BY <1>2, <1>7 DEF OrderInv, InFileOrder
    <3>2. PICK last \in Nat : Comes(Queue(u), u, file[u], last)
      BY <3>1 DEF Order
    <3>3. last + 1 \in 1 .. Len(file[u]) /\ Head(Queue(u)) = Body[u][file[u][last + 1]]
      <4>1. file[u] \in Seq(Events) /\ Queue(u) \in Seq(Bodies) /\ Queue(u) # <<>>
        BY <1>2, <1>5
      <4> QED BY <3>2, <4>1, ComesFirst
    <3>4. PICK e \in Events : e = file[u][last + 1]
      BY <1>2, <3>3
    <3> QED BY <1>5, <3>3, <3>4, BodyOf
  <2>5. ASSUME NEW v \in Users, v # u PROVE InFileOrder(v)'
    <3>1. Order(Queue(Follower), Queue(v), unsent[v], told[v], file[v], v, open[Follower], open[v])
      BY DEF OrderInv, InFileOrder
    <3>2. Order(Append(Queue(Follower), frame), Queue(v), unsent[v], told[v], file[v], v,
                open[Follower], open[v])
      BY <2>2, <2>4, <2>5, <3>1, OrderOther
    <3>3. Queue(v)' = Queue(v)
      BY <1>6, <2>5
    <3> QED BY <1>1, <2>1, <3>2, <3>3 DEF InFileOrder
  <2> QED BY <1>1, <2>3, <2>5 DEF OrderInv
<1>8. CASE ~open[Follower]
  <2>1. Queue(Follower)' = Queue(Follower)
    BY <1>2, <1>4, <1>8, QueueSame
  <2>2. InFileOrder(u)'
    <3>1. Order(Queue(Follower), Queue(u), unsent[u], told[u], file[u], u, FALSE, open[u])
      <4>1. open[Follower] = FALSE
        BY <1>2, <1>8
      <4> QED BY <4>1 DEF OrderInv, InFileOrder
    <3>3. Order(Queue(Follower), Tail(Queue(u)), unsent[u], told[u], file[u], u, FALSE, open[u])
      BY <3>1, OrderUnfollowed
    <3>4. open'[Follower] = FALSE
      BY <1>1, <1>2, <1>8
    <3> QED BY <1>1, <1>5, <2>1, <3>3, <3>4 DEF InFileOrder
  <2>3. ASSUME NEW v \in Users, v # u PROVE InFileOrder(v)'
    <3>1. Queue(v)' = Queue(v)
      BY <1>6, <2>3
    <3> QED BY <1>1, <2>1, <3>1, SamePromise DEF OrderInv
  <2> QED BY <1>1, <2>2, <2>3 DEF OrderInv
<1> QED BY <1>7, <1>8

(* What the follower is told next is the next event of a file.              *)
LEMMA DeliverInOrder ==
  ASSUME FeedInv, OrderInv, Deliver
  PROVE  OrderInv'
<1>1. /\ got[Follower] # <<>> /\ got' = [got EXCEPT ![Follower] = <<>>]
      /\ unsent' = unsent /\ open' = open /\ way' = way /\ file' = file
      /\ HandleMessage(got[Follower][1][1].value, EventOf(got[Follower][1]), got[Follower][1])
  BY DEF Deliver, feedVars
<1>2. /\ way \in [Streams -> Seq(Bodies)] /\ open \in [Streams -> BOOLEAN]
      /\ got \in [Streams -> {<<>>} \cup {<<f>> : f \in Bodies}]
      /\ file \in [Users -> Seq(Events)] /\ told \in [Users -> Seq(Events)]
      /\ Follower \in Streams /\ Follower \notin Users /\ Users \subseteq Streams
  BY FeedAssumption DEF FeedInv, FeedTypes, OrderInv
<1>3. PICK body \in Bodies : body = got[Follower][1]
  BY <1>1, <1>2, Handed
<1>4. \E w \in Users, d \in Events : body = Body[w][d]
  BY DEF Bodies
<1>5. PICK e : e = EventOf(body)
  OBVIOUS
<1>6. e \in Events /\ \E w \in Users : body = Body[w][e]
  BY <1>4, <1>5 DEF EventOf
<1>7. PICK u \in Users : body = Body[u][e]
  BY <1>6
<1>8. Of(body) = u
  BY <1>6, <1>7, BodyOf
<1>9. told' = [told EXCEPT ![u] = Append(@, e)]
  BY <1>1, <1>3, <1>5, <1>8 DEF HandleMessage, Of
<1>10. /\ told' \in [Users -> Seq(Events)] /\ told'[u] = Append(told[u], e)
       /\ \A v \in Users : v # u => told'[v] = told[v]
  BY <1>2, <1>6, <1>9, AppendProperties
<1>11. /\ Queue(Follower) \in Seq(Bodies) /\ Queue(Follower) # <<>>
       /\ Head(Queue(Follower)) = body /\ Queue(Follower)' = Tail(Queue(Follower))
  BY <1>1, <1>2, <1>3, QueueHandled
<1>12. \A v \in Users : Queue(v)' = Queue(v)
  <2>1. \A v \in Users : got'[v] = got[v] /\ way'[v] = way[v]
    BY <1>1, <1>2
  <2> QED BY <1>2, <2>1, QueueSame
<1>13. \A v \in Users :
         Order(Queue(Follower), Queue(v), unsent[v], told[v], file[v], v, open[Follower], open[v])
  BY DEF OrderInv, InFileOrder
<1>14. InFileOrder(u)'
  <2>1. Order(Tail(Queue(Follower)), Queue(u), unsent[u], Append(told[u], e), file[u], u,
              open[Follower], open[u])
    BY <1>2, <1>6, <1>7, <1>11, <1>13, OrderSaid
  <2> QED BY <1>1, <1>10, <1>11, <1>12, <2>1 DEF InFileOrder
<1>15. ASSUME NEW v \in Users, v # u PROVE InFileOrder(v)'
  <2>1. Order(Tail(Queue(Follower)), Queue(v), unsent[v], told[v], file[v], v, open[Follower], open[v])
    BY <1>8, <1>11, <1>13, <1>15, OrderToOther
  <2> QED BY <1>1, <1>10, <1>11, <1>12, <1>15, <2>1 DEF InFileOrder
<1> QED BY <1>1, <1>2, <1>10, <1>14, <1>15 DEF OrderInv

(* A connection breaks, or a reporter gives up.                             *)
LEMMA LossInOrder ==
  ASSUME FeedInv, OrderInv, UNCHANGED <<got, way, told, file>>, open' \in [Streams -> BOOLEAN],
         \A s \in Streams : open'[s] => open[s],
         \A u \in Users : open'[u] => unsent'[u] = unsent[u]
  PROVE  OrderInv'
<1>1. /\ open \in [Streams -> BOOLEAN] /\ Follower \in Streams /\ Users \subseteq Streams
  BY FeedAssumption DEF FeedInv, FeedTypes
<1>2. ASSUME NEW u \in Users PROVE InFileOrder(u)'
  <2>1. Order(Queue(Follower), Queue(u), unsent[u], told[u], file[u], u, open[Follower], open[u])
    BY DEF OrderInv, InFileOrder
  <2>2. /\ open[Follower] \in BOOLEAN /\ open[u] \in BOOLEAN
        /\ open'[Follower] \in BOOLEAN /\ open'[u] \in BOOLEAN
        /\ (open'[Follower] => open[Follower])
    BY <1>1
  <2>3. Queue(Follower)' = Queue(Follower) /\ Queue(u)' = Queue(u)
    BY DEF Queue
  <2>4. open'[u] => open[u] /\ unsent'[u] = unsent[u]
    BY <1>1
  <2>5. Order(Queue(Follower), Queue(u), unsent'[u], told[u], file[u], u, open'[Follower], open'[u])
    BY <2>1, <2>2, <2>4, OrderBroken
  <2> QED BY <2>3, <2>5 DEF InFileOrder
<1> QED BY <1>2 DEF OrderInv

(* Where no frame leaves a queue, nothing changes.                          *)
LEMMA SameInOrder ==
  ASSUME OrderInv, \A s \in Streams : Queue(s)' = Queue(s), UNCHANGED <<unsent, told, file, open>>
  PROVE  OrderInv'
<1>1. Follower \in Streams /\ Users \subseteq Streams
  BY FeedAssumption
<1>2. ASSUME NEW u \in Users PROVE InFileOrder(u)'
  BY <1>1, SamePromise DEF OrderInv
<1> QED BY <1>2 DEF OrderInv

(* Every step of the feed keeps the files in order.                         *)
LEMMA OrderInvKept ==
  ASSUME FeedInv, OrderInv, [Next]_vars
  PROVE  OrderInv'
<1>1. ASSUME UNCHANGED <<got, way, unsent, told, file, open>> PROVE OrderInv'
  BY <1>1, SameInOrder DEF Queue
<1>2. ASSUME NEW u \in Users, ReportFails(u) PROVE OrderInv'
  <2>1. /\ ~open[u] /\ unsent' = [unsent EXCEPT ![u] = <<>>]
        /\ UNCHANGED <<got, way, told, file, open>>
    BY <1>2 DEF ReportFails, streamVars, gameVars
  <2>2. open' \in [Streams -> BOOLEAN] /\ \A v \in Users : open'[v] => unsent'[v] = unsent[v]
    BY <2>1 DEF FeedInv, FeedTypes
  <2> QED BY <2>1, <2>2, LossInOrder
<1>3. ASSUME NEW s \in Streams, Read(s) PROVE OrderInv'
  <2>1. Reading(s) /\ UNCHANGED <<told, unsent, file>>
    BY <1>3 DEF Read, gameVars, feedVars
  <2>2. open' = open
    BY <2>1 DEF Reading, ReadSome, ReadFrame, ReadFails
  <2>3. Fifo!Receive(s) \/ UNCHANGED <<way, got>>
    <3>1. CASE ReadFrame(s)
      BY <3>1, ReadFrameKeeps
    <3>2. CASE ReadSome(s) \/ ReadFails(s)
      BY <3>2 DEF ReadSome, ReadFails
    <3> QED BY <2>1, <3>1, <3>2 DEF Reading
  <2>4. \A t \in Streams : Queue(t)' = Queue(t)
    BY <2>3, QueueHanded, QueueSame
  <2> QED BY <2>1, <2>2, <2>4, SameInOrder
<1>4. ASSUME NEW s \in Streams, Carry(s) PROVE OrderInv'
  <2>1. UNCHANGED <<got, way, unsent, told, file, open>>
    BY <1>4 DEF Carry, WriteSome, gameVars, feedVars
  <2> QED BY <1>1, <2>1
<1>5. ASSUME NEW s \in Streams, Fail(s) PROVE OrderInv'
  <2>1. /\ open' = [open EXCEPT ![s] = FALSE]
        /\ UNCHANGED <<got, way, told, file, unsent>>
    BY <1>5 DEF Fail, Break, gameVars, feedVars
  <2>2. open' \in [Streams -> BOOLEAN] /\ \A t \in Streams : open'[t] => open[t]
    BY <2>1 DEF FeedInv, FeedTypes
  <2> QED BY <2>1, <2>2, LossInOrder
<1>6. ASSUME GameStep PROVE OrderInv'
  <2>1. UNCHANGED told
    BY <1>6 DEF GameStep, Reader, ParseLine, StoreEvent, Summary, CopyEntry, NextMap, SummaryEnds, TypeSummary
  <2>2. UNCHANGED <<got, way, unsent, file, open>>
    BY <1>6 DEF GameStep, streamVars, feedVars
  <2> QED BY <1>1, <2>1, <2>2
<1>7. CASE UNCHANGED vars
  BY <1>1, <1>7 DEF vars, streamVars, gameVars, feedVars
<1>8. CASE \E u \in Users : Report(u) \/ ReportFails(u) \/ Relay(u)
  BY <1>2, <1>8, ReportInOrder, RelayInOrder
<1>9. CASE \E s \in Streams : Read(s) \/ Carry(s) \/ Fail(s)
  BY <1>3, <1>4, <1>5, <1>9
<1> QED BY <1>6, <1>7, <1>8, <1>9, DeliverInOrder DEF Next

(* At the start everything is the rest of a file.                           *)
LEMMA OrderInvInit == Init => OrderInv
<1> SUFFICES ASSUME Init PROVE OrderInv
  OBVIOUS
<1>1. /\ file \in [Users -> Seq(Events)] /\ unsent = file
      /\ told = [u \in Users |-> <<>>]
      /\ way = [s \in Streams |-> <<>>] /\ got = [s \in Streams |-> <<>>]
  BY FeedAssumption DEF Init, FramingInit, GameInit
<1>2. PICK none \in Seq(Bodies) : none = <<>> /\ Len(none) = 0
  BY EmptySeq
<1>3. \A s \in Streams : Queue(s) = none
  <2>1. <<>> \o <<>> = <<>>
    BY ConcatEmptySeq, EmptySeq
  <2> QED BY <1>1, <1>2, <2>1 DEF Queue
<1>4. told \in [Users -> Seq(Events)]
  BY <1>1, EmptySeq
<1>5. ASSUME NEW u \in Users PROVE InFileOrder(u)
  <2>1. PICK f \in Seq(Events) : f = file[u]
    BY <1>1
  <2>2. PICK said \in Seq(Events) : said = told[u] /\ Len(said) = 0
    BY <1>1, EmptySeq
  <2>3. Len(f) \in Nat
    BY LenProperties
  <2>4. Begins(said, f) /\ Comes(none, u, f, 0) /\ RestIs(f, f, 0 + Len(none))
    BY <1>2, <2>2, <2>3 DEF Begins, Comes, RestIs
  <2>5. Relayed(none, u, f, 0, 0)
    BY <1>2, RelayedNone
  <2>6. Order(none, none, f, said, f, u, open[Follower], open[u])
    BY <2>2, <2>4, <2>5 DEF Order
  <2>7. Queue(u) = none /\ Queue(Follower) = none /\ unsent[u] = f
    BY <1>1, <1>3, <2>1, FeedAssumption
  <2> QED BY <2>1, <2>2, <2>6, <2>7 DEF InFileOrder
<1> QED BY <1>1, <1>4, <1>5 DEF OrderInv

(* Through two connections and a server thread per reporter, with the other *)
(* reporters' frames in between and connections that break at any byte, a   *)
(* follower is told the events of a reporter's file from the first on, in   *)
(* order and once (SendFrame.act, StompEchoClient's main loop).             *)
THEOREM AlwaysToldInOrder == Spec => []ToldInOrder
<1>1. Init => FeedInv /\ OrderInv
  BY FeedInvInit, OrderInvInit
<1>2. FeedInv /\ OrderInv /\ [Next]_vars => FeedInv' /\ OrderInv'
  BY FeedInvKept, OrderInvKept
<1>3. OrderInv => ToldInOrder
  <2> SUFFICES ASSUME OrderInv, NEW u \in Users PROVE told[u] = SubSeq(file[u], 1, Len(told[u]))
    BY DEF ToldInOrder
  <2>1. PICK f \in Seq(Events) : f = file[u]
    BY DEF OrderInv
  <2>2. PICK said \in Seq(Events) : said = told[u]
    BY DEF OrderInv
  <2>3. PICK z \in Nat : z = Len(said)
    BY LenProperties
  <2>4. z <= Len(f) /\ \A i \in 1 .. z : said[i] = f[i]
    <3>1. Begins(told[u], file[u])
      BY DEF OrderInv, InFileOrder, Order
    <3> QED BY <2>1, <2>2, <2>3, <3>1 DEF Begins
  <2>5. /\ SubSeq(f, 1, z) \in Seq(Events) /\ Len(SubSeq(f, 1, z)) = z
        /\ \A i \in 1 .. z : SubSeq(f, 1, z)[i] = f[i]
    BY <2>4, TakeIs
  <2>6. said = SubSeq(f, 1, z)
    BY <2>3, <2>4, <2>5, SeqEqual
  <2> QED BY <2>1, <2>2, <2>3, <2>6
<1> QED BY <1>1, <1>2, <1>3, PTL DEF Spec
=============================================================================
