--------------------------- MODULE Threads_proofs ---------------------------
(***************************************************************************)
(* Proofs about objects that share what they have with threads of their    *)
(* own: that readsf~ puts out what the file holds, that writesf~ writes    *)
(* what it hears, that whatever connectors, sender threads and Pd's thread *)
(* of tcpclient do in whatever order, each uses only what is there, and    *)
(* that libpd's queue, without a lock, delivers what Pd queued, in order.  *)
(***************************************************************************)
EXTENDS ReadSf, WriteSf, TcpClient, PdQueue, BasicLemmas

-----------------------------------------------------------------------------
(* Whole multiples.                                                        *)

Whole(n, w) == \E q \in Nat : n = q * w

LEMMA WholeSum ==
  ASSUME NEW w \in Nat, NEW a \in Nat, NEW b \in Nat, Whole(a, w), Whole(b, w)
  PROVE  Whole(a + b, w)
<1>1. PICK p \in Nat : a = p * w
  BY DEF Whole
<1>2. PICK q \in Nat : b = q * w
  BY DEF Whole
<1>3. a + b = (p + q) * w /\ p + q \in Nat
  BY <1>1, <1>2
<1> QED
  BY <1>3 DEF Whole

\* Between a and b, if they differ, there is room for w.
LEMMA WholeDifference ==
  ASSUME NEW w \in Nat \ {0}, NEW a \in Nat, NEW b \in Nat, Whole(a, w), Whole(b, w), a < b
  PROVE  a + w <= b /\ Whole(b - a, w)
<1>1. PICK p \in Nat : a = p * w
  BY DEF Whole
<1>2. PICK q \in Nat : b = q * w
  BY DEF Whole
<1>3. q >= p + 1
  <2>1. SUFFICES ASSUME q <= p PROVE FALSE
    OBVIOUS
  <2> QED
    BY <2>1, <1>1, <1>2, MulMono
<1>4. (p + 1) * w <= q * w
  BY <1>3, MulMono
<1>5. (p + 1) * w = p * w + w /\ q * w - p * w = (q - p) * w
  OBVIOUS
<1>6. b - a = (q - p) * w /\ q - p \in Nat
  BY <1>1, <1>2, <1>3, <1>5
<1> QED
  BY <1>1, <1>2, <1>4, <1>5, <1>6 DEF Whole

LEMMA WholeQuotient ==
  ASSUME NEW w \in Nat \ {0}, NEW n \in Nat, Whole(n, w)
  PROVE  n \div w \in Nat /\ (n \div w) * w = n
<1>1. PICK q \in Nat : n = q * w
  BY DEF Whole
<1>2. /\ n \div w \in Int /\ n % w \in 0..(w - 1)
      /\ n = w * (n \div w) + (n % w)
  OBVIOUS
<1> DEFINE d == n \div w
           r == n % w
<1> HIDE DEF d, r
<1>3. d \in Int /\ r \in 0..(w - 1) /\ q * w = w * d + r
  BY <1>1, <1>2 DEF d, r
<1>4. w * (q - d) = r
  BY <1>3
<1>5. q - d <= 0
  <2>1. SUFFICES ASSUME q - d >= 1 PROVE FALSE
    BY <1>3
  <2>2. w * (q - d) >= w
    BY <2>1, <1>3
  <2> QED
    BY <2>2, <1>3, <1>4
<1>6. q - d >= 0
  <2>1. SUFFICES ASSUME q - d <= -1 PROVE FALSE
    BY <1>3
  <2>2. w * (q - d) <= -w
    BY <2>1, <1>3
  <2> QED
    BY <2>2, <1>3, <1>4
<1>7. d = q
  BY <1>3, <1>5, <1>6
<1> QED
  BY <1>1, <1>7 DEF d

LEMMA WholeOfProduct ==
  ASSUME NEW v \in Nat, NEW w \in Nat, NEW n \in Nat, Whole(n, w * v)
  PROVE  Whole(n, w)
<1>1. PICK q \in Nat : n = q * (w * v)
  BY DEF Whole
<1>2. q * (w * v) = (q * v) * w /\ q * v \in Nat
  OBVIOUS
<1> QED
  BY <1>1, <1>2 DEF Whole

LEMMA WholeRemainder ==
  ASSUME NEW w \in Nat \ {0}, NEW n \in Nat
  PROVE  n % w = 0 <=> Whole(n, w)
<1>1. ASSUME n % w = 0 PROVE Whole(n, w)
  <2>1. n \div w \in Nat /\ (n \div w) * w = n
    BY <1>1, DivBounds
  <2> QED
    BY <2>1 DEF Whole
<1>2. ASSUME Whole(n, w) PROVE n % w = 0
  <2>1. (n \div w) * w = n
    BY <1>2, WholeQuotient
  <2>2. /\ n \div w \in Int /\ n % w \in 0..(w - 1)
        /\ n = w * (n \div w) + (n % w)
    OBVIOUS
  <2>3. w * (n \div w) = (n \div w) * w
    BY <2>2
  <2> QED
    BY <2>1, <2>2, <2>3
<1> QED
  BY <1>1, <1>2

LEMMA WholeTransitive ==
  ASSUME NEW d \in Nat, NEW w \in Nat, NEW n \in Nat, Whole(n, w), Whole(w, d)
  PROVE  Whole(n, d)
<1>1. PICK p \in Nat : w = p * d
  BY DEF Whole
<1>2. PICK q \in Nat : n = q * w
  BY DEF Whole
<1>3. q * (p * d) = (q * p) * d /\ q * p \in Nat
  OBVIOUS
<1> QED
  BY <1>1, <1>2, <1>3 DEF Whole

\* What is a multiple of d, at least 2, does not lack one of a multiple of d.
LEMMA WholeLacksNotOne ==
  ASSUME NEW d \in Nat, d >= 2, NEW n \in Nat, Whole(n, d), NEW m \in Nat, Whole(m, d)
  PROVE  n + 1 # m
<1> SUFFICES ASSUME n + 1 = m PROVE FALSE
  OBVIOUS
<1>1. n < m /\ d \in Nat \ {0}
  OBVIOUS
<1>2. n + d <= m
  BY <1>1, WholeDifference
<1> QED
  BY <1>2

\* One more does not make another whole one.
LEMMA WholeAndOne ==
  ASSUME NEW w \in Nat, w >= 2, NEW n \in Nat, Whole(n, w)
  PROVE  ((n + 1) \div w) * w = n
<1>1. PICK q \in Nat : n = q * w
  BY DEF Whole
<1>2. /\ (n + 1) \div w \in Int /\ (n + 1) % w \in 0..(w - 1)
      /\ n + 1 = w * ((n + 1) \div w) + ((n + 1) % w)
  OBVIOUS
<1> DEFINE d == (n + 1) \div w
           r == (n + 1) % w
<1> HIDE DEF d, r
<1>3. d \in Int /\ r \in 0..(w - 1) /\ q * w + 1 = w * d + r
  BY <1>1, <1>2 DEF d, r
<1>4. w * (q - d) = r - 1
  BY <1>3
<1>5. q - d <= 0
  <2>1. SUFFICES ASSUME q - d >= 1 PROVE FALSE
    BY <1>3
  <2>2. w * (q - d) >= w
    BY <2>1, <1>3
  <2> QED
    BY <2>2, <1>3, <1>4
<1>6. q - d >= 0
  <2>1. SUFFICES ASSUME q - d <= -1 PROVE FALSE
    BY <1>3
  <2>2. w * (q - d) <= -w
    BY <2>1, <1>3
  <2> QED
    BY <2>2, <1>3, <1>4
<1>7. d = q
  BY <1>3, <1>5, <1>6
<1> QED
  BY <1>1, <1>7 DEF d

-----------------------------------------------------------------------------
(* A fifo in a buffer.                                                     *)

\* Vector sizes divide each other, so that a smaller one divides what a larger one does.
LEMMA VectorDivides ==
  ASSUME NEW frame \in Nat, NEW v \in VecSizes, NEW w \in VecSizes, v <= w,
         NEW n \in Nat, Whole(n, frame * w)
  PROVE  Whole(n, frame * v)
<1>1. v \in Nat \ {0} /\ w \in Nat \ {0} /\ w % v = 0
  BY SoundfileAssumption
<1> DEFINE d == w \div v
<1>2. d \in Nat /\ w = d * v
  BY <1>1, DivBounds
<1> HIDE DEF d
<1>3. frame * w = d * (frame * v) /\ frame * v \in Nat /\ frame * w \in Nat
  BY <1>1, <1>2
<1>4. Whole(frame * w, frame * v)
  BY <1>2, <1>3 DEF Whole
<1> QED
  BY <1>3, <1>4, WholeTransitive

LEMMA FifoHolds ==
  ASSUME NEW frame \in Nat \ {0}, frame * MAXVECSIZE <= BufSize
  PROVE  /\ FifoSize(frame) \in Nat \ {0} /\ FifoSize(frame) <= BufSize
         /\ \A v \in VecSizes : v <= MAXVECSIZE => Whole(FifoSize(frame), frame * v)
<1> DEFINE m == frame * MAXVECSIZE
           q == BufSize \div m
<1>1. MAXVECSIZE \in Nat \ {0} /\ BufSize \in Nat /\ MAXVECSIZE \in VecSizes /\ m <= BufSize
  BY SoundfileAssumption
<1>2. m \in Nat \ {0}
  BY <1>1
<1>3. /\ q \in Nat /\ q >= 1
      /\ BufSize % m \in 0..(m - 1) /\ BufSize = m * q + (BufSize % m)
  <2> HIDE DEF m
  <2>1. BufSize % m \in 0..(m - 1) /\ BufSize = m * (BufSize \div m) + (BufSize % m)
    BY <1>1, <1>2
  <2> QED
    BY <1>1, <1>2, <2>1, DivBounds
<1>4. FifoSize(frame) = m * q
  BY <1>1, <1>2, <1>3 DEF FifoSize
<1>5. m * q >= m /\ m * q \in Nat /\ m * q = q * m
  <2> HIDE DEF m, q
  <2> QED
    BY <1>2, <1>3
<1>6. FifoSize(frame) \in Nat \ {0} /\ FifoSize(frame) <= BufSize
  <2> HIDE DEF m, q
  <2> QED
    BY <1>1, <1>2, <1>3, <1>4, <1>5
<1>7. Whole(FifoSize(frame), m)
  <2> HIDE DEF m, q
  <2> QED
    BY <1>3, <1>4, <1>5 DEF Whole
<1> QED
  BY <1>1, <1>6, <1>7, VectorDivides

\* What a fifo of s bytes holds from t to h, and the k-th place behind t.
Between(t, h, s) == IF h >= t THEN h - t ELSE h - t + s
After(t, k, s) == IF t + k < s THEN t + k ELSE t + k - s

LEMMA FifoGrows ==
  ASSUME NEW s \in Nat \ {0}, NEW h \in 0..(s - 1), NEW t \in 0..(s - 1), NEW n \in Nat,
         h + n <= s, Between(t, h, s) + n < s
  PROVE  /\ Between(t, h, s) \in Nat
         /\ (h + n) % s = IF h + n < s THEN h + n ELSE 0
         /\ (h + n) % s \in 0..(s - 1)
         /\ Between(t, (h + n) % s, s) = Between(t, h, s) + n
         /\ \A k \in Nat : k < Between(t, h, s) =>
              After(t, k, s) \in 0..(s - 1) /\ After(t, k, s) \notin h..(h + n - 1)
         /\ \A k \in Nat : Between(t, h, s) <= k /\ k < Between(t, h, s) + n =>
              /\ After(t, k, s) = h + (k - Between(t, h, s))
              /\ After(t, k, s) \in 0..(s - 1) /\ After(t, k, s) \in h..(h + n - 1)
<1>1. (h + n) % s = IF h + n < s THEN h + n ELSE h + n - s
  <2>1. h + n \in 0..(2 * s - 1)
    OBVIOUS
  <2> DEFINE a == h + n
  <2>2. a \in 0..(2 * s - 1)
    BY <2>1
  <2> HIDE DEF a
  <2>3. a % s = IF a < s THEN a ELSE a - s
    BY <2>2, ModSmall
  <2> QED
    BY <2>3 DEF a
<1> DEFINE g == (h + n) % s
<1>2. g = IF h + n < s THEN h + n ELSE 0
  BY <1>1
<1> HIDE DEF g
<1>3. CASE h >= t
  <2>1. Between(t, h, s) = h - t
    BY <1>3 DEF Between
  <2>2. Between(t, g, s) = Between(t, h, s) + n
    BY <1>2, <1>3, <2>1 DEF Between
  <2>3. ASSUME NEW k \in Nat, k < h - t
        PROVE  After(t, k, s) \in 0..(s - 1) /\ After(t, k, s) \notin h..(h + n - 1)
    BY <1>3, <2>3 DEF After
  <2>4. ASSUME NEW k \in Nat, h - t <= k, k < h - t + n
        PROVE  /\ After(t, k, s) = h + (k - (h - t))
               /\ After(t, k, s) \in 0..(s - 1) /\ After(t, k, s) \in h..(h + n - 1)
    BY <1>3, <2>4 DEF After
  <2> QED
    BY <1>2, <2>1, <2>2, <2>3, <2>4, <1>3 DEF g
<1>4. CASE h < t
  <2>1. Between(t, h, s) = h - t + s
    BY <1>4 DEF Between
  <2>2. Between(t, g, s) = Between(t, h, s) + n
    BY <1>2, <1>4, <2>1 DEF Between
  <2>3. ASSUME NEW k \in Nat, k < h - t + s
        PROVE  After(t, k, s) \in 0..(s - 1) /\ After(t, k, s) \notin h..(h + n - 1)
    BY <1>4, <2>1, <2>3 DEF After
  <2>4. ASSUME NEW k \in Nat, h - t + s <= k, k < h - t + s + n
        PROVE  /\ After(t, k, s) = h + (k - (h - t + s))
               /\ After(t, k, s) \in 0..(s - 1) /\ After(t, k, s) \in h..(h + n - 1)
    BY <1>4, <2>1, <2>4 DEF After
  <2> QED
    BY <1>2, <2>1, <2>2, <2>3, <2>4, <1>4 DEF g
<1> QED
  BY <1>3, <1>4

\* Taking w bytes at its tail.
LEMMA FifoShrinks ==
  ASSUME NEW s \in Nat \ {0}, NEW h \in 0..(s - 1), NEW t \in 0..(s - 1), NEW w \in Nat \ {0},
         t + w <= s, w <= Between(t, h, s)
  PROVE  LET u == IF t + w >= s THEN 0 ELSE t + w IN
         /\ u \in 0..(s - 1)
         /\ Between(t, h, s) \in Nat
         /\ Between(u, h, s) = Between(t, h, s) - w
         /\ \A k \in Nat : k < Between(t, h, s) - w => After(u, k, s) = After(t, k + w, s)
         /\ \A k \in 0..(w - 1) : After(t, k, s) = t + k
<1> DEFINE u == IF t + w >= s THEN 0 ELSE t + w
<1>1. u \in 0..(s - 1) /\ (u = t + w \/ (u = 0 /\ t + w = s))
  OBVIOUS
<1>2. \A k \in 0..(w - 1) : After(t, k, s) = t + k
  BY DEF After
<1> HIDE DEF u
<1>3. Between(t, h, s) \in Nat /\ Between(u, h, s) = Between(t, h, s) - w
  BY <1>1 DEF Between
<1>4. ASSUME NEW k \in Nat, k < Between(t, h, s) - w
      PROVE  After(u, k, s) = After(t, k + w, s)
  <2>1. k < s - w
    BY <1>4 DEF Between
  <2>2. CASE u = t + w
    BY <1>1, <2>1, <2>2 DEF After
  <2>3. CASE u = 0 /\ t + w = s
    BY <1>1, <2>1, <2>3 DEF After
  <2> QED
    BY <1>1, <2>2, <2>3
<1> QED
  BY <1>1, <1>2, <1>3, <1>4 DEF u

Quitting == parent \in {"freeing", "joining", "freed"}

\* How much the fifo holds, and where.
Held == IF x_fifohead >= x_fifotail THEN x_fifohead - x_fifotail
        ELSE x_fifohead - x_fifotail + x_fifosize
Behind(k) == IF x_fifotail + k < x_fifosize THEN x_fifotail + k ELSE x_fifotail + k - x_fifosize

-----------------------------------------------------------------------------
(* readsf~.                                                                *)

FormatSet == (Nat \ {0, 1}) \X Nat

\* The child is at the file; or is about to open one, or looks for another; what is
\* performed counts.
Feeding == diskthread \in {"stream", "hungry", "reading"}
Fresh == x_requestcode = "open" \/ diskthread = "opening"
Live == x_state # "idle" /\ ~Quitting
Good ==
  /\ x_filename # NoFile /\ x_eof \in {NoFile, x_filename} /\ ~x_fileerror
  /\ FramesAreWhole /\ ~grown /\ ~stale

\* How much the child may read of a file, as it sees it.
Limit(f) == IF HasHeader(f) THEN Files[f].data ELSE Files[f].size + 1

\* A place where reads and blocks of w bytes may end.
Aligned(n, w) == \E p, q \in Nat : n = p * READSIZE + q * w

ReadTypeInv ==
  /\ x_filename \in DOMAIN Files \cup {NoFile}
  /\ x_bytespersample \in Nat \ {0, 1} /\ x_sfchannels \in Nat
  /\ x_vecsize \in VecSizes /\ grown \in BOOLEAN /\ stale \in BOOLEAN /\ ended \in BOOLEAN
  /\ x_eof \in DOMAIN Files \cup {NoFile, NotOpened}
  /\ x_fileerror \in BOOLEAN
  /\ {x_fifosize, x_fifohead, x_fifotail, heard} \subseteq Nat
  /\ DOMAIN x_buf = 0..(BufSize - 1)

\* Where the two threads are, and what they have asked of each other.
ReadRequestInv ==
  /\ x_state \in {"idle", "startup", "stream"}
  /\ x_requestcode \in {"nothing", "open", "busy", "close", "quit"}
  /\ parent \in {"idle", "called", "performing", "freeing", "joining", "freed"}
  /\ diskthread \in
       {"top", "waiting", "opening", "stream", "hungry", "reading", "lost", "closing", "exited"}
  /\ diskthread = "opening" => doing.file \in DOMAIN Files /\ doing.format \in FormatSet
  /\ parent = "called" => mine \in FormatSet
  /\ parent \in {"called", "performing"} => x_state = "stream"
  /\ x_requestcode = "close" => x_state = "idle"
  /\ x_requestcode = "quit" => Quitting
  /\ Quitting => x_requestcode \in {"quit", "nothing"}
  /\ x_requestcode \in {"open", "busy"} \/ x_state # "idle" => x_filename # NoFile
  /\ x_requestcode = "busy" => diskthread = "opening" \/ Feeding \/ diskthread = "lost"
  /\ x_requestcode = "nothing" => diskthread \in {"top", "waiting", "closing", "exited"}
  /\ x_requestcode = "busy" /\ diskthread = "opening" => doing.file = x_filename
  /\ grown \/ Quitting \/ x_vecsize <= MAXVECSIZE

\* Before the file is open nothing has been put out.
FreshInv ==
  /\ Fresh =>
       /\ x_filename # NoFile /\ x_eof \in {NoFile, NotOpened}
       /\ heard = 0 /\ output = <<>> /\ x_fifohead = 0 /\ x_fifotail = 0
  /\ ended => x_eof # NoFile /\ x_state = "idle"

\* The child feeds the fifo with the file.
FeedInv ==
  x_requestcode = "busy" /\ Feeding =>
    /\ x_eof \in {NoFile, NotOpened}
    /\ x_filedes = [file |-> x_filename, at |-> x_filedes.at]
    /\ x_filedes.at \in 0..DataOf(x_filename)
    /\ x_bytelimit = Limit(x_filename) - x_filedes.at
    /\ x_fifosize = FifoSize(x_bytesperframe)
    /\ IF x_fifosize = 0 THEN x_fifohead = 0 /\ x_fifotail = 0
       ELSE x_fifohead < x_fifosize /\ x_fifotail < x_fifosize

\* What has been read is put out or in the fifo behind it.
HasRead == IF x_eof = NoFile THEN x_filedes.at ELSE DataOf(x_filename)

PlayedIsRead ==
  /\ x_fifosize = FifoSize(x_bytesperframe)
  /\ x_fifohead < x_fifosize /\ x_fifotail < x_fifosize
  /\ Whole(x_fifotail, WantBytes) /\ Whole(heard, WantBytes)
  /\ heard + Held = HasRead
  /\ \A k \in 0..(Held - 1) : x_buf[Behind(k)] = <<x_filename, heard + k>>
  /\ Aligned(HasRead, WantBytes) \/ HasRead = DataOf(x_filename)

ReadFifoInv ==
  Live /\ Good /\ ~Fresh =>
    /\ x_eof = NoFile => x_requestcode = "busy" /\ Feeding
    /\ PlayedIsRead

\* What the child reads now has room.
ReadingInv ==
  x_requestcode = "busy" /\ diskthread = "reading" =>
    /\ doing.file = x_filename /\ x_eof = NoFile
    /\ doing.to = x_fifohead /\ x_fifosize # 0
    /\ doing.want \in 0..x_bytelimit /\ (doing.want = 0 => x_bytelimit = 0)
    /\ x_fifohead + doing.want <= x_fifosize
    /\ Live /\ Good =>
         /\ Held + doing.want < x_fifosize
         /\ Aligned(x_filedes.at + doing.want, WantBytes) \/ doing.want = x_bytelimit

OutputInv ==
  Good =>
    /\ \A i \in DOMAIN output : output[i] = <<x_filename, heard - Len(output) + i - 1>>
    /\ ended => heard = DataOf(x_filename)

ReadInv ==
  /\ ReadTypeInv /\ ReadRequestInv
  /\ FreshInv /\ FeedInv /\ ReadFifoInv /\ ReadingInv /\ OutputInv

LEMMA FileFacts ==
  /\ NoFile \notin DOMAIN Files /\ NotOpened \notin DOMAIN Files /\ NoFile # NotOpened
  /\ \A f \in DOMAIN Files :
       /\ Files[f].formats \subseteq FormatSet
       /\ Files[f].data \in Nat /\ Files[f].size \in Nat /\ Files[f].data <= Files[f].size
       /\ DataOf(f) \in Nat /\ DataOf(f) <= Files[f].size /\ Limit(f) \in Nat
       /\ \/ Limit(f) = DataOf(f)
          \/ Limit(f) = Files[f].size + 1 /\ DataOf(f) = Files[f].size
<1>1. \A f \in DOMAIN Files :
        /\ Files[f].formats \subseteq FormatSet
        /\ Files[f].data \in Nat /\ Files[f].size \in Nat /\ Files[f].data <= Files[f].size
  BY ReadSfAssumption DEF FormatSet
<1>2. ASSUME NEW f \in DOMAIN Files
      PROVE  /\ DataOf(f) \in Nat /\ DataOf(f) <= Files[f].size /\ Limit(f) \in Nat
             /\ \/ Limit(f) = DataOf(f)
                \/ Limit(f) = Files[f].size + 1 /\ DataOf(f) = Files[f].size
  BY <1>1 DEF DataOf, Limit
<1>3. NoFile # NotOpened
  BY DEF NoFile, NotOpened
<1> QED
  BY <1>1, <1>2, <1>3, ReadSfAssumption

LEMMA SizeFacts ==
  /\ READSIZE \in Nat \ {0} /\ BufSize \in Nat /\ MAXVECSIZE \in Nat \ {0} /\ MAXVECSIZE \in VecSizes
  /\ VecSizes \subseteq Nat \ {0}
  BY SoundfileAssumption

\* A frame, and a vector of frames, have no byte or at least two.
LEMMA FormatIsOne ==
  ASSUME NEW format \in FormatSet
  PROVE  /\ Frame(format) \in Nat \ {1}
         /\ \A v \in VecSizes :
              /\ Frame(format) * v \in Nat \ {1}
              /\ Frame(format) # 0 => Frame(format) * v # 0
<1>1. /\ format[1] \in Nat /\ format[1] >= 2 /\ format[2] \in Nat
  BY DEF FormatSet
<1> DEFINE a == format[1]
           c == format[2]
<1>2. a \in Nat /\ a >= 2 /\ c \in Nat /\ Frame(format) = a * c
  BY <1>1 DEF Frame
<1> HIDE DEF a, c
<1>3. a * c \in Nat /\ (c # 0 => a * c >= 2) /\ (c = 0 => a * c = 0)
  BY <1>2
<1>4. ASSUME NEW n \in Nat, n = 0 \/ n >= 2, NEW v \in VecSizes
      PROVE  n * v \in Nat /\ n * v # 1 /\ (n # 0 => n * v # 0)
  <2>1. v \in Nat /\ v >= 1
    BY SizeFacts
  <2>2. n * v \in Nat /\ (n = 0 => n * v = 0) /\ (n >= 2 => n * v >= 2)
    BY <1>4, <2>1
  <2> QED
    BY <1>4, <2>2
<1>5. Frame(format) \in Nat /\ (Frame(format) = 0 \/ Frame(format) >= 2)
  BY <1>2, <1>3
<1> QED
  BY <1>4, <1>5

LEMMA FifoSizeIsNat ==
  ASSUME NEW frame \in Nat
  PROVE  FifoSize(frame) \in Nat
<1>1. CASE frame = 0
  BY <1>1 DEF FifoSize
<1>2. CASE frame # 0
  <2> DEFINE m == frame * MAXVECSIZE
  <2>1. m \in Nat \ {0} /\ BufSize \in Nat
    BY <1>2, SizeFacts
  <2>2. FifoSize(frame) = BufSize - (BufSize % m)
    BY <1>2 DEF FifoSize
  <2> HIDE DEF m
  <2>3. BufSize % m \in 0..(m - 1) /\ BufSize = m * (BufSize \div m) + (BufSize % m)
    BY <2>1
  <2>4. BufSize \div m \in Nat /\ (BufSize \div m) * m <= BufSize
    BY <2>1, DivBounds
  <2>5. BufSize - (BufSize % m) = m * (BufSize \div m) /\ m * (BufSize \div m) \in Nat
    BY <2>1, <2>3, <2>4
  <2> QED
    BY <2>2, <2>5
<1> QED
  BY <1>1, <1>2

LEMMA WantFacts ==
  ASSUME ReadTypeInv
  PROVE  /\ formatvars \in FormatSet
         /\ x_bytesperframe \in Nat \ {1} /\ WantBytes \in Nat \ {1}
         /\ x_bytesperframe # 0 => WantBytes # 0 /\ Whole(WantBytes, x_bytesperframe)
<1>1. formatvars \in FormatSet /\ x_vecsize \in VecSizes /\ x_vecsize \in Nat
  BY SizeFacts DEF ReadTypeInv, formatvars, FormatSet
<1>2. /\ x_bytesperframe \in Nat \ {1} /\ WantBytes \in Nat \ {1}
      /\ x_bytesperframe # 0 => WantBytes # 0
  BY <1>1, FormatIsOne DEF x_bytesperframe, WantBytes
<1>3. Whole(WantBytes, x_bytesperframe)
  <2>1. WantBytes = x_vecsize * x_bytesperframe
    BY <1>1, <1>2 DEF WantBytes
  <2> QED
    BY <1>1, <2>1 DEF Whole
<1> QED
  BY <1>1, <1>2, <1>3

\* The fifo of frames that are whole.
LEMMA ReadFifoHolds ==
  ASSUME ReadTypeInv, ReadRequestInv, Good, ~Quitting
  PROVE  /\ x_filename \in DOMAIN Files
         /\ x_bytesperframe \in Nat \ {0, 1} /\ WantBytes \in Nat \ {0, 1}
         /\ Whole(WantBytes, x_bytesperframe)
         /\ FifoSize(x_bytesperframe) \in Nat \ {0} /\ FifoSize(x_bytesperframe) <= BufSize
         /\ Whole(FifoSize(x_bytesperframe), WantBytes)
         /\ Whole(DataOf(x_filename), x_bytesperframe)
<1>1. /\ x_bytesperframe # 0 /\ x_bytesperframe * MAXVECSIZE <= BufSize
      /\ DataOf(x_filename) % x_bytesperframe = 0 /\ ~grown /\ x_filename \in DOMAIN Files
  BY DEF Good, FramesAreWhole, ReadTypeInv
<1>2. x_vecsize \in VecSizes /\ x_vecsize <= MAXVECSIZE
  BY <1>1 DEF ReadTypeInv, ReadRequestInv
<1>3. /\ x_bytesperframe \in Nat \ {0, 1} /\ WantBytes \in Nat \ {0, 1}
      /\ Whole(WantBytes, x_bytesperframe)
  BY <1>1, WantFacts
<1>4. /\ FifoSize(x_bytesperframe) \in Nat \ {0} /\ FifoSize(x_bytesperframe) <= BufSize
      /\ Whole(FifoSize(x_bytesperframe), x_bytesperframe * x_vecsize)
  BY <1>1, <1>2, <1>3, FifoHolds
<1>5. DataOf(x_filename) \in Nat
  BY <1>1, FileFacts
<1> QED
  BY <1>1, <1>3, <1>4, <1>5, WholeRemainder DEF WantBytes

\* Also of smaller vectors.
LEMMA AlignedSmaller ==
  ASSUME NEW n \in Nat, NEW w \in Nat, NEW v \in Nat, Aligned(n, w), Whole(w, v)
  PROVE  Aligned(n, v)
<1>1. PICK p, q \in Nat : n = p * READSIZE + q * w
  BY DEF Aligned
<1>2. PICK d \in Nat : w = d * v
  BY DEF Whole
<1>3. q * w = (q * d) * v /\ q * d \in Nat
  BY <1>2
<1>4. n = p * READSIZE + (q * d) * v
  BY <1>1, <1>3
<1> QED
  BY <1>3, <1>4 DEF Aligned

LEMMA AlignedIsWhole ==
  ASSUME NEW n \in Nat, NEW w \in Nat, Aligned(n, w), NEW d \in Nat, Whole(READSIZE, d), Whole(w, d)
  PROVE  Whole(n, d)
<1>1. PICK p, q \in Nat : n = p * READSIZE + q * w
  BY DEF Aligned
<1>2. PICK a \in Nat : READSIZE = a * d
  BY DEF Whole
<1>3. PICK b \in Nat : w = b * d
  BY DEF Whole
<1>4. p * READSIZE = (p * a) * d /\ q * w = (q * b) * d /\ p * a \in Nat /\ q * b \in Nat
  BY <1>2, <1>3
<1>5. (p * a) * d + (q * b) * d = (p * a + q * b) * d /\ p * a + q * b \in Nat
  BY <1>4
<1> QED
  BY <1>1, <1>4, <1>5 DEF Whole

LEMMA SameFrames ==
  ASSUME UNCHANGED <<x_filename, formatvars, x_vecsize>>
  PROVE  /\ x_bytesperframe' = x_bytesperframe /\ WantBytes' = WantBytes
         /\ FramesAreWhole' = FramesAreWhole
<1>1. x_bytesperframe' = x_bytesperframe
  BY DEF x_bytesperframe, Frame, formatvars
<1>2. WantBytes' = WantBytes
  BY <1>1 DEF WantBytes
<1> QED
  BY <1>1, <1>2 DEF FramesAreWhole

\* What a step leaves alone.
readchange == <<filevars, fifovars, vecvars, x_bytelimit, heardvars>>

LEMMA SameRead ==
  ASSUME UNCHANGED readchange
  PROVE  /\ Held' = Held /\ x_bytesperframe' = x_bytesperframe /\ WantBytes' = WantBytes
         /\ HasRead' = HasRead /\ PlayedIsRead' = PlayedIsRead /\ Good' = Good
         /\ ReadTypeInv' = ReadTypeInv
<1>1. UNCHANGED <<x_filename, formatvars, x_bytespersample, x_sfchannels, x_fileerror, x_filedes, x_eof,
                  x_fifosize, x_fifohead, x_fifotail, x_buf, x_vecsize, grown, x_bytelimit,
                  output, heard, ended, stale>>
  BY DEF readchange, filevars, formatvars, fifovars, vecvars, heardvars
<1>2. /\ x_bytesperframe' = x_bytesperframe /\ WantBytes' = WantBytes
      /\ FramesAreWhole' = FramesAreWhole
  BY <1>1, SameFrames
<1>3. Held' = Held /\ HasRead' = HasRead
  BY <1>1 DEF Held, HasRead
<1>4. Good' = Good
  BY <1>1, <1>2 DEF Good
<1>5. PlayedIsRead' = PlayedIsRead
  BY <1>1, <1>2, <1>3 DEF PlayedIsRead, Behind
<1>6. ReadTypeInv' = ReadTypeInv
  BY <1>1 DEF ReadTypeInv
<1> QED
  BY <1>2, <1>3, <1>4, <1>5, <1>6

\* A step that leaves the file and the fifo alone, and the child at the same file.
ReadQuiet ==
  /\ UNCHANGED readchange
  /\ Fresh' => Fresh
  /\ ended => UNCHANGED x_state
  /\ x_requestcode' = "busy" /\ Feeding' =>
       /\ x_requestcode = "busy" /\ Feeding
       /\ diskthread' = "reading" => diskthread = "reading" /\ UNCHANGED doing
  /\ Live' =>
       /\ Live /\ (Fresh => Fresh')
       /\ x_requestcode = "busy" /\ Feeding /\ x_eof = NoFile => x_requestcode' = "busy" /\ Feeding'

LEMMA ReadQuietStep == ReadInv /\ ReadQuiet /\ ReadRequestInv' => ReadInv'
<1> SUFFICES ASSUME ReadInv, ReadQuiet, ReadRequestInv' PROVE ReadInv'
  OBVIOUS
<1>1. /\ Held' = Held /\ x_bytesperframe' = x_bytesperframe /\ WantBytes' = WantBytes
      /\ HasRead' = HasRead /\ PlayedIsRead' = PlayedIsRead /\ Good' = Good
      /\ ReadTypeInv'
  BY SameRead DEF ReadQuiet, ReadInv
<1>2. UNCHANGED <<x_filename, x_filedes, x_eof, x_fifosize, x_fifohead, x_fifotail, x_bytelimit,
                  output, heard, ended>>
  BY DEF ReadQuiet, readchange, filevars, fifovars, heardvars
<1>3. FreshInv'
  BY <1>2 DEF ReadQuiet, ReadInv, FreshInv
<1>4. FeedInv'
  BY <1>1, <1>2 DEF ReadQuiet, ReadInv, FeedInv
<1>5. ReadFifoInv'
  BY <1>1, <1>2 DEF ReadQuiet, ReadInv, ReadFifoInv
<1>6. ReadingInv'
  BY <1>1, <1>2 DEF ReadQuiet, ReadInv, ReadingInv, Feeding
<1>7. OutputInv'
  BY <1>1, <1>2 DEF ReadInv, OutputInv
<1> QED
  BY <1>1, <1>3, <1>4, <1>5, <1>6, <1>7 DEF ReadInv

\* Whatever is found after open, nothing has been put out yet.
LEMMA SilentOutput ==
  ASSUME output' = <<>>, heard' = 0, x_eof' \in {NoFile, NotOpened}, ended' => x_eof' # NoFile,
         x_filename' \in DOMAIN Files
  PROVE  OutputInv'
<1>1. DOMAIN output' = {}
  OBVIOUS
<1>2. Good' => ~ended'
  BY FileFacts DEF Good
<1> QED
  BY <1>1, <1>2 DEF OutputInv

LEMMA AlignedMore ==
  ASSUME NEW n \in Nat, NEW w \in Nat
  PROVE  /\ Aligned(n, w) => Aligned(n + READSIZE, w)
         /\ Whole(n, w) => Aligned(n, w)
<1>1. ASSUME Aligned(n, w) PROVE Aligned(n + READSIZE, w)
  <2>1. PICK p, q \in Nat : n = p * READSIZE + q * w
    BY <1>1 DEF Aligned
  <2>2. (p + 1) * READSIZE = p * READSIZE + READSIZE /\ READSIZE \in Nat /\ p + 1 \in Nat
    BY SizeFacts
  <2>3. p * READSIZE \in Nat /\ q * w \in Nat
    BY <2>2
  <2>4. n + READSIZE = (p + 1) * READSIZE + q * w
    BY <2>1, <2>2, <2>3
  <2> QED
    BY <2>2, <2>4 DEF Aligned
<1>2. ASSUME Whole(n, w) PROVE Aligned(n, w)
  <2>1. PICK q \in Nat : n = q * w
    BY <1>2 DEF Whole
  <2>2. n = 0 * READSIZE + q * w
    BY <2>1, SizeFacts
  <2> QED
    BY <2>2 DEF Aligned
<1> QED
  BY <1>1, <1>2

\* What the child reads fits in, and does not fill the buffer.
LEMMA RoomProperties ==
  ASSUME x_fifosize \in Nat, x_fifohead \in Nat, x_fifotail \in Nat,
         x_fifohead < x_fifosize, x_fifotail < x_fifosize, Room # 0
  PROVE  /\ Room \in Nat \ {0}
         /\ x_fifohead + Room <= x_fifosize /\ Held + Room < x_fifosize
         /\ Room = READSIZE \/ (Room = x_fifosize - x_fifohead /\ x_fifohead >= x_fifotail)
<1>1. READSIZE \in Nat \ {0}
  BY SizeFacts
<1>2. CASE x_fifohead >= x_fifotail
  <2>1. /\ x_fifotail # 0 \/ x_fifosize - x_fifohead > READSIZE
        /\ Room = IF x_fifosize - x_fifohead < READSIZE THEN x_fifosize - x_fifohead ELSE READSIZE
        /\ Held = x_fifohead - x_fifotail
    BY <1>2 DEF Room, Lesser, Held
  <2> QED
    BY <1>1, <1>2, <2>1
<1>3. CASE x_fifohead < x_fifotail
  <2>1. /\ Room = READSIZE /\ x_fifotail - x_fifohead - 1 >= READSIZE
        /\ Held = x_fifohead - x_fifotail + x_fifosize
    BY <1>3 DEF Room, Held
  <2> QED
    BY <1>1, <1>3, <2>1
<1> QED
  BY <1>2, <1>3

LEMMA BeginReadStep == ReadInv /\ BeginRead => ReadInv'
<1> SUFFICES ASSUME ReadInv, BeginRead PROVE ReadInv'
  OBVIOUS
<1> DEFINE want == Lesser(Room, x_bytelimit)
           at == x_filedes.at
<1>1. /\ UNCHANGED readchange /\ UNCHANGED <<x_state, x_requestcode, parent, mine>>
      /\ diskthread = "stream" /\ diskthread' = "reading"
      /\ x_requestcode = "busy" /\ x_eof = NoFile /\ Room # 0
      /\ doing' = [file |-> x_filedes.file, want |-> want, to |-> x_fifohead]
  BY DEF BeginRead, Feeds, readchange, tickvars
<1>2. UNCHANGED <<x_filename, x_filedes, x_eof, x_fifosize, x_fifohead, x_fifotail, x_bytelimit,
                  output, heard, ended, x_vecsize, grown>>
  BY <1>1 DEF readchange, filevars, fifovars, heardvars, vecvars
<1>3. /\ Held' = Held /\ x_bytesperframe' = x_bytesperframe /\ WantBytes' = WantBytes
      /\ HasRead' = HasRead /\ PlayedIsRead' = PlayedIsRead /\ Good' = Good
      /\ ReadTypeInv'
  BY <1>1, SameRead DEF ReadInv
<1>4. Live' = Live /\ (Fresh' <=> Fresh) /\ (Quitting' <=> Quitting) /\ Feeding /\ Feeding' /\ ~Fresh
  BY <1>1 DEF Live, Fresh, Quitting, Feeding
<1>5. /\ x_filename \in DOMAIN Files
      /\ x_fifosize \in Nat /\ x_fifohead \in Nat /\ x_fifotail \in Nat /\ heard \in Nat
  BY <1>1 DEF ReadInv, ReadTypeInv, ReadRequestInv
<1>6. /\ x_filedes.file = x_filename /\ at \in 0..DataOf(x_filename)
      /\ x_bytelimit = Limit(x_filename) - at /\ x_fifosize = FifoSize(x_bytesperframe)
      /\ IF x_fifosize = 0 THEN x_fifohead = 0 /\ x_fifotail = 0
         ELSE x_fifohead < x_fifosize /\ x_fifotail < x_fifosize
  <2>1. /\ x_filedes = [file |-> x_filename, at |-> x_filedes.at]
        /\ at \in 0..DataOf(x_filename)
        /\ x_bytelimit = Limit(x_filename) - at /\ x_fifosize = FifoSize(x_bytesperframe)
        /\ IF x_fifosize = 0 THEN x_fifohead = 0 /\ x_fifotail = 0
           ELSE x_fifohead < x_fifosize /\ x_fifotail < x_fifosize
    BY <1>1, <1>4 DEF ReadInv, FeedInv
  <2>2. x_filedes.file = x_filename
    <3>1. x_filedes = [file |-> x_filename, at |-> x_filedes.at]
      BY <2>1
    <3> QED
      BY <3>1
  <2> QED
    BY <2>1, <2>2
<1>7. x_fifosize # 0 /\ x_fifohead < x_fifosize /\ x_fifotail < x_fifosize
  <2>1. x_fifosize = 0 => Room = 0
    BY <1>6, SizeFacts DEF Room
  <2> QED
    BY <1>1, <1>6, <2>1
<1>8. /\ DataOf(x_filename) \in Nat /\ Limit(x_filename) \in Nat
      /\ DataOf(x_filename) <= Limit(x_filename)
      /\ Limit(x_filename) = DataOf(x_filename) \/ Limit(x_filename) = DataOf(x_filename) + 1
  BY <1>5, FileFacts
<1>9. /\ Room \in Nat \ {0}
      /\ x_fifohead + Room <= x_fifosize /\ Held + Room < x_fifosize
      /\ Room = READSIZE \/ (Room = x_fifosize - x_fifohead /\ x_fifohead >= x_fifotail)
  BY <1>1, <1>5, <1>7, RoomProperties
<1>10. /\ x_bytelimit \in Nat /\ want \in 0..x_bytelimit /\ (want = 0 => x_bytelimit = 0)
       /\ want <= Room /\ (want = Room \/ want = x_bytelimit)
  BY <1>6, <1>8, <1>9 DEF Lesser
<1>11. ReadRequestInv'
  BY <1>1, <1>2, <1>4 DEF ReadInv, ReadRequestInv, Feeding
<1>12. FreshInv' /\ FeedInv'
  BY <1>1, <1>2, <1>3, <1>4 DEF ReadInv, FreshInv, FeedInv
<1>13. ReadFifoInv'
  BY <1>1, <1>2, <1>3, <1>4 DEF ReadInv, ReadFifoInv
<1>14. ASSUME Live, Good, want # x_bytelimit
       PROVE  Aligned(at + want, WantBytes)
  <2>1. PlayedIsRead /\ HasRead = at /\ want = Room
    BY <1>1, <1>4, <1>10, <1>14 DEF ReadInv, ReadFifoInv, HasRead
  <2>2. at # DataOf(x_filename)
    <3>1. SUFFICES ASSUME at = DataOf(x_filename) PROVE FALSE
      OBVIOUS
    <3>2. x_bytelimit = 0 \/ x_bytelimit = 1
      BY <1>6, <1>8, <3>1
    <3> QED
      BY <1>9, <1>10, <1>14, <2>1, <3>2
  <2>3. Aligned(at, WantBytes)
    BY <2>1, <2>2 DEF PlayedIsRead
  <2>4. WantBytes \in Nat \ {0, 1} /\ Whole(x_fifosize, WantBytes)
    BY <1>6, <1>14, ReadFifoHolds DEF ReadInv, Live
  <2>5. at \in Nat
    BY <1>6, <1>8
  <2>6. CASE Room = READSIZE
    BY <2>1, <2>3, <2>4, <2>5, <2>6, AlignedMore
  <2>7. CASE Room = x_fifosize - x_fifohead /\ x_fifohead >= x_fifotail
    <3>1. heard + (x_fifohead - x_fifotail) = at
      BY <2>1, <2>7 DEF PlayedIsRead, Held
    <3>2. at + Room = heard + (x_fifosize - x_fifotail)
      BY <1>5, <2>5, <2>7, <3>1
    <3>3. Whole(x_fifosize - x_fifotail, WantBytes) /\ Whole(heard, WantBytes)
      BY <1>5, <1>7, <2>1, <2>4, WholeDifference DEF PlayedIsRead
    <3>4. x_fifosize - x_fifotail \in Nat /\ heard + (x_fifosize - x_fifotail) \in Nat
      BY <1>5, <1>7
    <3>5. Whole(heard + (x_fifosize - x_fifotail), WantBytes)
      BY <1>5, <2>4, <3>3, <3>4, WholeSum
    <3> QED
      BY <2>1, <2>4, <3>2, <3>4, <3>5, AlignedMore
  <2> QED
    BY <1>9, <2>6, <2>7
<1>15. ReadingInv'
  <2>1. /\ doing'.file = x_filename' /\ doing'.want = want /\ doing'.to = x_fifohead'
        /\ x_bytelimit' = x_bytelimit /\ x_filedes' = x_filedes /\ x_fifosize' = x_fifosize
        /\ x_fifohead' = x_fifohead /\ x_eof' = NoFile
    BY <1>1, <1>2, <1>6
  <2>2. x_fifohead + want <= x_fifosize /\ Held + want < x_fifosize
    <3>1. Held \in Int
      BY <1>5 DEF Held
    <3> HIDE DEF want
    <3> QED
      BY <1>5, <1>9, <1>10, <3>1
  <2>3. Live /\ Good => Aligned(at + want, WantBytes) \/ want = x_bytelimit
    BY <1>14
  <2>4. x_filedes'.at = at
    BY <2>1
  <2> HIDE DEF want, at
  <2> QED
    BY <1>3, <1>4, <1>7, <1>10, <2>1, <2>2, <2>3, <2>4 DEF ReadingInv
<1>16. OutputInv'
  BY <1>2, <1>3 DEF ReadInv, OutputInv
<1> QED
  BY <1>3, <1>11, <1>12, <1>13, <1>15, <1>16 DEF ReadInv

LEMMA ReadBytesStep == ReadInv /\ ReadBytes => ReadInv'
<1> SUFFICES ASSUME ReadInv, ReadBytes PROVE ReadInv'
  OBVIOUS
<1> DEFINE at == x_filedes.at
           n == Lesser(doing.want, Files[doing.file].size - at)
<1>1. /\ diskthread = "reading"
      /\ x_buf' = [k \in DOMAIN x_buf |->
                    IF k \in doing.to..(doing.to + n - 1)
                    THEN <<doing.file, at + k - doing.to>> ELSE x_buf[k]]
      /\ x_filedes' = [x_filedes EXCEPT !.at = @ + n]
      /\ UNCHANGED <<x_state, x_requestcode, x_filename, x_bytespersample, x_sfchannels, x_fifosize,
                     x_fifotail, parent, mine, x_vecsize, grown, output, heard, ended, stale>>
  BY DEF ReadBytes, formatvars, tickvars, vecvars, heardvars
<1>2. DOMAIN x_buf' = DOMAIN x_buf
  BY <1>1
<1>3. /\ Live' = Live /\ x_bytesperframe' = x_bytesperframe /\ WantBytes' = WantBytes
      /\ FramesAreWhole' = FramesAreWhole /\ (Quitting' <=> Quitting)
  BY <1>1, SameFrames DEF Live, Quitting, formatvars
<1>4. ASSUME x_requestcode # "busy" PROVE ReadInv'
  <2>1. diskthread' = "lost" /\ UNCHANGED <<x_fifohead, x_bytelimit, x_eof, x_fileerror, asleep>>
    BY <1>4 DEF ReadBytes, TakesBytes
  <2>2. ReadTypeInv'
    BY <1>1, <1>2, <2>1 DEF ReadInv, ReadTypeInv
  <2>3. ReadRequestInv'
    BY <1>1, <1>3, <1>4, <2>1 DEF ReadInv, ReadRequestInv, Feeding
  <2>4. FreshInv'
    BY <1>1, <1>4, <2>1 DEF ReadInv, FreshInv, Fresh
  <2>5. Fresh' \/ ~Live'
    BY <1>1, <1>4 DEF ReadInv, ReadRequestInv, Fresh, Live, Quitting
  <2>6. FeedInv' /\ ReadFifoInv' /\ ReadingInv'
    BY <1>1, <1>4, <2>1, <2>5 DEF FeedInv, ReadFifoInv, ReadingInv
  <2>7. Good' = Good
    BY <1>1, <1>3, <2>1 DEF Good
  <2>8. OutputInv'
    BY <1>1, <2>7 DEF ReadInv, OutputInv
  <2> QED
    BY <2>2, <2>3, <2>4, <2>6, <2>8 DEF ReadInv
<1>5. ASSUME x_requestcode = "busy" PROVE ReadInv'
  <2>1. /\ x_filename \in DOMAIN Files /\ x_filename # NoFile
        /\ {x_fifosize, x_fifohead, x_fifotail, heard} \subseteq Nat
        /\ DOMAIN x_buf = 0..(BufSize - 1) /\ x_fileerror \in BOOLEAN
    BY <1>5, FileFacts DEF ReadInv, ReadTypeInv, ReadRequestInv
  <2>2. /\ doing.file = x_filename /\ x_eof = NoFile /\ doing.to = x_fifohead /\ x_fifosize # 0
        /\ doing.want \in 0..x_bytelimit /\ (doing.want = 0 => x_bytelimit = 0)
        /\ x_fifohead + doing.want <= x_fifosize
    BY <1>1, <1>5 DEF ReadInv, ReadingInv
  <2>3. /\ at \in 0..DataOf(x_filename)
        /\ x_filedes = [file |-> x_filename, at |-> at]
        /\ x_bytelimit = Limit(x_filename) - at /\ x_fifosize = FifoSize(x_bytesperframe)
        /\ x_fifohead < x_fifosize /\ x_fifotail < x_fifosize
    BY <1>1, <1>5, <2>2 DEF ReadInv, FeedInv, Feeding
  <2> DEFINE f == x_filename
             size == Files[f].size
             want == doing.want
  <2>4. /\ DataOf(f) \in Nat /\ size \in Nat /\ DataOf(f) <= size /\ Limit(f) \in Nat
        /\ \/ Limit(f) = DataOf(f)
           \/ Limit(f) = size + 1 /\ DataOf(f) = size
    BY <2>1, FileFacts
  <2>5. /\ n = IF want < size - at THEN want ELSE size - at
        /\ n \in 0..want /\ n \in Nat /\ at \in Nat /\ want \in Nat /\ x_bytelimit \in Nat
    BY <2>2, <2>3, <2>4 DEF Lesser
  <2>6. x_filedes' = [file |-> f, at |-> at + n] /\ x_filedes'.at = at + n
    <3>1. x_filedes = [file |-> f, at |-> at] /\ x_filedes' = [x_filedes EXCEPT !.at = @ + n]
      BY <1>1, <2>3
    <3> HIDE DEF n
    <3> QED
      BY <3>1
  <2>7. UNCHANGED x_fileerror /\ x_eof' \in {NoFile, f} /\ ended = FALSE
    <3>1. ended \in BOOLEAN /\ ~ended
      BY <2>2 DEF ReadInv, FreshInv, ReadTypeInv
    <3> QED
      BY <1>5, <2>2, <3>1 DEF ReadBytes, TakesBytes
  <2>8. Good' => Good
    BY <1>1, <1>3, <2>2, <2>7 DEF Good
  <2>9. \* What it wants ends at the end of the data, if anywhere.
        /\ x_bytelimit - n <= 0 <=> (Limit(f) = DataOf(f) /\ at + n = DataOf(f))
        /\ n = 0 => at = DataOf(f)
        /\ x_bytelimit - n > 0 => at + n <= DataOf(f)
        /\ n # want => at + n = DataOf(f)
        /\ n = want /\ want = x_bytelimit => at + n = DataOf(f)
    <3>1. /\ x_bytelimit = Limit(f) - at /\ at <= DataOf(f) /\ want <= x_bytelimit
          /\ (want = 0 => x_bytelimit = 0)
      BY <2>2, <2>3
    <3> HIDE DEF n, at, want, size, f
    <3> QED
      BY <2>4, <2>5, <3>1
  <2>10. diskthread' \in {"stream", "lost"} /\ ~Fresh' /\ ~Fresh
    BY <1>1, <1>5 DEF ReadBytes, TakesBytes, Fresh
  <2>11. /\ n # 0 => x_fifohead' = IF x_fifohead + n = x_fifosize THEN 0 ELSE x_fifohead + n
         /\ n = 0 => x_fifohead' = x_fifohead
         /\ x_eof' = NoFile => n # 0 /\ x_bytelimit' = x_bytelimit - n /\ x_bytelimit' > 0 /\ diskthread' = "stream"
         /\ diskthread' = "stream" => x_eof' = NoFile
         /\ x_eof' # NoFile => at + n = DataOf(f)
    <3>1. CASE n = 0
      <4>1. x_eof' = f /\ diskthread' = "lost" /\ UNCHANGED x_fifohead
        BY <1>5, <2>2, <2>5, <3>1 DEF ReadBytes
      <4> QED
        BY <2>1, <2>5, <2>9, <3>1, <4>1
    <3>2. CASE n # 0
      <4>1. TakesBytes(n)
        BY <1>5, <2>5, <3>2 DEF ReadBytes
      <4>2. /\ x_fifohead' = IF x_fifohead + n = x_fifosize THEN 0 ELSE x_fifohead + n
            /\ x_bytelimit' = x_bytelimit - n
        BY <2>2, <4>1 DEF TakesBytes
      <4>3. CASE x_bytelimit' <= 0
        <5>1. x_eof' = f /\ diskthread' = "lost"
          BY <2>2, <4>1, <4>3 DEF TakesBytes
        <5> QED
          BY <2>1, <2>9, <3>2, <4>2, <4>3, <5>1
      <4>4. CASE ~(x_bytelimit' <= 0)
        <5>1. x_eof' = NoFile /\ diskthread' = "stream"
          BY <2>2, <4>1, <4>4 DEF TakesBytes
        <5>2. x_bytelimit' > 0
          BY <2>5, <4>2, <4>4
        <5> QED
          BY <3>2, <4>2, <5>1, <5>2
      <4> QED
        BY <4>3, <4>4
    <3> QED
      BY <3>1, <3>2
  <2>12. /\ x_fifohead' \in Nat /\ x_fifohead' < x_fifosize
         /\ x_fifohead' = IF x_fifohead + n < x_fifosize THEN x_fifohead + n ELSE 0
    <3>1. x_fifohead + n <= x_fifosize /\ x_fifohead \in Nat /\ x_fifosize \in Nat /\ n \in Nat
      BY <2>1, <2>2, <2>5
    <3> HIDE DEF n
    <3> QED
      BY <2>2, <2>3, <2>11, <3>1
  <2>13. ReadTypeInv'
    <3>1. x_eof' \in DOMAIN Files \cup {NoFile, NotOpened}
      BY <2>1, <2>7
    <3> QED
      BY <1>1, <1>2, <2>1, <2>7, <2>12, <3>1 DEF ReadInv, ReadTypeInv
  <2>14. ReadRequestInv'
    BY <1>1, <1>3, <1>5, <2>10 DEF ReadInv, ReadRequestInv, Feeding
  <2>15. FreshInv'
    BY <1>1, <2>7, <2>10 DEF FreshInv
  <2>16. FeedInv'
    <3>1. SUFFICES ASSUME diskthread' = "stream" PROVE FeedInv'
      BY <2>10 DEF FeedInv, Feeding
    <3>2. x_eof' = NoFile /\ x_bytelimit' = x_bytelimit - n /\ at + n \in 0..DataOf(f)
      <4> HIDE DEF n
      <4> QED
        BY <2>4, <2>5, <2>9, <2>11, <3>1
    <3>3. x_bytelimit' = Limit(f) - (at + n)
      <4> HIDE DEF n
      <4> QED
        BY <2>3, <2>4, <2>5, <3>2
    <3> HIDE DEF n, at
    <3> QED
      BY <1>1, <1>3, <2>2, <2>3, <2>6, <2>12, <3>2, <3>3 DEF FeedInv
  <2>17. ASSUME Live, Good PROVE PlayedIsRead'
    <3>1. /\ PlayedIsRead /\ HasRead = at /\ Held \in Nat
          /\ x_fifohead + want <= x_fifosize /\ Held + want < x_fifosize
          /\ Aligned(at + want, WantBytes) \/ want = x_bytelimit
      BY <1>1, <1>5, <2>1, <2>2, <2>3, <2>10, <2>17
      DEF ReadInv, ReadFifoInv, ReadingInv, HasRead, Held
    <3>2. /\ x_fifosize \in Nat \ {0} /\ x_fifohead \in 0..(x_fifosize - 1)
          /\ x_fifotail \in 0..(x_fifosize - 1) /\ n \in Nat /\ x_fifohead + n <= x_fifosize
          /\ Held = Between(x_fifotail, x_fifohead, x_fifosize) /\ Held + n < x_fifosize
          /\ \A k \in Nat : Behind(k) = After(x_fifotail, k, x_fifosize)
      <4>1. Held = Between(x_fifotail, x_fifohead, x_fifosize)
        BY DEF Held, Between
      <4>2. \A k \in Nat : Behind(k) = After(x_fifotail, k, x_fifosize)
        BY DEF Behind, After
      <4> HIDE DEF n
      <4> QED
        BY <2>1, <2>3, <2>5, <3>1, <4>1, <4>2
    <3>3. Held' = Held + n
      <4>1. Held' = Between(x_fifotail, x_fifohead', x_fifosize)
        BY <1>1 DEF Held, Between
      <4>2. x_fifohead' = (x_fifohead + n) % x_fifosize
        <5> HIDE DEF n
        <5>1. (x_fifohead + n) % x_fifosize = IF x_fifohead + n < x_fifosize THEN x_fifohead + n ELSE 0
          BY <3>2, FifoGrows
        <5> QED
          BY <2>12, <5>1
      <4> HIDE DEF n
      <4> QED
        BY <3>2, <4>1, <4>2, FifoGrows
    <3>4. HasRead' = at + n
      BY <1>1, <2>6, <2>11 DEF HasRead
    <3>5. Aligned(at + n, WantBytes) \/ at + n = DataOf(f)
      BY <2>9, <3>1
    <3>6. heard + Held = at /\ heard + (Held + n) = at + n
      <4>1. heard + Held = at
        BY <3>1 DEF PlayedIsRead
      <4> HIDE DEF n, at
      <4> QED
        BY <2>1, <2>5, <3>1, <4>1
    <3>7. ASSUME NEW k \in Nat, k < Held + n
          PROVE  x_buf'[Behind(k)] = <<f, heard + k>>
      <4>1. x_fifosize <= BufSize /\ BufSize \in Nat
        BY <2>3, <2>17, ReadFifoHolds, SizeFacts DEF ReadInv, Live
      <4>2. CASE k < Held
        <5>1. Behind(k) \in 0..(x_fifosize - 1) /\ Behind(k) \notin x_fifohead..(x_fifohead + n - 1)
          <6> HIDE DEF n
          <6> QED
            BY <3>2, <4>2, FifoGrows
        <5>2. Behind(k) \in 0..(BufSize - 1)
          BY <2>1, <4>1, <5>1
        <5>3. x_buf[Behind(k)] = <<f, heard + k>>
          BY <3>1, <4>2 DEF PlayedIsRead
        <5> HIDE DEF n
        <5> QED
          BY <1>1, <2>1, <2>2, <5>1, <5>2, <5>3
      <4>3. CASE k >= Held
        <5>1. /\ Behind(k) = x_fifohead + (k - Held) /\ Behind(k) \in 0..(x_fifosize - 1)
              /\ Behind(k) \in x_fifohead..(x_fifohead + n - 1)
          <6> HIDE DEF n
          <6>1. Held <= k /\ k < Held + n
            BY <3>1, <3>7, <4>3
          <6> QED
            BY <3>2, <6>1, FifoGrows
        <5>2. at + Behind(k) - x_fifohead = heard + k
          <6> HIDE DEF n, at
          <6>1. at = heard + Held /\ heard \in Nat /\ x_fifohead \in Nat
            BY <2>1, <3>6
          <6> QED
            BY <3>1, <5>1, <6>1
        <5>3. Behind(k) \in DOMAIN x_buf
          BY <2>1, <4>1, <5>1
        <5>4. x_buf'[Behind(k)] = <<doing.file, at + Behind(k) - doing.to>>
          BY <1>1, <2>2, <5>1, <5>3
        <5> QED
          BY <2>2, <5>2, <5>4
      <4> QED
        BY <3>1, <4>2, <4>3
    <3>8. \A k \in 0..(Held' - 1) : x_buf'[Behind(k)'] = <<x_filename', heard' + k>>
      <4>1. \A k \in Nat : Behind(k)' = Behind(k)
        BY <1>1 DEF Behind
      <4> SUFFICES ASSUME NEW k \in 0..(Held' - 1)
                   PROVE  x_buf'[Behind(k)'] = <<x_filename', heard' + k>>
        OBVIOUS
      <4> HIDE DEF n
      <4>2. k \in Nat /\ k < Held + n
        BY <2>5, <3>1, <3>3
      <4>3. x_buf'[Behind(k)] = <<f, heard + k>>
        BY <3>7, <4>2
      <4> QED
        BY <1>1, <4>1, <4>2, <4>3
    <3>9. heard' + Held' = HasRead'
      BY <1>1, <3>3, <3>4, <3>6
    <3>10. Whole(x_fifotail', WantBytes') /\ Whole(heard', WantBytes')
      BY <1>1, <1>3, <3>1 DEF PlayedIsRead
    <3>11. (Aligned(HasRead, WantBytes) \/ HasRead = DataOf(x_filename))'
      BY <1>1, <1>3, <3>4, <3>5 DEF Aligned
    <3>12. /\ x_fifosize' = FifoSize(x_bytesperframe') /\ x_fifohead' < x_fifosize'
           /\ x_fifotail' < x_fifosize'
      BY <1>1, <1>3, <2>3, <2>12
    <3> HIDE DEF n, at
    <3> QED
      BY <3>8, <3>9, <3>10, <3>11, <3>12 DEF PlayedIsRead
  <2>18. ReadFifoInv'
    BY <1>1, <1>3, <1>5, <2>8, <2>11, <2>17 DEF ReadFifoInv, Feeding
  <2>19. ReadingInv'
    BY <2>10 DEF ReadingInv
  <2>20. OutputInv'
    BY <1>1, <2>7, <2>8 DEF ReadInv, OutputInv
  <2> QED
    BY <2>13, <2>14, <2>15, <2>16, <2>18, <2>19, <2>20 DEF ReadInv
<1> QED
  BY <1>4, <1>5

\* What a call of perform may rely on.
LEMMA PerformFinds ==
  ASSUME ReadInv, parent \in {"called", "performing"}
  PROVE  /\ x_state = "stream" /\ ~Quitting /\ Live
         /\ x_filename \in DOMAIN Files
         /\ PerformsWith \in Nat \ {1} /\ PerformsWith * x_vecsize \in Nat \ {1}
         /\ PerformsWith = 0 => PerformsWith * x_vecsize = 0
         /\ x_fifosize \in Nat /\ x_fifohead \in Nat /\ x_fifotail \in Nat /\ heard \in Nat
         /\ ended = FALSE /\ stale \in BOOLEAN
<1>1. x_state = "stream"
  BY DEF ReadInv, ReadRequestInv
<1>2. x_filename \in DOMAIN Files /\ ended = FALSE /\ stale \in BOOLEAN
  BY <1>1 DEF ReadInv, ReadRequestInv, ReadTypeInv, FreshInv
<1>3. x_fifosize \in Nat /\ x_fifohead \in Nat /\ x_fifotail \in Nat /\ heard \in Nat
  BY DEF ReadInv, ReadTypeInv
<1>4. ~Quitting /\ Live
  BY <1>1 DEF Live, Quitting
<1> DEFINE format == IF parent = "called" THEN mine ELSE formatvars
<1>5. format \in FormatSet /\ PerformsWith = Frame(format)
  BY WantFacts DEF ReadInv, ReadRequestInv, PerformsWith
<1> HIDE DEF format
<1>6. x_vecsize \in VecSizes /\ x_vecsize \in Nat
  BY SizeFacts DEF ReadInv, ReadTypeInv
<1>7. PerformsWith \in Nat \ {1} /\ PerformsWith * x_vecsize \in Nat \ {1}
  BY <1>5, <1>6, FormatIsOne
<1>8. PerformsWith = 0 => PerformsWith * x_vecsize = 0
  BY <1>6
<1> QED
  BY <1>1, <1>2, <1>3, <1>4, <1>7, <1>8

\* The blocks that count are made of frames of the format of the file.
LEMMA PutsOutGood ==
  ASSUME ReadInv, NEW n, NEW frame, PutsOut(n, frame), UNCHANGED <<filevars, vecvars>>, Good'
  PROVE  /\ Good /\ frame = x_bytesperframe
         /\ output' = [i \in 1..n |-> x_buf[x_fifotail + i - 1]] /\ heard' = heard + n
<1>1. UNCHANGED <<x_filename, formatvars, x_eof, x_fileerror, x_vecsize, grown>>
  BY DEF filevars, vecvars
<1>2. FramesAreWhole' = FramesAreWhole
  BY <1>1, SameFrames
<1>3. ~stale' /\ ~grown
  BY <1>1, Zenon DEF Good
<1>4. stale' = (stale \/ frame # x_bytesperframe)
  BY DEF PutsOut
<1>5. ~stale /\ frame = x_bytesperframe
  BY <1>3, <1>4
<1>6. Good
  BY <1>1, <1>2, <1>3, <1>5 DEF Good
<1>7. output' = [i \in 1..n |-> x_buf[x_fifotail + i - 1]] /\ heard' = heard + n
  BY <1>3 DEF PutsOut
<1> QED
  BY <1>5, <1>6, <1>7

LEMMA PutsOutTypes ==
  ASSUME NEW n \in Nat, NEW frame, PutsOut(n, frame), heard \in Nat
  PROVE  /\ heard' \in Nat /\ stale' \in BOOLEAN
         /\ n = 0 /\ heard = 0 => heard' = 0 /\ output' = <<>>
<1>1. stale' \in BOOLEAN
  BY DEF PutsOut
<1>2. CASE stale' \/ grown
  BY <1>1, <1>2 DEF PutsOut
<1>3. CASE ~(stale' \/ grown)
  <2>1. output' = [i \in 1..n |-> x_buf[x_fifotail + i - 1]] /\ heard' = heard + n
    BY <1>3 DEF PutsOut
  <2>2. n = 0 => 1..n = {}
    OBVIOUS
  <2>3. n = 0 => output' = <<>>
    BY <2>1, <2>2
  <2> QED
    BY <1>1, <2>1, <2>3
<1> QED
  BY <1>2, <1>3

LEMMA PerformEndsStep == ReadInv /\ ReadPerform /\ PerformEnds(PerformsWith) => ReadInv'
<1> SUFFICES ASSUME ReadInv, ReadPerform, PerformEnds(PerformsWith) PROVE ReadInv'
  OBVIOUS
<1> DEFINE frame == PerformsWith
           want == frame * x_vecsize
           n == ((x_fifohead - x_fifotail + 1) \div frame) * frame
<1>1. /\ parent \in {"called", "performing"} /\ x_state' = "idle" /\ parent' = "idle"
      /\ x_eof # NoFile /\ LacksBytes(want) /\ PutsOut(n, frame) /\ ended' = TRUE
      /\ UNCHANGED <<x_requestcode, filevars, fifovars, vecvars, diskthread, doing, x_bytelimit>>
  BY DEF ReadPerform, PerformEnds, ParentRuns, fifovars, tickvars
<1>2. /\ x_state = "stream" /\ ~Quitting /\ Live /\ x_filename \in DOMAIN Files
      /\ frame \in Nat \ {1} /\ want \in Nat \ {1} /\ (frame = 0 => want = 0)
      /\ x_fifosize \in Nat /\ x_fifohead \in Nat /\ x_fifotail \in Nat /\ heard \in Nat
  BY <1>1, PerformFinds
<1>3. x_fifohead >= x_fifotail /\ x_fifohead < x_fifotail + want - 1
  BY <1>1 DEF LacksBytes
<1> HIDE DEF want
<1>4. frame \in Nat \ {0, 1}
  BY <1>2, <1>3
<1>5. UNCHANGED <<x_filename, x_bytespersample, x_sfchannels, formatvars, x_fileerror, x_filedes, x_eof,
                  x_fifosize, x_fifohead, x_fifotail, x_buf, x_vecsize, grown>>
  BY <1>1 DEF filevars, formatvars, fifovars, vecvars
<1> HIDE DEF frame
<1>6. n \in Nat /\ (x_fifohead = x_fifotail => n = 0)
  <2> DEFINE m == x_fifohead - x_fifotail + 1
  <2>1. m \in Nat /\ frame \in Nat \ {0}
    BY <1>2, <1>3, <1>4
  <2>2. x_fifohead = x_fifotail => m = 0 + 1
    BY <1>2
  <2> HIDE DEF m
  <2>3. m \div frame \in Nat
    BY <2>1, DivBounds
  <2>4. (m \div frame) * frame \in Nat
    BY <2>1, <2>3
  <2>5. m = 0 + 1 => (m \div frame) * frame = 0
    <3>1. Whole(0, frame) /\ frame \in Nat /\ frame >= 2
      BY <1>4 DEF Whole
    <3>2. ((0 + 1) \div frame) * frame = 0
      BY <3>1, WholeAndOne
    <3> QED
      BY <3>2
  <2> QED
    BY <2>2, <2>4, <2>5 DEF m
<1> HIDE DEF n
<1>7. ~Live' /\ ~Quitting' /\ (Fresh' <=> Fresh) /\ (Feeding' <=> Feeding)
  BY <1>1 DEF Live, Quitting, Fresh, Feeding
<1>8. x_bytesperframe' = x_bytesperframe /\ WantBytes' = WantBytes
  BY <1>5, SameFrames
<1>9. /\ heard' \in Nat /\ stale' \in BOOLEAN
      /\ n = 0 /\ heard = 0 => heard' = 0 /\ output' = <<>>
  BY <1>1, <1>2, <1>6, PutsOutTypes
<1>10. ReadTypeInv'
  <2>1. ended' \in BOOLEAN
    BY <1>1
  <2>2. heard' \in Nat /\ stale' \in BOOLEAN
    BY <1>9
  <2> QED
    BY <1>5, <2>1, <2>2 DEF ReadInv, ReadTypeInv
<1>11. ReadRequestInv'
  BY <1>1, <1>2, <1>5, <1>7 DEF ReadInv, ReadRequestInv, Feeding
<1>12. FreshInv'
  <2>1. Fresh => heard' = 0 /\ output' = <<>>
    BY <1>6, <1>9 DEF ReadInv, FreshInv
  <2> QED
    BY <1>1, <1>5, <1>7, <2>1 DEF ReadInv, FreshInv
<1>13. FeedInv'
  BY <1>1, <1>5, <1>7, <1>8 DEF ReadInv, FeedInv
<1>14. ReadFifoInv'
  BY <1>7 DEF ReadFifoInv
<1>15. ReadingInv'
  BY <1>1, <1>5, <1>7 DEF ReadInv, ReadingInv
<1>16. ASSUME Good'
       PROVE  /\ heard + n = DataOf(x_filename)
              /\ output' = [i \in 1..n |-> x_buf[x_fifotail + i - 1]] /\ heard' = heard + n
              /\ \A i \in 1..n : x_buf[x_fifotail + i - 1] = <<x_filename, heard + i - 1>>
  <2>1. /\ Good /\ frame = x_bytesperframe
        /\ output' = [i \in 1..n |-> x_buf[x_fifotail + i - 1]] /\ heard' = heard + n
    BY <1>1, <1>16, PutsOutGood
  <2>2. x_eof = x_filename /\ DataOf(x_filename) \in Nat
    BY <1>1, <1>2, <2>1, FileFacts DEF Good
  <2>3. ~Fresh
    BY <1>1, <1>2, <2>2, FileFacts DEF ReadInv, FreshInv
  <2>4. PlayedIsRead /\ HasRead = DataOf(x_filename)
    BY <1>1, <1>2, <2>1, <2>3 DEF ReadInv, ReadFifoInv, HasRead
  <2>5. heard + Held = DataOf(x_filename) /\ Whole(heard, WantBytes)
    BY <2>4 DEF PlayedIsRead
  <2>6. Held = x_fifohead - x_fifotail /\ Held \in Nat
    BY <1>2, <1>3 DEF Held
  <2>7. /\ WantBytes \in Nat /\ Whole(WantBytes, frame) /\ Whole(DataOf(x_filename), frame)
    BY <1>2, <2>1, ReadFifoHolds DEF ReadInv
  <2>8. Whole(heard, frame)
    BY <1>2, <1>4, <2>5, <2>7, WholeTransitive
  <2>9. Whole(Held, frame)
    <3>1. CASE heard < DataOf(x_filename)
      <4>1. Whole(DataOf(x_filename) - heard, frame)
        BY <1>2, <1>4, <2>2, <2>7, <2>8, <3>1, WholeDifference
      <4>2. DataOf(x_filename) - heard = Held
        BY <1>2, <2>2, <2>5, <2>6
      <4> QED
        BY <4>1, <4>2
    <3>2. CASE heard >= DataOf(x_filename)
      <4>1. Held = 0 * frame
        BY <1>2, <1>4, <2>2, <2>5, <2>6, <3>2
      <4> QED
        BY <4>1 DEF Whole
    <3> QED
      BY <1>2, <2>2, <3>1, <3>2
  <2>10. n = Held
    <3>1. frame \in Nat /\ frame >= 2
      BY <1>4
    <3>2. ((Held + 1) \div frame) * frame = Held
      BY <2>6, <2>9, <3>1, WholeAndOne
    <3> QED
      BY <2>6, <3>2 DEF n
  <2>11. ASSUME NEW i \in 1..n PROVE x_buf[x_fifotail + i - 1] = <<x_filename, heard + i - 1>>
    <3>1. i - 1 \in 0..(Held - 1) /\ x_fifotail + (i - 1) < x_fifosize /\ x_fifotail + i - 1 = x_fifotail + (i - 1)
      BY <1>2, <2>4, <2>6, <2>10, <2>11 DEF PlayedIsRead
    <3>2. x_buf[Behind(i - 1)] = <<x_filename, heard + (i - 1)>>
      BY <2>4, <3>1 DEF PlayedIsRead
    <3>3. heard + (i - 1) = heard + i - 1
      BY <1>2, <3>1
    <3> QED
      BY <3>1, <3>2, <3>3 DEF Behind
  <2> QED
    BY <2>1, <2>5, <2>10, <2>11
<1>17. OutputInv'
  <2> SUFFICES ASSUME Good' PROVE OutputInv'
    BY DEF OutputInv
  <2>1. /\ heard + n = DataOf(x_filename) /\ heard' = heard + n
        /\ output' = [i \in 1..n |-> x_buf[x_fifotail + i - 1]]
        /\ \A i \in 1..n : x_buf[x_fifotail + i - 1] = <<x_filename, heard + i - 1>>
    BY <1>16
  <2>2. DOMAIN output' = 1..n /\ Len(output') = n /\ heard' - n = heard
    BY <1>2, <1>6, <2>1
  <2>3. \A i \in 1..n : output'[i] = <<x_filename, heard + i - 1>>
    BY <2>1
  <2> QED
    BY <1>5, <2>1, <2>2, <2>3 DEF OutputInv
<1> QED
  BY <1>10, <1>11, <1>12, <1>13, <1>14, <1>15, <1>17 DEF ReadInv

\* A whole block is there, and does not reach over the end of the buffer.
LEMMA BlockIsThere ==
  ASSUME ReadInv, Live, Good, ~LacksBytes(WantBytes)
  PROVE  /\ PlayedIsRead /\ ~Fresh
         /\ Held \in Nat /\ WantBytes <= Held /\ x_fifotail + WantBytes <= x_fifosize
<1> DEFINE w == WantBytes
           d1 == x_bytesperframe
<1>1. /\ x_filename \in DOMAIN Files /\ d1 \in Nat \ {0, 1} /\ w \in Nat \ {0, 1}
      /\ Whole(w, d1) /\ Whole(FifoSize(x_bytesperframe), w) /\ Whole(DataOf(x_filename), d1)
      /\ FramesAreWhole
      /\ x_fifosize \in Nat /\ x_fifohead \in Nat /\ x_fifotail \in Nat /\ heard \in Nat
      /\ DataOf(x_filename) \in Nat
  <2>1. x_fifosize \in Nat /\ x_fifohead \in Nat /\ x_fifotail \in Nat /\ heard \in Nat
    BY DEF ReadInv, ReadTypeInv
  <2>2. FramesAreWhole
    BY DEF Good
  <2> QED
    BY <2>1, <2>2, ReadFifoHolds, FileFacts DEF ReadInv, Live
<1>2. x_fifohead >= x_fifotail => x_fifohead >= x_fifotail + w - 1
  BY <1>1 DEF LacksBytes
<1>3. ~Fresh
  BY <1>1, <1>2 DEF ReadInv, FreshInv
<1>4. PlayedIsRead
  BY <1>3 DEF ReadInv, ReadFifoInv
<1>5. /\ x_fifosize = FifoSize(x_bytesperframe) /\ x_fifohead < x_fifosize /\ x_fifotail < x_fifosize
      /\ Whole(x_fifotail, w) /\ Whole(heard, w) /\ heard + Held = HasRead
      /\ Aligned(HasRead, w) \/ HasRead = DataOf(x_filename)
  BY <1>4 DEF PlayedIsRead
<1>6. Held \in Nat
  BY <1>1, <1>5 DEF Held
<1>7. HasRead \in Nat
  BY <1>1, <1>5, <1>6
<1>8. x_fifotail + w <= x_fifosize
  BY <1>1, <1>5, WholeDifference
<1> HIDE DEF w, d1
<1>9. \E d \in Nat \ {0, 1} : Whole(w, d) /\ Whole(HasRead, d)
  <2>1. CASE Aligned(HasRead, w)
    <3>1. PICK d \in 2..READSIZE : READSIZE % d = 0 /\ w % d = 0
      BY <1>1 DEF FramesAreWhole, w
    <3>2. d \in Nat \ {0, 1} /\ READSIZE \in Nat
      BY SizeFacts
    <3>3. Whole(READSIZE, d) /\ Whole(w, d)
      BY <1>1, <3>1, <3>2, WholeRemainder
    <3>4. Whole(HasRead, d)
      BY <1>1, <1>7, <2>1, <3>2, <3>3, AlignedIsWhole
    <3> QED
      BY <3>2, <3>3, <3>4
  <2>2. CASE HasRead = DataOf(x_filename)
    BY <1>1, <2>2
  <2> QED
    BY <1>5, <2>1, <2>2
<1>10. PICK d \in Nat \ {0, 1} : Whole(w, d) /\ Whole(HasRead, d)
  BY <1>9
<1>11. Whole(Held, d)
  <2>1. Whole(heard, d)
    BY <1>1, <1>5, <1>10, WholeTransitive
  <2>2. HasRead - heard = Held
    BY <1>1, <1>5, <1>6, <1>7
  <2>3. CASE heard < HasRead
    BY <1>1, <1>7, <1>10, <2>1, <2>2, <2>3, WholeDifference
  <2>4. CASE heard >= HasRead
    <3>1. Held = 0 * d
      BY <1>1, <1>6, <1>7, <1>10, <2>2, <2>4
    <3> QED
      BY <3>1 DEF Whole
  <2> QED
    BY <1>1, <1>7, <2>3, <2>4
<1>12. w <= Held
  <2>1. CASE x_fifohead >= x_fifotail
    <3>1. Held = x_fifohead - x_fifotail
      BY <2>1 DEF Held
    <3>2. Held + 1 # w
      BY <1>1, <1>6, <1>10, <1>11, WholeLacksNotOne
    <3> QED
      BY <1>1, <1>2, <1>6, <2>1, <3>1, <3>2
  <2>2. CASE x_fifohead < x_fifotail
    <3>1. Held = x_fifohead - x_fifotail + x_fifosize
      BY <1>1, <2>2 DEF Held
    <3> QED
      BY <1>1, <1>8, <3>1
  <2> QED
    BY <1>1, <2>1, <2>2
<1> QED
  BY <1>3, <1>4, <1>6, <1>8, <1>12 DEF w

LEMMA PerformBlockStep == ReadInv /\ ReadPerform /\ PerformBlock(PerformsWith) => ReadInv'
<1> SUFFICES ASSUME ReadInv, ReadPerform, PerformBlock(PerformsWith) PROVE ReadInv'
  OBVIOUS
<1> DEFINE frame == PerformsWith
           w == frame * x_vecsize
           u == IF x_fifotail + w >= x_fifosize THEN 0 ELSE x_fifotail + w
<1>1. /\ parent \in {"called", "performing"} /\ parent' = "idle" /\ ~LacksBytes(w)
      /\ PutsOut(w, frame) /\ x_fifotail' = u
      /\ UNCHANGED <<x_state, x_requestcode, filevars, x_fifosize, x_fifohead, x_buf, vecvars,
                     diskthread, doing, x_bytelimit, ended>>
  BY DEF ReadPerform, PerformBlock, ParentRuns
<1>2. /\ x_state = "stream" /\ ~Quitting /\ Live /\ x_filename \in DOMAIN Files
      /\ w \in Nat \ {1}
      /\ x_fifosize \in Nat /\ x_fifohead \in Nat /\ x_fifotail \in Nat /\ heard \in Nat
      /\ ended = FALSE
  BY <1>1, PerformFinds
<1>3. UNCHANGED <<x_filename, x_bytespersample, x_sfchannels, formatvars, x_fileerror, x_filedes, x_eof,
                  x_vecsize, grown>>
  BY <1>1 DEF filevars, formatvars, vecvars
<1>4. w = frame * x_vecsize
  OBVIOUS
<1> HIDE DEF frame, w
<1>5. u \in Nat /\ (x_fifotail < x_fifosize => u < x_fifosize) /\ (x_fifosize = 0 => u = 0)
  BY <1>2
<1>6. /\ heard' \in Nat /\ stale' \in BOOLEAN
      /\ w = 0 /\ heard = 0 => heard' = 0 /\ output' = <<>>
  BY <1>1, <1>2, PutsOutTypes
<1>7. /\ Live' /\ ~Quitting' /\ (Feeding' <=> Feeding) /\ (Fresh' <=> Fresh)
      /\ x_bytesperframe' = x_bytesperframe /\ WantBytes' = WantBytes /\ HasRead' = HasRead
  BY <1>1, <1>2, <1>3, SameFrames DEF Live, Quitting, Feeding, Fresh, HasRead
<1>8. ReadTypeInv'
  <2>1. x_fifotail' \in Nat /\ x_fifohead' \in Nat /\ x_fifosize' \in Nat /\ heard' \in Nat
    BY <1>1, <1>2, <1>5, <1>6
  <2>2. ended' = ended /\ x_buf' = x_buf
    BY <1>1
  <2> HIDE DEF u
  <2> QED
    BY <1>3, <1>6, <2>1, <2>2 DEF ReadInv, ReadTypeInv
<1>9. ReadRequestInv'
  BY <1>1, <1>2, <1>3, <1>7 DEF ReadInv, ReadRequestInv
<1>10. FreshInv'
  <2>1. ASSUME Fresh PROVE heard' = 0 /\ output' = <<>> /\ u = 0
    <3>1. heard = 0 /\ x_fifohead = 0 /\ x_fifotail = 0
      BY <2>1 DEF ReadInv, FreshInv
    <3>2. w = 0
      BY <1>1, <1>2, <3>1 DEF LacksBytes
    <3>3. u = 0
      BY <3>1, <3>2
    <3> QED
      BY <1>6, <3>1, <3>2, <3>3
  <2> HIDE DEF u
  <2> QED
    BY <1>1, <1>2, <1>3, <1>7, <2>1 DEF ReadInv, FreshInv
<1>11. FeedInv'
  <2> HIDE DEF u
  <2> QED
    BY <1>1, <1>3, <1>5, <1>7 DEF ReadInv, FeedInv
<1>12. ASSUME Good'
       PROVE  /\ Good /\ PlayedIsRead' /\ Held \in Nat /\ Held' = Held - w
              /\ Len(output') = w /\ DOMAIN output' = 1..w /\ heard' = heard + w
              /\ \A i \in 1..w : output'[i] = <<x_filename, heard + i - 1>>
  <2>1. /\ Good /\ frame = x_bytesperframe
        /\ output' = [i \in 1..w |-> x_buf[x_fifotail + i - 1]] /\ heard' = heard + w
    BY <1>1, <1>12, PutsOutGood
  <2>2. w = WantBytes
    BY <1>4, <2>1 DEF WantBytes
  <2>3. /\ PlayedIsRead /\ Held \in Nat /\ w <= Held /\ x_fifotail + w <= x_fifosize
    BY <1>1, <1>2, <2>1, <2>2, BlockIsThere
  <2>4. /\ x_fifosize = FifoSize(x_bytesperframe) /\ x_fifohead < x_fifosize /\ x_fifotail < x_fifosize
        /\ Whole(x_fifotail, w) /\ Whole(heard, w) /\ heard + Held = HasRead
        /\ \A k \in 0..(Held - 1) : x_buf[Behind(k)] = <<x_filename, heard + k>>
        /\ Aligned(HasRead, w) \/ HasRead = DataOf(x_filename)
    BY <2>2, <2>3 DEF PlayedIsRead
  <2>5. w # 0
    <3>1. WantBytes \in Nat \ {0, 1}
      BY <1>2, <2>1, ReadFifoHolds DEF ReadInv
    <3> QED
      BY <2>2, <3>1
  <2>6. /\ Held = Between(x_fifotail, x_fifohead, x_fifosize) /\ Held' = Between(u, x_fifohead, x_fifosize)
        /\ \A k \in Nat : /\ Behind(k) = After(x_fifotail, k, x_fifosize)
                          /\ Behind(k)' = After(u, k, x_fifosize)
    BY <1>1 DEF Held, Behind, Between, After
  <2>7. /\ x_fifosize \in Nat \ {0} /\ x_fifohead \in 0..(x_fifosize - 1)
        /\ x_fifotail \in 0..(x_fifosize - 1) /\ w \in Nat \ {0}
        /\ w <= Between(x_fifotail, x_fifohead, x_fifosize)
    BY <1>2, <2>3, <2>4, <2>5, <2>6
  <2>8. /\ u \in 0..(x_fifosize - 1)
        /\ Between(u, x_fifohead, x_fifosize) = Between(x_fifotail, x_fifohead, x_fifosize) - w
        /\ \A k \in Nat : k < Between(x_fifotail, x_fifohead, x_fifosize) - w =>
             After(u, k, x_fifosize) = After(x_fifotail, k + w, x_fifosize)
        /\ \A k \in 0..(w - 1) : After(x_fifotail, k, x_fifosize) = x_fifotail + k
    BY <2>3, <2>7, FifoShrinks
  <2>9. Held' = Held - w
    BY <2>6, <2>8
  <2>10. ASSUME NEW i \in 1..w PROVE output'[i] = <<x_filename, heard + i - 1>>
    <3>1. i - 1 \in 0..(w - 1) /\ i - 1 \in 0..(Held - 1) /\ i - 1 \in Nat
      BY <1>2, <2>3, <2>10
    <3>2. x_buf[Behind(i - 1)] = <<x_filename, heard + (i - 1)>>
      BY <2>4, <3>1
    <3>3. Behind(i - 1) = x_fifotail + (i - 1)
      BY <2>6, <2>8, <3>1
    <3>4. heard + (i - 1) = heard + i - 1 /\ x_fifotail + (i - 1) = x_fifotail + i - 1
      BY <1>2, <3>1
    <3>5. output'[i] = x_buf[x_fifotail + i - 1]
      BY <2>1, <2>10
    <3> QED
      BY <3>2, <3>3, <3>4, <3>5
  <2>11. Whole(u, w) /\ Whole(heard + w, w)
    <3>1. Whole(0, w) /\ Whole(w, w)
      <4>1. 0 = 0 * w /\ w = 1 * w
        BY <1>2
      <4> QED
        BY <4>1 DEF Whole
    <3>2. Whole(x_fifotail + w, w) /\ Whole(heard + w, w)
      BY <1>2, <2>4, <3>1, WholeSum
    <3> QED
      BY <3>1, <3>2
  <2>12. heard + w + (Held - w) = HasRead
    BY <1>2, <2>3, <2>4
  <2>13. \A k \in 0..(Held' - 1) : x_buf'[Behind(k)'] = <<x_filename', heard' + k>>
    <3> SUFFICES ASSUME NEW k \in 0..(Held' - 1)
                 PROVE  x_buf'[Behind(k)'] = <<x_filename', heard' + k>>
      OBVIOUS
    <3>1. k \in Nat /\ k < Held - w /\ k + w \in 0..(Held - 1) /\ k + w \in Nat
      BY <1>2, <2>3, <2>9
    <3>2. Behind(k)' = Behind(k + w)
      BY <2>6, <2>8, <3>1
    <3>3. x_buf[Behind(k + w)] = <<x_filename, heard + (k + w)>>
      BY <2>4, <3>1
    <3>4. heard + (k + w) = heard + w + k
      BY <1>2, <3>1
    <3> QED
      BY <1>1, <1>3, <2>1, <3>2, <3>3, <3>4
  <2> HIDE DEF u
  <2>14. u < x_fifosize
    BY <1>2, <2>8
  <2>15. PlayedIsRead'
    <3>1. /\ x_fifosize' = FifoSize(x_bytesperframe') /\ x_fifohead' < x_fifosize'
          /\ x_fifotail' < x_fifosize'
      BY <1>1, <1>7, <2>4, <2>14
    <3>2. Whole(x_fifotail', WantBytes') /\ Whole(heard', WantBytes')
      BY <1>1, <1>7, <2>1, <2>2, <2>11
    <3>3. heard' + Held' = HasRead'
      BY <1>7, <2>1, <2>9, <2>12
    <3>4. (Aligned(HasRead, WantBytes) \/ HasRead = DataOf(x_filename))'
      BY <1>3, <1>7, <2>2, <2>4 DEF Aligned
    <3> QED
      BY <2>13, <3>1, <3>2, <3>3, <3>4 DEF PlayedIsRead
  <2>16. Len(output') = w /\ DOMAIN output' = 1..w
    BY <1>2, <2>1
  <2> QED
    BY <2>1, <2>3, <2>9, <2>10, <2>15, <2>16
<1>13. ReadFifoInv'
  <2>1. ASSUME Good', ~Fresh' PROVE (x_eof = NoFile => x_requestcode = "busy" /\ Feeding) /\ PlayedIsRead'
    BY <1>2, <1>7, <1>12, <2>1 DEF ReadInv, ReadFifoInv
  <2> QED
    BY <1>1, <1>3, <1>7, <2>1 DEF ReadFifoInv
<1>14. ReadingInv'
  <2> SUFFICES ASSUME x_requestcode' = "busy", diskthread' = "reading"
               PROVE  ReadingInv'
    BY DEF ReadingInv
  <2>1. /\ doing.file = x_filename /\ x_eof = NoFile
        /\ doing.to = x_fifohead /\ x_fifosize # 0
        /\ doing.want \in 0..x_bytelimit /\ (doing.want = 0 => x_bytelimit = 0)
        /\ x_fifohead + doing.want <= x_fifosize
        /\ Live /\ Good =>
             /\ Held + doing.want < x_fifosize
             /\ Aligned(x_filedes.at + doing.want, WantBytes) \/ doing.want = x_bytelimit
    BY <1>1 DEF ReadInv, ReadingInv
  <2>2. ASSUME Good' PROVE Held' + doing.want < x_fifosize
    <3>1. x_bytelimit \in Int
      <4>1. x_bytelimit = Limit(x_filename) - x_filedes.at /\ x_filedes.at \in 0..DataOf(x_filename)
        BY <1>1 DEF ReadInv, FeedInv, Feeding
      <4>2. Limit(x_filename) \in Nat /\ DataOf(x_filename) \in Nat
        BY <1>2, FileFacts
      <4> QED
        BY <4>1, <4>2
    <3>2. doing.want \in Nat
      BY <2>1, <3>1
    <3>3. Held \in Nat /\ Held' = Held - w /\ Held + doing.want < x_fifosize
      BY <1>2, <1>12, <2>1, <2>2
    <3> QED
      BY <1>2, <3>2, <3>3
  <2>3. (Aligned(x_filedes.at + doing.want, WantBytes))' = Aligned(x_filedes.at + doing.want, WantBytes)
    BY <1>1, <1>3, <1>7 DEF Aligned
  <2>4. ASSUME Good' PROVE Aligned(x_filedes.at + doing.want, WantBytes)' \/ doing.want = x_bytelimit
    BY <1>2, <1>12, <2>1, <2>3, <2>4
  <2> HIDE DEF u
  <2> QED
    BY <1>1, <1>3, <2>1, <2>2, <2>4 DEF ReadingInv
<1>15. OutputInv'
  <2> SUFFICES ASSUME Good' PROVE OutputInv'
    BY DEF OutputInv
  <2>1. /\ Len(output') = w /\ DOMAIN output' = 1..w /\ heard' = heard + w
        /\ \A i \in 1..w : output'[i] = <<x_filename, heard + i - 1>>
    BY <1>12
  <2>2. heard' - w = heard /\ ~ended'
    BY <1>1, <1>2, <2>1
  <2> QED
    BY <1>3, <2>1, <2>2 DEF OutputInv
<1> QED
  BY <1>8, <1>9, <1>10, <1>11, <1>13, <1>14, <1>15 DEF ReadInv

LEMMA ReadStep == ReadInv /\ ReadNext => ReadInv'
<1> SUFFICES ASSUME ReadInv, ReadNext PROVE ReadInv'
  OBVIOUS
<1> USE DEF HasMutex, Nothing
<1>1. ASSUME ChildWakes, UNCHANGED <<x_bytelimit, mine, heardvars>> PROVE ReadInv'
  <2>1. UNCHANGED readchange
    BY <1>1
    DEF ChildWakes, readchange, filevars, fifovars, tickvars, vecvars, heardvars
  <2>2. ReadRequestInv'
    BY <1>1, <2>1
    DEF ChildWakes, readchange, filevars, vecvars, ReadInv, ReadRequestInv, Quitting,
        Feeding
  <2>3. ReadQuiet
    BY <1>1, <2>1
    DEF ChildWakes, filevars, ReadInv, ReadRequestInv, FreshInv, ReadQuiet, Quitting,
        Feeding, Fresh, Live
  <2> QED
    BY <2>1, <2>2, <2>3, ReadQuietStep
<1>2. ASSUME ChildHasNothingToDo, UNCHANGED <<x_bytelimit, mine, heardvars>> PROVE ReadInv'
  <2>1. UNCHANGED readchange
    BY <1>2
    DEF ChildHasNothingToDo, AwaitRequest, readchange, filevars, fifovars, tickvars,
        vecvars, heardvars
  <2>2. ReadRequestInv'
    BY <1>2, <2>1
    DEF ChildHasNothingToDo, AwaitRequest, readchange, filevars, vecvars, ReadInv,
        ReadRequestInv, Quitting, Feeding
  <2>3. ReadQuiet
    BY <1>2, <2>1
    DEF ChildHasNothingToDo, AwaitRequest, filevars, ReadInv, ReadRequestInv, FreshInv,
        ReadQuiet, Quitting, Feeding, Fresh, Live
  <2> QED
    BY <2>1, <2>2, <2>3, ReadQuietStep
<1>3. ASSUME TakeOpen PROVE ReadInv'
  <2>1. /\ Fresh /\ Fresh' /\ diskthread' = "opening" /\ x_requestcode = "open" /\ x_requestcode' = "busy"
        /\ x_fileerror' = FALSE /\ doing' = [file |-> x_filename, format |-> formatvars]
        /\ UNCHANGED <<x_state, x_filename, x_bytespersample, x_sfchannels, x_eof, x_fifosize,
                       x_fifohead, x_fifotail, x_buf, x_vecsize, grown, parent, mine,
                       output, heard, ended, stale>>
    BY <1>3 DEF TakeOpen, Fresh, formatvars, fifovars, tickvars, vecvars, heardvars
  <2>2. /\ x_filename \in DOMAIN Files /\ x_eof \in {NoFile, NotOpened}
        /\ heard = 0 /\ output = <<>> /\ x_fifohead = 0 /\ x_fifotail = 0
        /\ ended => x_eof # NoFile
    BY <2>1 DEF ReadInv, FreshInv, ReadTypeInv
  <2>3. ReadTypeInv'
    BY <2>1 DEF ReadInv, ReadTypeInv
  <2>4. ReadRequestInv'
    <3>1. formatvars \in FormatSet
      BY WantFacts DEF ReadInv
    <3>2. doing'.file = x_filename /\ doing'.format = formatvars
      BY <2>1
    <3> QED
      BY <2>1, <2>2, <3>1, <3>2, FileFacts DEF ReadInv, ReadRequestInv, Quitting
  <2>5. FreshInv'
    BY <2>1, <2>2, FileFacts DEF ReadInv, FreshInv
  <2>6. FeedInv' /\ ReadFifoInv' /\ ReadingInv'
    BY <2>1 DEF FeedInv, ReadFifoInv, ReadingInv, Feeding
  <2>7. OutputInv'
    BY <2>1, <2>2, SilentOutput
  <2> QED
    BY <2>3, <2>4, <2>5, <2>6, <2>7 DEF ReadInv
<1>4. ASSUME diskthread = "opening", NEW format \in FormatsFound, Opened(format) PROVE ReadInv'
  <2>1. /\ Fresh /\ x_filename \in DOMAIN Files /\ x_eof \in {NoFile, NotOpened}
        /\ heard = 0 /\ output = <<>> /\ x_fifohead = 0 /\ x_fifotail = 0
        /\ ended => x_eof # NoFile
    BY <1>4 DEF ReadInv, FreshInv, ReadTypeInv, Fresh
  <2>2. doing.file \in DOMAIN Files /\ format \in FormatSet
    <3>1. doing.file \in DOMAIN Files /\ doing.format \in FormatSet
      BY <1>4 DEF ReadInv, ReadRequestInv
    <3> QED
      BY <1>4, <3>1, FileFacts DEF FormatsFound
  <2>3. /\ x_bytespersample' = format[1] /\ x_sfchannels' = format[2]
        /\ x_filedes' = [file |-> doing.file, at |-> 0] /\ x_bytelimit' = Limit(doing.file)
        /\ UNCHANGED <<x_state, x_requestcode, x_filename, x_fileerror, x_eof, parent,
                       output, heard, ended, stale>>
    BY <1>4 DEF Opened, SetsFormat, Limit, heardvars
  <2>4. parent = "called" => mine' \in FormatSet
    <3>1. parent = "called" =>
            mine \in FormatSet /\ mine' \in {mine[1], format[1]} \X {mine[2], format[2]}
      BY <1>4 DEF Opened, SetsFormat, ReadInv, ReadRequestInv
    <3> QED
      BY <2>2, <3>1 DEF FormatSet
  <2>5. /\ x_bytespersample' \in Nat \ {0, 1} /\ x_sfchannels' \in Nat
        /\ x_bytesperframe' = Frame(format)
    BY <2>2, <2>3 DEF FormatSet, x_bytesperframe, formatvars, Frame
  <2>6. OutputInv'
    BY <2>1, <2>3, SilentOutput
  <2>7. Quitting' <=> Quitting
    BY <2>3 DEF Quitting
  <2>8. ASSUME x_requestcode # "busy" PROVE ReadInv'
    <3>1. diskthread' = "lost" /\ UNCHANGED <<x_fifosize, x_fifohead, x_fifotail, x_buf, x_vecsize, grown>>
      BY <1>4, <2>8 DEF Opened, fifovars, tickvars, vecvars
    <3>2. ReadTypeInv'
      BY <2>3, <2>5, <3>1 DEF ReadInv, ReadTypeInv
    <3>3. ReadRequestInv'
      BY <1>4, <2>3, <2>4, <2>7, <2>8, <3>1 DEF ReadInv, ReadRequestInv, Feeding
    <3>4. FreshInv'
      BY <2>1, <2>3, <3>1, FileFacts DEF ReadInv, FreshInv
    <3>5. Fresh' \/ ~Live'
      BY <1>4, <2>3, <2>7, <2>8 DEF ReadInv, ReadRequestInv, Fresh, Live
    <3>6. FeedInv' /\ ReadFifoInv' /\ ReadingInv'
      BY <2>3, <2>8, <3>5 DEF FeedInv, ReadFifoInv, ReadingInv
    <3> QED
      BY <2>6, <3>2, <3>3, <3>4, <3>6 DEF ReadInv
  <2>9. ASSUME x_requestcode = "busy" PROVE ReadInv'
    <3>1. /\ diskthread' = "stream" /\ x_fifohead' = 0 /\ x_fifosize' = FifoSize(Frame(format))
          /\ UNCHANGED <<x_fifotail, x_buf, x_vecsize, grown>>
      BY <1>4, <2>9 DEF Opened, vecvars
    <3>2. doing.file = x_filename
      BY <1>4, <2>9 DEF ReadInv, ReadRequestInv
    <3>3. x_vecsize \in VecSizes
      BY DEF ReadInv, ReadTypeInv
    <3>4. Frame(format) \in Nat /\ Frame(format) * x_vecsize \in Nat /\ FifoSize(Frame(format)) \in Nat
      BY <2>2, <3>3, FormatIsOne, FifoSizeIsNat
    <3>5. ReadTypeInv'
      BY <2>1, <2>3, <2>5, <3>1, <3>4 DEF ReadInv, ReadTypeInv
    <3>6. ReadRequestInv'
      BY <1>4, <2>3, <2>4, <2>7, <2>9, <3>1 DEF ReadInv, ReadRequestInv, Feeding
    <3>7. ~Fresh' /\ Feeding'
      BY <2>3, <2>9, <3>1 DEF Fresh, Feeding
    <3>8. FreshInv'
      BY <2>3, <3>7 DEF ReadInv, FreshInv
    <3>9. x_filedes' = [file |-> x_filename, at |-> 0] /\ x_filedes'.at = 0
      BY <2>3, <3>2
    <3>10. DataOf(x_filename) \in Nat /\ Limit(x_filename) \in Nat
      BY <2>1, FileFacts
    <3>11. FeedInv'
      <4>1. x_filedes'.at \in 0..DataOf(x_filename)
        BY <3>9, <3>10
      <4>2. x_bytelimit' = Limit(x_filename) - x_filedes'.at
        BY <2>3, <3>2, <3>9, <3>10
      <4>3. x_filedes' = [file |-> x_filename, at |-> x_filedes'.at]
        BY <3>9
      <4>4. IF x_fifosize' = 0 THEN x_fifohead' = 0 /\ x_fifotail' = 0
            ELSE x_fifohead' < x_fifosize' /\ x_fifotail' < x_fifosize'
        BY <2>1, <3>1, <3>4
      <4> QED
        BY <2>1, <2>3, <2>5, <3>1, <4>1, <4>2, <4>3, <4>4 DEF FeedInv
    <3>12. ASSUME Live', Good' PROVE x_eof' = NoFile /\ PlayedIsRead'
      <4>1. x_eof' = NoFile
        BY <2>1, <2>3, <3>12, FileFacts DEF Good
      <4>2. Frame(format) # 0 /\ Frame(format) * MAXVECSIZE <= BufSize
        BY <2>5, <3>12 DEF Good, FramesAreWhole
      <4>3. FifoSize(Frame(format)) \in Nat \ {0}
        BY <3>4, <4>2, FifoHolds
      <4>4. WantBytes' \in Nat
        BY <2>5, <3>1, <3>4 DEF WantBytes
      <4>5. Whole(0, WantBytes') /\ Aligned(0, WantBytes')
        <5>1. \A w \in Nat : 0 = 0 * w
          OBVIOUS
        <5>2. Whole(0, WantBytes')
          BY <4>4, <5>1 DEF Whole
        <5> QED
          BY <4>4, <5>2, AlignedMore
      <4>6. Held' = 0 /\ HasRead' = 0
        BY <2>1, <3>1, <3>9, <4>1 DEF Held, HasRead
      <4>7. Aligned(HasRead, WantBytes)'
        BY <4>5, <4>6 DEF Aligned
      <4>8. \A k \in 0..(Held' - 1) : x_buf'[Behind(k)'] = <<x_filename', heard' + k>>
        BY <4>6
      <4> QED
        BY <2>1, <2>3, <2>5, <3>1, <4>1, <4>3, <4>5, <4>6, <4>7, <4>8 DEF PlayedIsRead
    <3>13. ReadFifoInv'
      BY <2>3, <2>9, <3>7, <3>12 DEF ReadFifoInv
    <3>14. ReadingInv'
      BY <3>1 DEF ReadingInv
    <3> QED
      BY <2>6, <3>5, <3>6, <3>8, <3>11, <3>13, <3>14 DEF ReadInv
  <2> QED
    BY <2>8, <2>9
<1>5. ASSUME OpenFails PROVE ReadInv'
  <2>1. /\ diskthread = "opening" /\ diskthread' = "lost" /\ x_fileerror' = TRUE /\ x_eof' = NotOpened
        /\ x_bytespersample' = doing.format[1] /\ x_sfchannels' = doing.format[2]
        /\ UNCHANGED <<x_state, x_requestcode, x_filename, x_fifosize, x_fifohead, x_fifotail, x_buf,
                       x_vecsize, grown, parent, output, heard, ended, stale>>
    BY <1>5 DEF OpenFails, SetsFormat, fifovars, tickvars, vecvars, heardvars
  <2>2. doing.format \in FormatSet
    BY <2>1 DEF ReadInv, ReadRequestInv
  <2>3. parent = "called" => mine' \in FormatSet
    <3>1. parent = "called" =>
            /\ mine \in FormatSet
            /\ mine' \in {mine[1], doing.format[1]} \X {mine[2], doing.format[2]}
      BY <1>5 DEF OpenFails, SetsFormat, ReadInv, ReadRequestInv
    <3> QED
      BY <2>2, <3>1 DEF FormatSet
  <2>4. x_bytespersample' \in Nat \ {0, 1} /\ x_sfchannels' \in Nat
    BY <2>1, <2>2 DEF FormatSet
  <2>5. /\ Fresh /\ x_filename \in DOMAIN Files
        /\ heard = 0 /\ output = <<>> /\ x_fifohead = 0 /\ x_fifotail = 0
    BY <2>1 DEF ReadInv, FreshInv, ReadTypeInv, Fresh
  <2>6. ReadTypeInv'
    BY <2>1, <2>4 DEF ReadInv, ReadTypeInv
  <2>7. ReadRequestInv'
    BY <2>1, <2>3 DEF ReadInv, ReadRequestInv, Feeding, Quitting
  <2>8. FreshInv'
    BY <2>1, <2>5, FileFacts DEF ReadInv, FreshInv
  <2>9. ~Good' /\ ~Feeding'
    BY <2>1 DEF Good, Feeding
  <2>10. FeedInv' /\ ReadFifoInv' /\ ReadingInv' /\ OutputInv'
    BY <2>1, <2>9 DEF FeedInv, ReadFifoInv, ReadingInv, OutputInv
  <2> QED
    BY <2>6, <2>7, <2>8, <2>10 DEF ReadInv
<1>6. ASSUME BeginRead PROVE ReadInv'
  BY <1>6, BeginReadStep
<1>7. ASSUME FifoIsFull PROVE ReadInv'
  <2>1. UNCHANGED readchange
    BY <1>7
    DEF FifoIsFull, ChildIsHungry, AwaitRequest, readchange, filevars, fifovars, tickvars,
        vecvars, heardvars
  <2>2. ReadRequestInv'
    BY <1>7, <2>1
    DEF FifoIsFull, ChildIsHungry, AwaitRequest, readchange, filevars, vecvars, ReadInv,
        ReadRequestInv, Quitting, Feeding
  <2>3. ReadQuiet
    BY <1>7, <2>1
    DEF FifoIsFull, ChildIsHungry, AwaitRequest, filevars, ReadInv, ReadRequestInv,
        FreshInv, ReadQuiet, Quitting, Feeding, Fresh, Live
  <2> QED
    BY <2>1, <2>2, <2>3, ReadQuietStep
<1>8. ASSUME StreamEnds PROVE ReadInv'
  <2>1. UNCHANGED readchange
    BY <1>8
    DEF StreamEnds, Feeds, readchange, filevars, fifovars, tickvars, vecvars, heardvars
  <2>2. ReadRequestInv'
    BY <1>8, <2>1
    DEF StreamEnds, Feeds, readchange, filevars, vecvars, ReadInv, ReadRequestInv,
        Quitting, Feeding
  <2>3. ReadQuiet
    BY <1>8, <2>1
    DEF StreamEnds, Feeds, filevars, ReadInv, ReadRequestInv, FreshInv, ReadQuiet,
        Quitting, Feeding, Fresh, Live
  <2> QED
    BY <2>1, <2>2, <2>3, ReadQuietStep
<1>9. ASSUME ReadBytes PROVE ReadInv'
  BY <1>9, ReadBytesStep
<1>10. ASSUME ReadFails PROVE ReadInv'
  <2>1. /\ diskthread = "reading" /\ diskthread' = "lost"
        /\ UNCHANGED <<x_state, x_requestcode, x_filename, formatvars, x_bytespersample, x_sfchannels, x_eof,
                       x_fifosize, x_fifohead, x_fifotail, x_buf, x_vecsize, grown, parent, mine,
                       output, heard, ended, stale>>
    BY <1>10 DEF ReadFails, formatvars, fifovars, tickvars, vecvars, heardvars
  <2>2. /\ x_fileerror' \in BOOLEAN
        /\ (x_requestcode = "busy" => x_fileerror') /\ (x_fileerror => x_fileerror')
    BY <1>10 DEF ReadFails, ReadInv, ReadTypeInv
  <2>3. ReadTypeInv'
    BY <2>1, <2>2 DEF ReadInv, ReadTypeInv
  <2>4. ReadRequestInv'
    BY <2>1 DEF ReadInv, ReadRequestInv, Quitting, Feeding
  <2>5. FreshInv'
    BY <2>1 DEF ReadInv, FreshInv, Fresh
  <2>6. FramesAreWhole' = FramesAreWhole
    BY <2>1, SameFrames
  <2>7. Good' => Good
    BY <2>1, <2>2, <2>6 DEF Good
  <2>8. Fresh' \/ ~Live' \/ ~Good'
    BY <2>1, <2>2 DEF ReadInv, ReadRequestInv, Fresh, Live, Quitting, Good
  <2>9. FeedInv' /\ ReadFifoInv' /\ ReadingInv'
    BY <2>1, <2>8 DEF FeedInv, ReadFifoInv, ReadingInv, Feeding
  <2>10. OutputInv'
    BY <2>1, <2>7 DEF ReadInv, OutputInv
  <2> QED
    BY <2>3, <2>4, <2>5, <2>9, <2>10 DEF ReadInv
<1>11. ASSUME Lost PROVE ReadInv'
  <2>1. UNCHANGED readchange
    BY <1>11
    DEF Lost, readchange, filevars, fifovars, tickvars, vecvars, heardvars
  <2>2. ReadRequestInv'
    BY <1>11, <2>1
    DEF Lost, readchange, filevars, vecvars, ReadInv, ReadRequestInv, Quitting, Feeding
  <2>3. ReadQuiet
    BY <1>11, <2>1
    DEF Lost, filevars, ReadInv, ReadRequestInv, FreshInv, ReadQuiet, Quitting, Feeding,
        Fresh, Live
  <2> QED
    BY <2>1, <2>2, <2>3, ReadQuietStep
<1>12. ASSUME ReadFileIsClosed PROVE ReadInv'
  <2>1. /\ diskthread = "closing" /\ diskthread' = "top"
        /\ UNCHANGED <<x_state, x_requestcode, x_filename, formatvars, x_bytespersample, x_sfchannels,
                       x_fileerror, x_eof, x_fifosize, x_fifohead, x_fifotail, x_buf,
                       x_vecsize, grown, parent, mine, output, heard, ended, stale>>
    BY <1>12 DEF ReadFileIsClosed, formatvars, fifovars, tickvars, vecvars, heardvars
  <2>2. x_requestcode # "busy" /\ ~Feeding /\ ~Feeding' /\ (Fresh' <=> Fresh) /\ Live' = Live
    BY <2>1 DEF ReadInv, ReadRequestInv, Feeding, Fresh, Live, Quitting
  <2>3. ReadTypeInv'
    BY <2>1 DEF ReadInv, ReadTypeInv
  <2>4. ReadRequestInv'
    BY <2>1, <2>2 DEF ReadInv, ReadRequestInv, Quitting
  <2>5. FreshInv'
    BY <2>1, <2>2 DEF ReadInv, FreshInv
  <2>6. /\ x_bytesperframe' = x_bytesperframe /\ WantBytes' = WantBytes
        /\ FramesAreWhole' = FramesAreWhole
    BY <2>1, SameFrames
  <2>7. Good' = Good
    BY <2>1, <2>6 DEF Good
  <2>8. FeedInv' /\ ReadingInv'
    BY <2>1, <2>2 DEF FeedInv, ReadingInv
  <2>9. ReadFifoInv'
    <3>1. SUFFICES ASSUME Live', Good', ~Fresh' PROVE PlayedIsRead' /\ x_eof' # NoFile
      BY DEF ReadFifoInv
    <3>2. PlayedIsRead /\ x_eof # NoFile
      BY <2>2, <2>7, <3>1 DEF ReadInv, ReadFifoInv
    <3>3. Held' = Held /\ HasRead' = HasRead
      BY <2>1, <3>2 DEF Held, HasRead
    <3> QED
      BY <2>1, <2>6, <3>2, <3>3 DEF PlayedIsRead, Behind
  <2>10. OutputInv'
    BY <2>1, <2>7 DEF ReadInv, OutputInv
  <2> QED
    BY <2>3, <2>4, <2>5, <2>8, <2>9, <2>10 DEF ReadInv
<1>13. ASSUME TakeClose PROVE ReadInv'
  <2>1. UNCHANGED readchange
    BY <1>13
    DEF TakeClose, readchange, filevars, fifovars, tickvars, vecvars, heardvars
  <2>2. ReadRequestInv'
    BY <1>13, <2>1
    DEF TakeClose, readchange, filevars, vecvars, ReadInv, ReadRequestInv, Quitting,
        Feeding
  <2>3. ReadQuiet
    BY <1>13, <2>1
    DEF TakeClose, filevars, ReadInv, ReadRequestInv, FreshInv, ReadQuiet, Quitting,
        Feeding, Fresh, Live
  <2> QED
    BY <2>1, <2>2, <2>3, ReadQuietStep
<1>14. ASSUME NEW f \in DOMAIN Files, NEW format \in Formats, ReadOpen(f, format) PROVE ReadInv'
  <2>1. /\ parent = "idle" /\ parent' = "idle" /\ x_requestcode' = "open" /\ x_filename' = f
        /\ x_fifotail' = 0 /\ x_fifohead' = 0
        /\ x_bytespersample' = format[1] /\ x_sfchannels' = format[2]
        /\ x_eof' = NoFile /\ x_fileerror' = FALSE /\ x_state' = "startup"
        /\ output' = <<>> /\ heard' = 0 /\ ended' = FALSE /\ stale' = FALSE /\ x_buf' = EmptyBuffer
        /\ grown' = (x_vecsize > MAXVECSIZE)
        /\ UNCHANGED <<x_fifosize, x_vecsize, diskthread, doing>>
    BY <1>14 DEF ReadOpen, ParentRuns
  <2>2. /\ f # NoFile /\ x_bytespersample' \in Nat \ {0, 1} /\ x_sfchannels' \in Nat
    BY <1>14, <2>1, ReadSfAssumption
  <2>3. Fresh' /\ ~Quitting'
    BY <2>1 DEF Fresh, Quitting
  <2>4. DOMAIN x_buf' = 0..(BufSize - 1)
    BY <2>1 DEF EmptyBuffer
  <2>5. ReadTypeInv'
    <3>1. {x_fifosize', x_fifohead', x_fifotail', heard'} \subseteq Nat
      <4>1. x_fifosize \in Nat /\ 0 \in Nat
        BY DEF ReadInv, ReadTypeInv
      <4> QED
        BY <2>1, <4>1
    <3>2. grown' \in BOOLEAN /\ stale' \in BOOLEAN /\ ended' \in BOOLEAN /\ x_fileerror' \in BOOLEAN
      <4>1. (x_vecsize > MAXVECSIZE) \in BOOLEAN
        OBVIOUS
      <4>2. grown' \in BOOLEAN
        BY <2>1, <4>1, Zenon
      <4> QED
        BY <2>1, <4>2
    <3>3. /\ x_filename' \in DOMAIN Files \cup {NoFile} /\ x_vecsize' \in VecSizes
          /\ x_eof' \in DOMAIN Files \cup {NoFile, NotOpened}
      BY <1>14, <2>1 DEF ReadInv, ReadTypeInv
    <3> QED
      BY <2>2, <2>4, <3>1, <3>2, <3>3 DEF ReadTypeInv
  <2>6. ReadRequestInv'
    <3>1. ~grown' => ~(x_vecsize > MAXVECSIZE)
      BY <2>1, Zenon
    <3>2. x_vecsize \in Nat /\ MAXVECSIZE \in Nat
      BY SizeFacts DEF ReadInv, ReadTypeInv
    <3>3. ~grown' => x_vecsize' <= MAXVECSIZE
      BY <2>1, <3>1, <3>2
    <3> QED
      BY <2>1, <2>2, <2>3, <3>3 DEF ReadInv, ReadRequestInv
  <2>7. FreshInv'
    BY <2>1, <2>2 DEF FreshInv
  <2>8. FeedInv' /\ ReadFifoInv' /\ ReadingInv'
    BY <2>1, <2>3 DEF FeedInv, ReadFifoInv, ReadingInv
  <2>9. OutputInv'
    BY <1>14, <2>1, SilentOutput
  <2> QED
    BY <2>5, <2>6, <2>7, <2>8, <2>9 DEF ReadInv
<1>15. ASSUME PerformIsCalled PROVE ReadInv'
  <2>1. UNCHANGED readchange
    BY <1>15
    DEF PerformIsCalled, readchange, filevars, fifovars, tickvars, vecvars, heardvars
  <2>2. ReadRequestInv'
    BY <1>15, <2>1, WantFacts
    DEF PerformIsCalled, readchange, filevars, vecvars, ReadInv, ReadRequestInv, Quitting,
        Feeding
  <2>3. ReadQuiet
    BY <1>15, <2>1
    DEF PerformIsCalled, filevars, ReadInv, ReadRequestInv, FreshInv, ReadQuiet, Quitting,
        Feeding, Fresh, Live
  <2> QED
    BY <2>1, <2>2, <2>3, ReadQuietStep
<1>16. ASSUME ReadPerform PROVE ReadInv'
  <2>1. ASSUME PerformWaits(PerformsWith) PROVE ReadInv'
    <3>1. /\ parent \in {"called", "performing"} /\ parent' = "performing"
          /\ UNCHANGED readchange /\ UNCHANGED <<x_state, x_requestcode, diskthread, doing>>
      BY <1>16, <2>1
      DEF ReadPerform, ParentRuns, PerformWaits, AwaitAnswer, readchange, fifovars, tickvars
    <3>2. ReadRequestInv'
      BY <3>1 DEF readchange, filevars, vecvars, ReadInv, ReadRequestInv, Quitting, Feeding
    <3>3. ReadQuiet
      BY <3>1 DEF ReadQuiet, Quitting, Feeding, Fresh, Live
    <3> QED
      BY <3>2, <3>3, ReadQuietStep
  <2> QED
    BY <1>16, <2>1, PerformEndsStep, PerformBlockStep DEF ReadPerform
<1>17. ASSUME SfFreeWaits, UNCHANGED <<x_bytelimit, mine, heardvars>> PROVE ReadInv'
  <2>1. UNCHANGED readchange
    BY <1>17
    DEF SfFreeWaits, ParentRuns, AwaitAnswer, readchange, filevars, fifovars, tickvars,
        vecvars, heardvars
  <2>2. ReadRequestInv'
    BY <1>17, <2>1
    DEF SfFreeWaits, ParentRuns, AwaitAnswer, readchange, filevars, vecvars, ReadInv,
        ReadRequestInv, Quitting, Feeding
  <2>3. ReadQuiet
    BY <1>17, <2>1
    DEF SfFreeWaits, ParentRuns, AwaitAnswer, filevars, ReadInv, ReadRequestInv, FreshInv,
        ReadQuiet, Quitting, Feeding, Fresh, Live
  <2> QED
    BY <2>1, <2>2, <2>3, ReadQuietStep
<1>18. ASSUME SfJoined, UNCHANGED <<x_bytelimit, mine, heardvars>> PROVE ReadInv'
  <2>1. UNCHANGED readchange
    BY <1>18
    DEF SfJoined, ParentRuns, readchange, filevars, fifovars, tickvars, vecvars, heardvars
  <2>2. ReadRequestInv'
    BY <1>18, <2>1
    DEF SfJoined, ParentRuns, readchange, filevars, vecvars, ReadInv, ReadRequestInv,
        Quitting, Feeding
  <2>3. ReadQuiet
    BY <1>18, <2>1
    DEF SfJoined, ParentRuns, filevars, ReadInv, ReadRequestInv, FreshInv, ReadQuiet,
        Quitting, Feeding, Fresh, Live
  <2> QED
    BY <2>1, <2>2, <2>3, ReadQuietStep
<1>19. ASSUME ReadFrees PROVE ReadInv'
  <2>1. /\ parent = "idle" /\ parent' = "freeing" /\ x_requestcode' = "quit"
        /\ output' = <<>> /\ heard' = 0 /\ ended' = FALSE /\ grown' = FALSE /\ stale' = FALSE
        /\ x_buf' = EmptyBuffer
        /\ UNCHANGED <<x_state, x_filename, x_bytespersample, x_sfchannels, x_fileerror, x_eof, x_fifosize,
                       x_fifohead, x_fifotail, x_vecsize, diskthread, doing>>
    BY <1>19 DEF ReadFrees, SfFree, ParentRuns, AwaitAnswer, filevars, formatvars
  <2>2. Quitting' /\ ~Live'
    BY <2>1 DEF Quitting, Live
  <2>3. DOMAIN x_buf' = 0..(BufSize - 1)
    BY <2>1 DEF EmptyBuffer
  <2>4. ReadTypeInv'
    <3>1. {x_fifosize', x_fifohead', x_fifotail', heard'} \subseteq Nat
      <4>1. x_fifosize \in Nat /\ x_fifohead \in Nat /\ x_fifotail \in Nat /\ 0 \in Nat
        BY DEF ReadInv, ReadTypeInv
      <4> QED
        BY <2>1, <4>1
    <3>2. grown' \in BOOLEAN /\ stale' \in BOOLEAN /\ ended' \in BOOLEAN
      BY <2>1
    <3> QED
      BY <2>1, <2>3, <3>1, <3>2 DEF ReadInv, ReadTypeInv
  <2>5. ReadRequestInv'
    BY <2>1, <2>2 DEF ReadInv, ReadRequestInv
  <2>6. FreshInv'
    BY <2>1 DEF ReadInv, FreshInv, Fresh
  <2>7. FeedInv' /\ ReadFifoInv' /\ ReadingInv'
    BY <2>1, <2>2 DEF FeedInv, ReadFifoInv, ReadingInv
  <2>8. OutputInv'
    <3>1. DOMAIN output' = {}
      BY <2>1
    <3> QED
      BY <2>1, <3>1 DEF OutputInv
  <2> QED
    BY <2>4, <2>5, <2>6, <2>7, <2>8 DEF ReadInv
<1>20. ASSUME SfStart, UNCHANGED <<x_bytelimit, mine, heardvars>> PROVE ReadInv'
  <2>1. UNCHANGED readchange
    BY <1>20
    DEF SfStart, ParentRuns, readchange, filevars, fifovars, tickvars, vecvars, heardvars
  <2>2. ReadRequestInv'
    BY <1>20, <2>1
    DEF SfStart, ParentRuns, readchange, filevars, vecvars, ReadInv, ReadRequestInv,
        Quitting, Feeding
  <2>3. ReadQuiet
    BY <1>20, <2>1
    DEF SfStart, ParentRuns, filevars, ReadInv, ReadRequestInv, FreshInv, ReadQuiet,
        Quitting, Feeding, Fresh, Live
  <2> QED
    BY <2>1, <2>2, <2>3, ReadQuietStep
<1>21. ASSUME SfStop, UNCHANGED <<x_bytelimit, mine, heardvars>> PROVE ReadInv'
  <2>1. UNCHANGED readchange
    BY <1>21
    DEF SfStop, ParentRuns, readchange, filevars, fifovars, tickvars, vecvars, heardvars
  <2>2. ReadRequestInv'
    BY <1>21, <2>1
    DEF SfStop, ParentRuns, readchange, filevars, vecvars, ReadInv, ReadRequestInv,
        Quitting, Feeding
  <2>3. ReadQuiet
    BY <1>21, <2>1
    DEF SfStop, ParentRuns, filevars, ReadInv, ReadRequestInv, FreshInv, ReadQuiet,
        Quitting, Feeding, Fresh, Live
  <2> QED
    BY <2>1, <2>2, <2>3, ReadQuietStep
<1>22. ASSUME NEW v \in VecSizes, SfDsp(1, v), UNCHANGED <<x_bytelimit, mine, heardvars>> PROVE ReadInv'
  <2>1. /\ parent = "idle" /\ x_vecsize' = v /\ grown' = (grown \/ v > x_vecsize)
        /\ UNCHANGED <<x_state, x_requestcode, x_filename, x_bytespersample, x_sfchannels, x_fileerror,
                       x_filedes, x_eof, x_fifosize, x_fifohead, x_fifotail, x_buf, parent, diskthread,
                       doing, x_bytelimit, mine, output, heard, ended, stale>>
    BY <1>22 DEF SfDsp, ParentRuns, filevars, formatvars, fifovars, heardvars
  <2>2. /\ x_bytesperframe' = x_bytesperframe /\ Held' = Held /\ HasRead' = HasRead
        /\ Live' = Live /\ (Fresh' <=> Fresh) /\ (Feeding' <=> Feeding) /\ (Quitting' <=> Quitting)
    BY <2>1 DEF x_bytesperframe, Frame, formatvars, Held, HasRead, Live, Fresh, Feeding, Quitting
  <2>3. x_vecsize \in VecSizes /\ x_vecsize \in Nat /\ v \in Nat /\ MAXVECSIZE \in Nat /\ READSIZE \in Nat
    BY SizeFacts DEF ReadInv, ReadTypeInv
  <2>4. ~grown' => ~grown /\ ~(v > x_vecsize)
    BY <2>1, Zenon
  <2>5. ~grown' => ~grown /\ v <= x_vecsize
    BY <2>3, <2>4
  <2>6. ReadTypeInv'
    <3>1. grown' \in BOOLEAN
      BY <2>1
    <3> QED
      BY <2>1, <3>1 DEF ReadInv, ReadTypeInv
  <2>7. ReadRequestInv'
    <3>1. ~grown' => v <= MAXVECSIZE
      BY <2>1, <2>3, <2>5 DEF ReadInv, ReadRequestInv, Quitting
    <3> QED
      BY <2>1, <2>2, <3>1 DEF ReadInv, ReadRequestInv
  <2>8. FreshInv'
    BY <2>1, <2>2 DEF ReadInv, FreshInv
  <2>9. FeedInv'
    BY <2>1, <2>2 DEF ReadInv, FeedInv
  <2>10. x_bytesperframe \in Nat /\ WantBytes \in Nat /\ WantBytes' \in Nat
    <3>1. x_bytesperframe \in Nat /\ WantBytes \in Nat
      BY WantFacts DEF ReadInv
    <3>2. WantBytes' = x_bytesperframe * v
      BY <2>1, <2>2 DEF WantBytes
    <3> QED
      BY <2>3, <3>1, <3>2
  <2>11. ASSUME ~grown', NEW n \in Nat, Whole(n, WantBytes) PROVE Whole(n, WantBytes')
    <3>1. Whole(n, x_bytesperframe * x_vecsize)
      BY <2>11 DEF WantBytes
    <3>2. Whole(n, x_bytesperframe * v)
      BY <2>3, <2>5, <2>10, <2>11, <3>1, VectorDivides
    <3>3. WantBytes' = x_bytesperframe * v
      BY <2>1, <2>2 DEF WantBytes
    <3> QED
      BY <3>2, <3>3
  <2>12. ~grown' => Whole(WantBytes, WantBytes')
    <3>1. WantBytes = 1 * WantBytes
      BY <2>10
    <3>2. Whole(WantBytes, WantBytes)
      BY <3>1 DEF Whole
    <3> QED
      BY <2>10, <2>11, <3>2
  <2>13. ASSUME ~grown', NEW n \in Nat, Aligned(n, WantBytes) PROVE Aligned(n, WantBytes')
    BY <2>10, <2>12, <2>13, AlignedSmaller
  <2>14. ASSUME Good' PROVE Good
    <3>1. ~grown' /\ ~grown /\ FramesAreWhole'
      BY <2>5, <2>14 DEF Good
    <3>2. PICK d \in 2..READSIZE : READSIZE % d = 0 /\ WantBytes' % d = 0
      BY <3>1 DEF FramesAreWhole
    <3>3. d \in Nat \ {0}
      BY <2>3
    <3>4. Whole(WantBytes', d)
      BY <2>10, <3>2, <3>3, WholeRemainder
    <3>5. Whole(WantBytes, d)
      BY <2>10, <2>12, <3>1, <3>3, <3>4, WholeTransitive
    <3>6. WantBytes % d = 0
      BY <2>10, <3>3, <3>5, WholeRemainder
    <3>7. \E e \in 2..READSIZE : READSIZE % e = 0 /\ WantBytes % e = 0
      BY <3>2, <3>6
    <3>8. FramesAreWhole
      BY <2>1, <2>2, <3>1, <3>7 DEF FramesAreWhole
    <3> QED
      BY <2>1, <2>14, <3>1, <3>8 DEF Good
  <2>15. ASSUME Live, Good', PlayedIsRead PROVE PlayedIsRead'
    <3>1. ~grown'
      BY <2>15 DEF Good
    <3>2. x_fifotail \in Nat /\ heard \in Nat
      BY DEF ReadInv, ReadTypeInv
    <3>3. /\ x_fifosize = FifoSize(x_bytesperframe) /\ x_fifohead < x_fifosize /\ x_fifotail < x_fifosize
          /\ Whole(x_fifotail, WantBytes) /\ Whole(heard, WantBytes)
          /\ heard + Held = HasRead
          /\ \A k \in 0..(Held - 1) : x_buf[Behind(k)] = <<x_filename, heard + k>>
          /\ Aligned(HasRead, WantBytes) \/ HasRead = DataOf(x_filename)
      BY <2>15 DEF PlayedIsRead
    <3>4. Whole(x_fifotail, WantBytes') /\ Whole(heard, WantBytes')
      BY <2>11, <3>1, <3>2, <3>3
    <3>5. HasRead \in Nat
      <4>1. Held \in Nat
        <5>1. x_fifosize \in Nat /\ x_fifohead \in Nat
          BY DEF ReadInv, ReadTypeInv
        <5> QED
          BY <3>2, <3>3, <5>1 DEF Held
      <4> QED
        BY <3>2, <3>3, <4>1
    <3>6. Aligned(HasRead, WantBytes') \/ HasRead = DataOf(x_filename)
      BY <2>13, <3>1, <3>3, <3>5
    <3>7. (Aligned(HasRead, WantBytes) \/ HasRead = DataOf(x_filename))'
      BY <2>1, <2>2, <3>6 DEF Aligned
    <3>8. \A k \in 0..(Held' - 1) : x_buf'[Behind(k)'] = <<x_filename', heard' + k>>
      BY <2>1, <2>2, <3>3 DEF Behind
    <3> QED
      BY <2>1, <2>2, <3>3, <3>4, <3>7, <3>8 DEF PlayedIsRead
  <2>16. ReadFifoInv'
    BY <2>1, <2>2, <2>14, <2>15 DEF ReadInv, ReadFifoInv
  <2>17. ReadingInv'
    <3> SUFFICES ASSUME x_requestcode' = "busy", diskthread' = "reading" PROVE ReadingInv'
      BY DEF ReadingInv
    <3>1. /\ doing.file = x_filename /\ x_eof = NoFile
          /\ doing.to = x_fifohead /\ x_fifosize # 0
          /\ doing.want \in 0..x_bytelimit /\ (doing.want = 0 => x_bytelimit = 0)
          /\ x_fifohead + doing.want <= x_fifosize
          /\ Live /\ Good =>
               /\ Held + doing.want < x_fifosize
               /\ Aligned(x_filedes.at + doing.want, WantBytes) \/ doing.want = x_bytelimit
      BY <2>1 DEF ReadInv, ReadingInv
    <3>2. x_filedes.at + doing.want \in Nat
      <4>1. /\ x_bytelimit = Limit(x_filename) - x_filedes.at /\ x_filedes.at \in 0..DataOf(x_filename)
            /\ x_filename \in DOMAIN Files
        BY <2>1 DEF ReadInv, FeedInv, ReadTypeInv, ReadRequestInv, Feeding
      <4>2. Limit(x_filename) \in Nat /\ DataOf(x_filename) \in Nat
        BY <4>1, FileFacts
      <4> QED
        BY <3>1, <4>1, <4>2
    <3>3. ASSUME Live, Good'
          PROVE  Aligned(x_filedes.at + doing.want, WantBytes') \/ doing.want = x_bytelimit
      <4>1. ~grown'
        BY <3>3 DEF Good
      <4> QED
        BY <2>13, <2>14, <3>1, <3>2, <3>3, <4>1
    <3>4. Live' /\ Good' => Aligned(x_filedes.at + doing.want, WantBytes)' \/ doing.want = x_bytelimit
      BY <2>1, <2>2, <3>3 DEF Aligned
    <3> QED
      BY <2>1, <2>2, <2>14, <3>1, <3>4 DEF ReadingInv
  <2>18. OutputInv'
    BY <2>1, <2>14 DEF ReadInv, OutputInv
  <2> QED
    BY <2>6, <2>7, <2>8, <2>9, <2>16, <2>17, <2>18 DEF ReadInv
<1>23. ASSUME OpenTraps PROVE ReadInv'
  <2>1. UNCHANGED readchange
    BY <1>23
    DEF OpenTraps, ProgramEnds, restvars, readchange, filevars, fifovars, tickvars,
        vecvars, heardvars
  <2>2. ReadRequestInv'
    BY <1>23, <2>1
    DEF OpenTraps, ProgramEnds, restvars, readchange, filevars, vecvars, ReadInv,
        ReadRequestInv, Quitting, Feeding
  <2>3. ReadQuiet
    BY <1>23, <2>1
    DEF OpenTraps, ProgramEnds, restvars, filevars, ReadInv, ReadRequestInv, FreshInv,
        ReadQuiet, Quitting, Feeding, Fresh, Live
  <2> QED
    BY <2>1, <2>2, <2>3, ReadQuietStep
<1>24. ASSUME PerformTraps PROVE ReadInv'
  <2>1. UNCHANGED readchange
    BY <1>24
    DEF PerformTraps, ProgramEnds, restvars, readchange, filevars, fifovars, tickvars,
        vecvars, heardvars
  <2>2. ReadRequestInv'
    BY <1>24, <2>1
    DEF PerformTraps, ProgramEnds, restvars, readchange, filevars, vecvars, ReadInv,
        ReadRequestInv, Quitting, Feeding
  <2>3. ReadQuiet
    BY <1>24, <2>1
    DEF PerformTraps, ProgramEnds, restvars, filevars, ReadInv, ReadRequestInv, FreshInv,
        ReadQuiet, Quitting, Feeding, Fresh, Live
  <2> QED
    BY <2>1, <2>2, <2>3, ReadQuietStep
<1>25. ASSUME DspTraps PROVE ReadInv'
  <2>1. UNCHANGED readchange
    BY <1>25
    DEF DspTraps, ProgramEnds, restvars, readchange, filevars, fifovars, tickvars, vecvars,
        heardvars
  <2>2. ReadRequestInv'
    BY <1>25, <2>1
    DEF DspTraps, ProgramEnds, restvars, readchange, filevars, vecvars, ReadInv,
        ReadRequestInv, Quitting, Feeding
  <2>3. ReadQuiet
    BY <1>25, <2>1
    DEF DspTraps, ProgramEnds, restvars, filevars, ReadInv, ReadRequestInv, FreshInv,
        ReadQuiet, Quitting, Feeding, Fresh, Live
  <2> QED
    BY <2>1, <2>2, <2>3, ReadQuietStep
<1> QED
  BY <1>1, <1>2, <1>3, <1>4, <1>5, <1>6, <1>7, <1>8, <1>9, <1>10, <1>11, <1>12,
     <1>13, <1>14, <1>15, <1>16, <1>17, <1>18, <1>19, <1>20, <1>21, <1>22, <1>23, <1>24, <1>25
  DEF ReadNext, ReadChild, ReadParent, ReadFree, Opens

LEMMA ReadBegins == ReadInit => ReadInv
<1> SUFFICES ASSUME ReadInit PROVE ReadInv
  OBVIOUS
<1>1. /\ x_state = "idle" /\ x_requestcode = "nothing" /\ x_filename = NoFile
      /\ x_bytespersample = 2 /\ x_sfchannels \in IF x_class = "writesf~" THEN ChannelCounts ELSE {1}
      /\ x_fileerror = FALSE /\ x_fifosize = 0 /\ x_fifohead = 0 /\ x_fifotail = 0 /\ x_eof = NoFile
      /\ x_vecsize = MAXVECSIZE /\ grown = FALSE /\ x_buf = EmptyBuffer
      /\ parent = "idle" /\ diskthread = "top"
      /\ output = <<>> /\ heard = 0 /\ ended = FALSE /\ stale = FALSE
  BY DEF ReadInit, SoundfileInit
<1>2. ReadTypeInv
  <2>1. DOMAIN x_buf = 0..(BufSize - 1)
    BY <1>1 DEF EmptyBuffer
  <2>2. {x_fifosize, x_fifohead, x_fifotail, heard} \subseteq Nat
    BY <1>1
  <2>3. x_bytespersample \in Nat \ {0, 1} /\ x_sfchannels \in Nat
    BY <1>1, SoundfileAssumption
  <2>4. x_vecsize \in VecSizes
    BY <1>1, SizeFacts
  <2>5. x_fileerror \in BOOLEAN /\ ended \in BOOLEAN /\ grown \in BOOLEAN /\ stale \in BOOLEAN
    BY <1>1
  <2>6. x_filename \in DOMAIN Files \cup {NoFile} /\ x_eof \in DOMAIN Files \cup {NoFile, NotOpened}
    BY <1>1
  <2> QED
    BY <2>1, <2>2, <2>3, <2>4, <2>5, <2>6, Zenon DEF ReadTypeInv
<1>3. ~Fresh /\ ~Live /\ ~Good
  BY <1>1 DEF Fresh, Live, Good
<1>4. ReadRequestInv
  <2>1. x_vecsize <= MAXVECSIZE
    BY <1>1, SizeFacts
  <2> QED
    BY <1>1, <2>1 DEF ReadRequestInv, Quitting
<1>5. FreshInv /\ FeedInv /\ ReadFifoInv /\ ReadingInv /\ OutputInv
  BY <1>1, <1>3 DEF FreshInv, FeedInv, ReadFifoInv, ReadingInv, OutputInv
<1> QED
  BY <1>2, <1>4, <1>5 DEF ReadInv

\* What readsf~ puts out is what the file holds, byte by byte, and all of it: when
\* the fifo wraps around, the file is changed, and a request comes while the child is
\* at another.
THEOREM FileIsPlayed == ReadSpec => []PlaysTheFile
<1>1. ReadInv /\ UNCHANGED readvars => ReadInv'
  <2> SUFFICES ASSUME ReadInv, UNCHANGED readvars PROVE ReadInv'
    OBVIOUS
  <2>1. /\ UNCHANGED readchange
        /\ UNCHANGED <<x_state, x_requestcode, x_filename, x_vecsize, grown, parent, diskthread, doing, mine>>
    BY DEF readchange, readvars, soundfilevars, restvars, tickvars, filevars, vecvars
  <2>2. ReadRequestInv'
    BY <2>1 DEF ReadInv, ReadRequestInv, Quitting, Feeding
  <2>3. ReadQuiet
    BY <2>1 DEF ReadQuiet, Quitting, Feeding, Fresh, Live
  <2> QED
    BY <2>2, <2>3, ReadQuietStep
<1>2. ReadInv => PlaysTheFile
  <2> SUFFICES ASSUME ReadInv, x_filename \in DOMAIN Files, x_eof \in {NoFile, x_filename}, ~x_fileerror,
                      FramesAreWhole, ~grown, ~stale
               PROVE  /\ \A i \in DOMAIN output : output[i] = <<x_filename, heard - Len(output) + i - 1>>
                      /\ ended => heard = DataOf(x_filename)
    BY DEF PlaysTheFile
  <2>1. Good
    BY FileFacts DEF Good
  <2> QED
    BY <2>1 DEF ReadInv, OutputInv
<1>3. ReadInv /\ [ReadNext]_readvars => ReadInv'
  BY <1>1, ReadStep
<1> QED
  BY <1>2, <1>3, ReadBegins, PTL DEF ReadSpec

-----------------------------------------------------------------------------
(* writesf~.                                                               *)

Draining == diskthread \in {"stream", "hungry", "writing"}

Cells == (Names \cup {NoFile}) \X Int

Disks == [bytes : Seq(Cells), header : Int, created : BOOLEAN]

WriteTypeInv ==
  /\ x_filename \in Names \cup {NoFile}
  /\ x_bytespersample \in Nat \ {0} /\ x_sfchannels \in Nat \ {0}
  /\ x_class = "writesf~" => x_sfchannels \in ChannelCounts
  /\ x_vecsize \in VecSizes /\ grown \in BOOLEAN
  /\ {x_fifosize, x_fifohead, x_fifotail, x_itemswritten, taken} \subseteq Nat
  /\ x_buf \in [0..(BufSize - 1) -> Cells]
  /\ disk \in Disks

\* Where the two threads are, and what they have asked of each other.
RequestInv ==
  /\ x_state \in {"idle", "startup", "stream"}
  /\ x_requestcode \in {"nothing", "open", "busy", "close", "quit"}
  /\ x_fileerror \in BOOLEAN
  /\ parent \in {"idle", "opening", "performing", "freeing", "joining", "freed"}
  /\ diskthread \in {"top", "waiting", "creating", "stream", "hungry", "writing", "finishing", "exited"}
  /\ parent = "opening" => asked \in [file : Names, bytes : SampleSizes]
  /\ diskthread = "finishing" => doing.items \in Nat /\ doing.quit \in BOOLEAN
  /\ x_requestcode = "close" => x_state = "idle"
  /\ x_requestcode = "quit" => Quitting
  /\ Quitting => x_requestcode \in {"quit", "nothing"}
  /\ diskthread = "exited" \/ (diskthread = "finishing" /\ doing.quit) => Quitting
  /\ diskthread = "creating" \/ Draining => x_requestcode \in {"busy", "close", "quit"}
  /\ diskthread = "finishing" => x_requestcode \in {"close", "quit"}
  /\ x_requestcode \in {"nothing", "open"} \/ diskthread \in {"waiting", "creating"} => x_filedes = Nothing
  /\ x_requestcode = "open" => ~x_fileerror
  /\ x_requestcode = "open" \/ diskthread = "creating" => disk = NotCreated /\ x_fifotail = 0
  /\ x_fifosize = 0 =>
       /\ x_fifohead = 0 /\ x_fifotail = 0
       /\ x_state = "idle" /\ x_requestcode # "open" /\ x_filedes = Nothing
       /\ diskthread \in {"top", "waiting", "exited"}

\* Where the fifo begins and ends: between two vectors, as long as these have not grown.
PlaceInv ==
  /\ x_fifosize <= BufSize
  /\ x_fifosize # 0 =>
       /\ x_fifohead < x_fifosize /\ x_fifotail < x_fifosize
       /\ ~grown => Whole(x_fifosize, WantBytes) /\ Whole(x_fifohead, WantBytes)
  /\ READSIZE % x_bytesperframe = 0 /\ ~grown => Whole(x_fifotail, x_bytesperframe)

\* What the child writes now.
WritingInv ==
  diskthread = "writing" =>
    /\ doing.from = x_fifotail
    /\ doing.n \in 1..Held
    /\ x_fifotail + doing.n <= x_fifosize
    /\ READSIZE % x_bytesperframe = 0 /\ ~grown => Whole(doing.n, x_bytesperframe)

\* What was taken is in the file or in the fifo behind it.
FifoIsTrue ==
  /\ Len(disk.bytes) + Held = taken
  /\ \A k \in 0..(Held - 1) : x_buf[Behind(k)] = <<x_filename, Len(disk.bytes) + k>>
  /\ READSIZE % x_bytesperframe = 0 => x_itemswritten * x_bytesperframe = Len(disk.bytes)

FileInv ==
  ~x_fileerror /\ ~grown =>
    /\ ~Quitting \/ Draining => FifoIsTrue
    /\ Len(disk.bytes) <= taken
    /\ \A i \in DOMAIN disk.bytes : disk.bytes[i] = <<x_filename, i - 1>>

\* When the file is finished the fifo is empty.
EndInv ==
  ~x_fileerror /\ ~Quitting =>
    /\ diskthread = "top" /\ x_filedes # Nothing =>
         x_fifohead = x_fifotail /\ x_requestcode = "close"
    /\ diskthread = "finishing" => x_fifohead = x_fifotail /\ doing.items = x_itemswritten
    /\ disk.header # NoHeader =>
         /\ ~Draining /\ x_fifohead = x_fifotail /\ x_state = "idle"
         /\ disk.header = x_itemswritten

WInv == WriteTypeInv /\ RequestInv /\ PlaceInv /\ WritingInv /\ FileInv /\ EndInv

writechange == <<x_class, fifovars, vecvars, takevars, x_filename, formatvars, x_itemswritten>>

LEMMA SameFifo ==
  ASSUME UNCHANGED writechange
  PROVE  /\ Held' = Held /\ x_bytesperframe' = x_bytesperframe /\ WantBytes' = WantBytes
         /\ FifoIsTrue' = FifoIsTrue
         /\ WriteTypeInv' = WriteTypeInv /\ PlaceInv' = PlaceInv
<1>1. UNCHANGED <<x_class, x_fifosize, x_fifohead, x_fifotail, x_buf, x_vecsize, grown, disk, taken,
                  x_filename, x_bytespersample, x_sfchannels, x_itemswritten>>
  BY DEF writechange, fifovars, vecvars, takevars, formatvars
<1>2. x_bytesperframe' = x_bytesperframe
  BY <1>1 DEF x_bytesperframe, Frame, formatvars
<1>3. WantBytes' = WantBytes /\ Held' = Held
  BY <1>1, <1>2 DEF WantBytes, Held
<1>4. FifoIsTrue' = FifoIsTrue
  BY <1>1, <1>2, <1>3 DEF FifoIsTrue, Behind
<1>5. WriteTypeInv' = WriteTypeInv
  BY <1>1 DEF WriteTypeInv
<1>6. PlaceInv' = PlaceInv
  BY <1>1, <1>2, <1>3 DEF PlaceInv
<1> QED
  BY <1>2, <1>3, <1>4, <1>5, <1>6

LEMMA FrameIsNat ==
  ASSUME WriteTypeInv
  PROVE  x_bytesperframe \in Nat \ {0} /\ WantBytes \in Nat \ {0}
<1>1. x_bytespersample \in Nat \ {0} /\ x_sfchannels \in Nat \ {0} /\ x_vecsize \in Nat \ {0}
  BY SoundfileAssumption DEF WriteTypeInv
<1>2. x_bytesperframe \in Nat \ {0}
  BY <1>1 DEF x_bytesperframe, Frame, formatvars
<1> QED
  BY <1>1, <1>2 DEF WantBytes

LEMMA FifoWholes ==
  ASSUME WriteTypeInv, PlaceInv, x_fifosize # 0, ~grown
  PROVE  Whole(x_fifosize, x_bytesperframe) /\ Whole(x_fifohead, x_bytesperframe)
<1>1. x_bytesperframe \in Nat \ {0} /\ x_vecsize \in Nat \ {0} /\ x_fifosize \in Nat /\ x_fifohead \in Nat
  BY SoundfileAssumption, FrameIsNat DEF WriteTypeInv
<1>2. Whole(x_fifosize, x_bytesperframe * x_vecsize) /\ Whole(x_fifohead, x_bytesperframe * x_vecsize)
  BY DEF PlaceInv, WantBytes
<1> QED
  BY <1>1, <1>2, WholeOfProduct

LEMMA HeldIsNat ==
  ASSUME WriteTypeInv, PlaceInv, x_fifosize = 0 => x_fifohead = 0 /\ x_fifotail = 0
  PROVE  Held \in Nat /\ (x_fifosize # 0 => Held < x_fifosize)
  BY DEF WriteTypeInv, PlaceInv, Held

\* What is written at once is in the fifo, in one piece.
LEMMA PiledProperties ==
  ASSUME WInv, Draining, Piled # 0
  PROVE  /\ Piled \in 1..Held /\ x_fifotail + Piled <= x_fifosize
         /\ READSIZE % x_bytesperframe = 0 /\ ~grown => Whole(Piled, x_bytesperframe)
<1>1. /\ x_fifosize \in Nat \ {0} /\ x_fifohead \in Nat /\ x_fifotail \in Nat
      /\ x_fifohead < x_fifosize /\ x_fifotail < x_fifosize
      /\ x_bytesperframe \in Nat \ {0} /\ READSIZE \in Nat \ {0} /\ Held \in Nat
  BY SoundfileAssumption, HeldIsNat, FrameIsNat DEF WInv, WriteTypeInv, PlaceInv, RequestInv, Draining
<1> DEFINE end == IF x_fifohead < x_fifotail THEN x_fifosize ELSE x_fifohead
<1>2. Piled = (IF end - x_fifotail > READSIZE THEN READSIZE ELSE end - x_fifotail)
  BY DEF Piled
<1>3. /\ end \in Nat /\ x_fifotail < end /\ end <= x_fifosize
      /\ end - x_fifotail <= Held
  BY <1>1, <1>2 DEF Held
<1>4. ASSUME READSIZE % x_bytesperframe = 0, ~grown PROVE Whole(Piled, x_bytesperframe)
  <2>1. Whole(READSIZE, x_bytesperframe)
    BY <1>1, <1>4, WholeRemainder
  <2>2. Whole(end, x_bytesperframe) /\ Whole(x_fifotail, x_bytesperframe)
    BY <1>1, <1>4, FifoWholes DEF WInv, PlaceInv
  <2>3. Whole(end - x_fifotail, x_bytesperframe)
    BY <1>1, <1>3, <2>2, WholeDifference
  <2> QED
    BY <1>2, <2>1, <2>3
<1> HIDE DEF end
<1> QED
  BY <1>1, <1>2, <1>3, <1>4

LEMMA ConcatenatedProperties ==
  ASSUME NEW S, NEW s \in Seq(S), NEW n \in Nat, NEW f \in [1..n -> S]
  PROVE  /\ s \o f \in Seq(S) /\ Len(s \o f) = Len(s) + n
         /\ \A i \in 1..(Len(s) + n) : (s \o f)[i] = IF i <= Len(s) THEN s[i] ELSE f[i - Len(s)]
<1>1. f \in Seq(S) /\ Len(f) = n
  OBVIOUS
<1> QED
  BY <1>1

\* n bytes of those that are written now reach the file.
LEMMA WritesProperties ==
  ASSUME WInv, diskthread = "writing", NEW n \in Nat, n <= doing.n, Writes(n)
  PROVE  /\ disk' \in Disks
         /\ disk'.header = disk.header
         /\ Len(disk'.bytes) = Len(disk.bytes) + n
         /\ disk'.created = disk.created
         /\ ~x_fileerror /\ ~grown =>
              /\ Len(disk.bytes) + n <= taken
              /\ \A i \in DOMAIN disk'.bytes : disk'.bytes[i] = <<x_filename, i - 1>>
<1> DEFINE f == [i \in 1..n |-> x_buf[x_fifotail + i - 1]]
           s == disk.bytes
<1>1. /\ x_fifosize \in Nat \ {0} /\ x_fifotail \in Nat /\ x_fifohead \in Nat
      /\ x_fifosize <= BufSize /\ x_fifotail < x_fifosize /\ BufSize \in Nat
      /\ doing.from = x_fifotail /\ doing.n \in 1..Held /\ x_fifotail + doing.n <= x_fifosize
      /\ Held \in Nat
  BY HeldIsNat, SoundfileAssumption DEF WInv, WriteTypeInv, PlaceInv, WritingInv, RequestInv
<1>2. s \in Seq(Cells) /\ x_buf \in [0..(BufSize - 1) -> Cells]
      /\ disk \in Disks
  BY DEF WInv, WriteTypeInv, Disks
<1>3. f \in [1..n -> Cells]
  BY <1>1, <1>2
<1>4. disk' = [disk EXCEPT !.bytes = s \o f]
  BY <1>1 DEF Writes
<1>5. disk'.bytes = s \o f /\ disk'.header = disk.header /\ disk'.created = disk.created
  BY <1>2, <1>4 DEF Disks
<1>6. /\ s \o f \in Seq(Cells) /\ Len(s \o f) = Len(s) + n
      /\ \A i \in 1..(Len(s) + n) : (s \o f)[i] = IF i <= Len(s) THEN s[i] ELSE f[i - Len(s)]
  BY <1>2, <1>3, ConcatenatedProperties
<1>7. ASSUME ~x_fileerror, ~grown
      PROVE  /\ Len(s) + n <= taken
             /\ \A i \in 1..(Len(s) + n) : (s \o f)[i] = <<x_filename, i - 1>>
  <2>1. FifoIsTrue /\ Len(s) \in Nat /\ taken \in Nat /\ DOMAIN s = 1..Len(s)
    BY <1>2, <1>7, LenProperties DEF WInv, FileInv, Draining, WriteTypeInv
  <2>2. Len(s) + n <= taken
    BY <1>1, <2>1 DEF FifoIsTrue
  <2>3. ASSUME NEW i \in 1..(Len(s) + n) PROVE (s \o f)[i] = <<x_filename, i - 1>>
    <3>1. CASE i <= Len(s)
      BY <1>6, <1>7, <2>1, <3>1 DEF WInv, FileInv
    <3>2. CASE i > Len(s)
      <4> DEFINE k == i - Len(s) - 1
      <4>1. k \in Nat /\ k < n /\ i - Len(s) = k + 1
        <5> HIDE DEF s
        <5> QED
          BY <2>1, <3>2
      <4> HIDE DEF k
      <4>2. k \in 0..(Held - 1) /\ x_fifotail + k < x_fifosize
        BY <1>1, <4>1
      <4>3. Behind(k) = x_fifotail + k
        BY <4>2 DEF Behind
      <4>4. f[k + 1] = x_buf[x_fifotail + k]
        BY <1>1, <4>1
      <4>5. x_buf[Behind(k)] = <<x_filename, Len(s) + k>>
        BY <2>1, <4>2 DEF FifoIsTrue
      <4> HIDE DEF f, s
      <4>6. Len(s) + k = i - 1 /\ (s \o f)[i] = f[k + 1]
        BY <1>6, <2>1, <3>2, <4>1
      <4> QED
        BY <4>3, <4>4, <4>5, <4>6
    <3>3. i <= Len(s) \/ i > Len(s)
      BY <2>1
    <3> HIDE DEF f, s
    <3> QED
      BY <3>1, <3>2, <3>3, Zenon
  <2> QED
    BY <2>2, <2>3
<1> HIDE DEF f, s
<1>8. disk' \in Disks
  BY <1>2, <1>4, <1>6 DEF Disks
<1>9. DOMAIN (s \o f) = 1..(Len(s) + n)
  BY <1>6, LenProperties
<1> QED
  BY <1>5, <1>6, <1>7, <1>8, <1>9 DEF s

\* A step that leaves the fifo and the file alone.
WriteQuiet ==
  /\ UNCHANGED writechange
  /\ diskthread' = "writing" => diskthread = "writing" /\ UNCHANGED doing
  /\ x_fileerror => x_fileerror'
  /\ ~Quitting' \/ Draining' => ~Quitting \/ Draining

LEMMA WriteQuietStep ==
  ASSUME WInv, WriteQuiet, RequestInv', EndInv'
  PROVE  WInv'
<1>1. /\ Held' = Held /\ x_bytesperframe' = x_bytesperframe /\ FifoIsTrue' = FifoIsTrue
      /\ WriteTypeInv' /\ PlaceInv'
  BY SameFifo DEF WriteQuiet, WInv
<1>2. UNCHANGED <<x_fifosize, x_fifotail, grown, disk, taken, x_filename>>
  BY DEF WriteQuiet, writechange, fifovars, vecvars, takevars
<1>3. WritingInv'
  BY <1>1, <1>2 DEF WriteQuiet, WInv, WritingInv
<1>4. FileInv'
  BY <1>1, <1>2 DEF WriteQuiet, WInv, FileInv
<1> QED
  BY <1>1, <1>3, <1>4 DEF WInv

LEMMA WriteStep == WInv /\ WriteNext => WInv'
<1> SUFFICES ASSUME WInv, WriteNext PROVE WInv'
  OBVIOUS
<1> USE DEF HasMutex, Nothing
<1>1. ASSUME IsWriteSf, ChildWakes, UNCHANGED <<asked, x_itemswritten, takevars>> PROVE WInv'
  <2>1. UNCHANGED writechange
    BY <1>1
    DEF IsWriteSf, ChildWakes, writechange, filevars, fifovars, tickvars, vecvars, takevars
  <2>2. RequestInv'
    BY <1>1, <2>1
    DEF ChildWakes, writechange, filevars, fifovars, takevars, WInv, WriteTypeInv,
        RequestInv, Quitting, Draining
  <2>3. EndInv'
    BY <1>1, <2>1
    DEF ChildWakes, writechange, filevars, fifovars, takevars, WInv, RequestInv, EndInv,
        Quitting, Draining
  <2>4. WriteQuiet
    BY <1>1, <2>1
    DEF ChildWakes, filevars, WInv, RequestInv, WriteQuiet, Quitting, Draining
  <2> QED
    BY <2>1, <2>2, <2>3, <2>4, WriteQuietStep
<1>2. ASSUME IsWriteSf, ChildHasNothingToDo, UNCHANGED <<asked, x_itemswritten, takevars>> PROVE WInv'
  <2>1. UNCHANGED writechange
    BY <1>2
    DEF IsWriteSf, ChildHasNothingToDo, AwaitRequest, writechange, filevars, fifovars,
        tickvars, vecvars, takevars
  <2>2. RequestInv'
    BY <1>2, <2>1
    DEF ChildHasNothingToDo, AwaitRequest, writechange, filevars, fifovars, takevars, WInv,
        WriteTypeInv, RequestInv, Quitting, Draining
  <2>3. EndInv'
    BY <1>2, <2>1
    DEF ChildHasNothingToDo, AwaitRequest, writechange, filevars, fifovars, takevars, WInv,
        RequestInv, EndInv, Quitting, Draining
  <2>4. WriteQuiet
    BY <1>2, <2>1
    DEF ChildHasNothingToDo, AwaitRequest, filevars, WInv, RequestInv, WriteQuiet,
        Quitting, Draining
  <2> QED
    BY <2>1, <2>2, <2>3, <2>4, WriteQuietStep
<1>3. ASSUME IsWriteSf, TakeCreate PROVE WInv'
  <2>1. UNCHANGED writechange
    BY <1>3
    DEF IsWriteSf, TakeCreate, writechange, filevars, fifovars, tickvars, vecvars, takevars
  <2>2. RequestInv'
    BY <1>3, <2>1
    DEF TakeCreate, writechange, filevars, fifovars, takevars, WInv, WriteTypeInv,
        RequestInv, Quitting, Draining
  <2>3. EndInv'
    BY <1>3, <2>1
    DEF TakeCreate, writechange, filevars, fifovars, takevars, WInv, RequestInv, EndInv,
        Quitting, Draining
  <2>4. WriteQuiet
    BY <1>3, <2>1
    DEF TakeCreate, filevars, WInv, RequestInv, WriteQuiet, Quitting, Draining
  <2> QED
    BY <2>1, <2>2, <2>3, <2>4, WriteQuietStep
<1>4. ASSUME IsWriteSf, Created PROVE WInv'
  <2>1. CASE x_requestcode # "busy"
    <3>1. UNCHANGED writechange
      BY <1>4, <2>1 DEF IsWriteSf, Created, writechange, fifovars, takevars, tickvars
    <3>2. RequestInv'
      BY <1>4, <2>1, <3>1
      DEF Created, writechange, fifovars, takevars, WInv, RequestInv, Quitting, Draining
    <3>3. EndInv'
      BY <1>4, <2>1, <3>1
      DEF Created, writechange, fifovars, takevars, WInv, RequestInv, EndInv, Quitting, Draining
    <3>4. WriteQuiet
      BY <1>4, <2>1, <3>1 DEF Created, WInv, RequestInv, WriteQuiet, Quitting, Draining
    <3> QED
      BY <3>2, <3>3, <3>4, WriteQuietStep
  <2>2. CASE x_requestcode = "busy"
    <3>1. /\ disk = NotCreated /\ x_fifotail = 0 /\ disk'.bytes = disk.bytes /\ disk.bytes = <<>>
          /\ disk'.header = NoHeader
          /\ disk' \in Disks
      <4>1. disk = NotCreated /\ x_fifotail = 0
        BY <1>4 DEF Created, WInv, RequestInv
      <4>2. disk' = [NotCreated EXCEPT !.created = TRUE]
        BY <1>4, <2>2 DEF Created
      <4>3. disk' = [bytes |-> <<>>, header |-> -1, created |-> TRUE]
        BY <4>2 DEF NotCreated, NoHeader
      <4>4. <<>> \in Seq(Cells) /\ -1 \in Int
        OBVIOUS
      <4> QED
        BY <4>1, <4>3, <4>4 DEF NotCreated, NoHeader, Disks
    <3>2. /\ UNCHANGED <<x_class, fifovars, vecvars, taken, x_filename, formatvars>>
          /\ x_itemswritten' = 0
      BY <1>4, <2>2, <3>1 DEF IsWriteSf, Created, fifovars, tickvars
    <3>3. UNCHANGED <<x_fifosize, x_fifohead, x_fifotail, x_buf, x_vecsize, grown, x_bytespersample,
                      x_sfchannels>>
      BY <3>2 DEF fifovars, vecvars, formatvars
    <3>4. /\ Held' = Held /\ x_bytesperframe' = x_bytesperframe /\ WantBytes' = WantBytes
          /\ \A k \in Nat : Behind(k)' = Behind(k)
      <4>1. x_bytesperframe' = x_bytesperframe
        BY <3>2 DEF x_bytesperframe, Frame, formatvars
      <4> QED
        BY <3>3, <4>1 DEF Held, WantBytes, Behind
    <3>5. /\ ~Quitting /\ diskthread' = "stream" /\ x_requestcode' = "busy" /\ x_fifosize # 0
          /\ UNCHANGED <<x_state, x_fileerror, parent, asked>>
      BY <1>4, <2>2 DEF Created, WInv, RequestInv
    <3>6. WriteTypeInv'
      BY <3>1, <3>2, <3>3 DEF WInv, WriteTypeInv
    <3>7. RequestInv'
      BY <3>2, <3>3, <3>5 DEF WInv, RequestInv, Quitting, Draining
    <3>8. PlaceInv' /\ WritingInv'
      BY <3>3, <3>4, <3>5 DEF WInv, PlaceInv, WritingInv
    <3>9. FileInv'
      <4>1. SUFFICES ASSUME ~x_fileerror, ~grown PROVE FileInv'
        BY <3>3, <3>5 DEF FileInv
      <4>2. FifoIsTrue /\ Len(disk.bytes) = 0 /\ x_bytesperframe \in Nat
        BY <3>1, <3>5, <4>1, FrameIsNat DEF WInv, FileInv
      <4>3. Held \in Nat
        BY <3>5, HeldIsNat DEF WInv
      <4>4. FifoIsTrue'
        BY <3>1, <3>2, <3>3, <3>4, <4>2, <4>3 DEF FifoIsTrue
      <4> QED
        BY <3>1, <3>2, <4>1, <4>4 DEF FileInv, WInv
    <3>10. EndInv'
      BY <3>1, <3>5 DEF EndInv
    <3> QED
      BY <3>6, <3>7, <3>8, <3>9, <3>10 DEF WInv
  <2> QED
    BY <2>1, <2>2
<1>5. ASSUME IsWriteSf, CreateFails PROVE WInv'
  <2>1. UNCHANGED writechange
    BY <1>5
    DEF IsWriteSf, CreateFails, writechange, filevars, fifovars, tickvars, vecvars,
        takevars
  <2>2. RequestInv'
    BY <1>5, <2>1
    DEF CreateFails, writechange, filevars, fifovars, takevars, WInv, WriteTypeInv,
        RequestInv, Quitting, Draining
  <2>3. EndInv'
    BY <1>5, <2>1
    DEF CreateFails, writechange, filevars, fifovars, takevars, WInv, RequestInv, EndInv,
        Quitting, Draining
  <2>4. WriteQuiet
    BY <1>5, <2>1
    DEF CreateFails, filevars, WInv, RequestInv, WriteQuiet, Quitting, Draining
  <2> QED
    BY <2>1, <2>2, <2>3, <2>4, WriteQuietStep
<1>6. ASSUME IsWriteSf, BeginWrite PROVE WInv'
  <2>1. UNCHANGED writechange
    BY <1>6 DEF IsWriteSf, BeginWrite, writechange, filevars, fifovars, tickvars, takevars
  <2>2. /\ Held' = Held /\ x_bytesperframe' = x_bytesperframe /\ FifoIsTrue' = FifoIsTrue
        /\ WriteTypeInv' /\ PlaceInv'
    BY <2>1, SameFifo DEF WInv
  <2>3. RequestInv'
    BY <1>6, <2>1
    DEF BeginWrite, writechange, filevars, fifovars, takevars, WInv, RequestInv, Quitting, Draining
  <2>4. WritingInv'
    <3>1. /\ Piled \in 1..Held /\ x_fifotail + Piled <= x_fifosize
          /\ READSIZE % x_bytesperframe = 0 /\ ~grown => Whole(Piled, x_bytesperframe)
      BY <1>6, PiledProperties DEF BeginWrite, Draining
    <3>2. UNCHANGED <<x_fifosize, x_fifotail, grown>>
      BY <2>1 DEF writechange, fifovars, vecvars
    <3>3. doing'.n = Piled /\ doing'.from = x_fifotail
      BY <1>6 DEF BeginWrite
    <3> QED
      BY <2>2, <3>1, <3>2, <3>3 DEF WritingInv
  <2>5. FileInv'
    <3>1. UNCHANGED <<disk, taken, x_filename, grown, x_fileerror, parent>> /\ Draining
      BY <1>6, <2>1 DEF BeginWrite, writechange, filevars, takevars, vecvars, Draining
    <3> QED
      BY <2>2, <3>1 DEF WInv, FileInv
  <2>6. EndInv'
    BY <1>6, <2>1
    DEF BeginWrite, writechange, filevars, fifovars, takevars, WInv, EndInv, RequestInv,
        Quitting, Draining
  <2> QED
    BY <2>2, <2>3, <2>4, <2>5, <2>6 DEF WInv
<1>7. ASSUME IsWriteSf, FifoIsLow PROVE WInv'
  <2>1. UNCHANGED writechange
    BY <1>7
    DEF IsWriteSf, FifoIsLow, ChildIsHungry, AwaitRequest, writechange, filevars, fifovars,
        tickvars, vecvars, takevars
  <2>2. RequestInv'
    BY <1>7, <2>1
    DEF FifoIsLow, ChildIsHungry, AwaitRequest, writechange, filevars, fifovars, takevars,
        WInv, WriteTypeInv, RequestInv, Quitting, Draining
  <2>3. EndInv'
    BY <1>7, <2>1
    DEF FifoIsLow, ChildIsHungry, AwaitRequest, writechange, filevars, fifovars, takevars,
        WInv, RequestInv, EndInv, Quitting, Draining
  <2>4. WriteQuiet
    BY <1>7, <2>1
    DEF FifoIsLow, ChildIsHungry, AwaitRequest, filevars, WInv, RequestInv, WriteQuiet,
        Quitting, Draining
  <2> QED
    BY <2>1, <2>2, <2>3, <2>4, WriteQuietStep
<1>8. ASSUME IsWriteSf, DrainEnds PROVE WInv'
  <2>1. UNCHANGED writechange
    BY <1>8
    DEF IsWriteSf, DrainEnds, Drains, writechange, filevars, fifovars, tickvars, vecvars,
        takevars
  <2>2. RequestInv'
    BY <1>8, <2>1
    DEF DrainEnds, Drains, writechange, filevars, fifovars, takevars, WInv, WriteTypeInv,
        RequestInv, Quitting, Draining
  <2>3. EndInv'
    BY <1>8, <2>1
    DEF DrainEnds, Drains, writechange, filevars, fifovars, takevars, WInv, RequestInv,
        EndInv, Quitting, Draining
  <2>4. WriteQuiet
    BY <1>8, <2>1
    DEF DrainEnds, Drains, filevars, WInv, RequestInv, WriteQuiet, Quitting, Draining
  <2> QED
    BY <2>1, <2>2, <2>3, <2>4, WriteQuietStep
<1>9. ASSUME IsWriteSf, WriteBytes PROVE WInv'
  <2> DEFINE n == doing.n
  <2>0. diskthread = "writing" /\ Writes(n) /\ x_fifosize # 0
    BY <1>9 DEF WriteBytes, WInv, RequestInv
  <2>1. /\ n \in 1..Held /\ Held \in Nat /\ Held < x_fifosize
        /\ x_fifotail + n <= x_fifosize
        /\ x_fifosize \in Nat \ {0} /\ x_fifotail \in Nat /\ x_fifohead \in Nat
        /\ x_fifotail < x_fifosize /\ x_fifohead < x_fifosize
        /\ x_bytesperframe \in Nat \ {0} /\ x_itemswritten \in Nat
    BY <2>0, HeldIsNat, FrameIsNat DEF WInv, WriteTypeInv, WritingInv, PlaceInv
  <2>2. /\ disk' \in Disks
        /\ disk'.header = disk.header
        /\ Len(disk'.bytes) = Len(disk.bytes) + n
        /\ ~x_fileerror /\ ~grown =>
             /\ Len(disk.bytes) + n <= taken
             /\ \A i \in DOMAIN disk'.bytes : disk'.bytes[i] = <<x_filename, i - 1>>
    BY <2>0, <2>1, WritesProperties
  <2>3. UNCHANGED <<x_class, x_fifosize, x_fifohead, x_buf, taken, x_filename, x_bytespersample, x_sfchannels,
                    x_vecsize, grown, x_state, x_requestcode, x_fileerror, x_filedes, parent, asked>>
    BY <1>9 DEF IsWriteSf, WriteBytes, filevars, formatvars, tickvars, vecvars
  <2>4. x_bytesperframe' = x_bytesperframe /\ WantBytes' = WantBytes
    BY <2>3 DEF x_bytesperframe, Frame, formatvars, WantBytes
  <2>5. /\ x_requestcode \in {"busy", "close", "quit"} /\ (x_requestcode = "quit" <=> Quitting)
        /\ Len(disk.bytes) \in Nat
    BY <2>0 DEF WInv, RequestInv, WriteTypeInv, Draining, Disks
  <2>6. CASE x_requestcode = "quit"
    <3>1. diskthread' = "top" /\ UNCHANGED <<x_fifotail, x_itemswritten>> /\ Quitting'
      BY <1>9, <2>3, <2>5, <2>6 DEF WriteBytes, Quitting
    <3>2. WriteTypeInv'
      BY <2>2, <2>3, <3>1 DEF WInv, WriteTypeInv
    <3>3. RequestInv'
      BY <2>0, <2>1, <2>3, <2>6, <3>1 DEF WInv, RequestInv, Quitting, Draining
    <3>4. PlaceInv' /\ WritingInv'
      BY <2>1, <2>3, <2>4, <3>1 DEF WInv, PlaceInv, WritingInv
    <3>5. FileInv' /\ EndInv'
      BY <2>2, <2>3, <3>1 DEF FileInv, EndInv, Draining
    <3> QED
      BY <3>2, <3>3, <3>4, <3>5 DEF WInv
  <2>7. CASE x_requestcode # "quit"
    <3>1. /\ diskthread' = "stream" /\ ~Quitting /\ ~Quitting' /\ Draining'
          /\ x_fifotail' = (x_fifotail + n) % x_fifosize
          /\ x_itemswritten' = x_itemswritten + n \div x_bytesperframe
      BY <1>9, <2>3, <2>5, <2>7 DEF WriteBytes, Quitting, Draining
    <3>2. x_fifotail' = IF x_fifotail + n < x_fifosize THEN x_fifotail + n ELSE 0
      <4> HIDE DEF n
      <4>1. x_fifotail + n \in 0..(2 * x_fifosize - 1)
        BY <2>1
      <4> DEFINE a == x_fifotail + n
      <4>2. a \in 0..(2 * x_fifosize - 1) /\ x_fifosize \in Nat \ {0}
        BY <2>1, <4>1
      <4>3. x_fifotail' = a % x_fifosize
        BY <3>1
      <4>4. a <= x_fifosize
        BY <2>1
      <4> HIDE DEF a
      <4>5. a % x_fifosize = IF a < x_fifosize THEN a ELSE a - x_fifosize
        BY <4>2, ModSmall
      <4>6. x_fifotail' = IF a < x_fifosize THEN a ELSE 0
        BY <4>2, <4>3, <4>4, <4>5
      <4> QED
        BY <4>6 DEF a
    <3>3. n \div x_bytesperframe \in Nat /\ x_itemswritten' \in Nat
      <4> HIDE DEF n
      <4>1. n \div x_bytesperframe \in Nat
        BY <2>1, DivBounds
      <4> QED
        BY <2>1, <3>1, <4>1
    <3>4. Held' = Held - n /\ x_fifotail' \in Nat /\ x_fifotail' < x_fifosize
      <4> HIDE DEF n
      <4> QED
        BY <2>1, <2>3, <3>2 DEF Held
    <3>5. WriteTypeInv'
      BY <2>2, <2>3, <3>3, <3>4 DEF WInv, WriteTypeInv
    <3>6. RequestInv'
      BY <2>0, <2>1, <2>3, <2>5, <2>7, <3>1 DEF WInv, RequestInv, Quitting, Draining
    <3>7. ASSUME READSIZE % x_bytesperframe = 0, ~grown
          PROVE  /\ Whole(x_fifotail', x_bytesperframe)
                 /\ (n \div x_bytesperframe) * x_bytesperframe = n
      <4>1. Whole(n, x_bytesperframe) /\ Whole(x_fifotail, x_bytesperframe)
        BY <2>0, <3>7 DEF WInv, PlaceInv, WritingInv
      <4> HIDE DEF n
      <4>2. n \in Nat
        BY <2>1
      <4>3. Whole(x_fifotail + n, x_bytesperframe)
        BY <2>1, <4>1, <4>2, WholeSum
      <4>4. Whole(0, x_bytesperframe)
        BY <2>1 DEF Whole
      <4> QED
        BY <2>1, <3>2, <4>1, <4>2, <4>3, <4>4, WholeQuotient
    <3>8. PlaceInv'
      BY <2>1, <2>3, <2>4, <3>1, <3>4, <3>7 DEF WInv, PlaceInv
    <3>9. WritingInv' /\ EndInv'
      BY <2>0, <2>2, <2>3, <3>1 DEF WInv, WritingInv, EndInv, Draining
    <3>10. ASSUME ~x_fileerror, ~grown PROVE FifoIsTrue'
      <4>1. FifoIsTrue
        BY <2>0, <3>10 DEF WInv, FileInv, Draining
      <4>2. Len(disk'.bytes) + Held' = taken'
        BY <2>1, <2>2, <2>3, <2>5, <3>4, <4>1 DEF FifoIsTrue
      <4>3. ASSUME NEW k \in 0..(Held' - 1)
            PROVE  x_buf'[Behind(k)'] = <<x_filename', Len(disk'.bytes) + k>>
        <5> HIDE DEF n
        <5>1. Behind(k)' = Behind(n + k) /\ n + k \in 0..(Held - 1)
          BY <2>1, <2>3, <3>2, <3>4 DEF Behind
        <5>2. x_buf[Behind(n + k)] = <<x_filename, Len(disk.bytes) + (n + k)>>
          BY <4>1, <5>1 DEF FifoIsTrue
        <5>3. Len(disk.bytes) + (n + k) = Len(disk'.bytes) + k
          <6>1. \A a, b, c \in Nat : a + (b + c) = (a + b) + c
            OBVIOUS
          <6>2. n \in Nat /\ k \in Nat /\ Len(disk.bytes) \in Nat
            BY <2>1, <2>5, <3>4
          <6>3. Len(disk'.bytes) = Len(disk.bytes) + n
            BY <2>2
          <6>4. Len(disk.bytes) + (n + k) = (Len(disk.bytes) + n) + k
            BY <6>1, <6>2, Zenon
          <6>5. (Len(disk.bytes) + n) + k = Len(disk'.bytes) + k
            BY <6>3, Zenon
          <6> QED
            BY <6>4, <6>5, Zenon
        <5> QED
          BY <2>3, <5>1, <5>2, <5>3
      <4>4. ASSUME READSIZE % x_bytesperframe = 0
            PROVE  x_itemswritten' * x_bytesperframe = Len(disk'.bytes)
        <5> DEFINE d == n \div x_bytesperframe
        <5>1. x_itemswritten * x_bytesperframe = Len(disk.bytes)
          BY <4>1, <4>4 DEF FifoIsTrue
        <5>2. d * x_bytesperframe = n /\ d \in Nat /\ x_itemswritten' = x_itemswritten + d
          BY <3>1, <3>3, <3>7, <3>10, <4>4
        <5> HIDE DEF d, n
        <5>3. (x_itemswritten + d) * x_bytesperframe = x_itemswritten * x_bytesperframe + d * x_bytesperframe
          BY <2>1, <5>2
        <5> QED
          BY <2>2, <5>1, <5>2, <5>3
      <4> QED
        BY <2>4, <4>2, <4>3, <4>4 DEF FifoIsTrue
    <3>11. FileInv'
      BY <2>2, <2>3, <3>10 DEF FileInv
    <3> QED
      BY <3>5, <3>6, <3>8, <3>9, <3>11 DEF WInv
  <2> QED
    BY <2>6, <2>7
<1>10. ASSUME IsWriteSf, WriteFails PROVE WInv'
  <2>1. PICK n \in {0, doing.n - 1} : Writes(n)
    BY <1>10 DEF WriteFails
  <2>2. diskthread = "writing" /\ n \in Nat /\ n <= doing.n /\ x_fifosize # 0
    <3>1. diskthread = "writing"
      BY <1>10 DEF WriteFails
    <3>2. x_fifosize # 0
      BY <3>1 DEF WInv, RequestInv
    <3>3. doing.n \in 1..Held /\ Held \in Nat
      BY <3>1, <3>2, HeldIsNat DEF WInv, WritingInv
    <3> QED
      BY <3>1, <3>2, <3>3
  <2>3. /\ disk' \in Disks
        /\ ~x_fileerror /\ ~grown =>
             /\ Len(disk'.bytes) <= taken
             /\ \A i \in DOMAIN disk'.bytes : disk'.bytes[i] = <<x_filename, i - 1>>
    BY <2>1, <2>2, WritesProperties
  <2>4. /\ UNCHANGED <<x_class, fifovars, vecvars, taken, x_filename, formatvars, x_itemswritten, x_state,
                       x_requestcode, x_filedes, parent, asked>>
        /\ diskthread' = "top"
        /\ x_fileerror' = (x_fileerror \/ x_requestcode \in {"busy", "close"})
    BY <1>10 DEF IsWriteSf, WriteFails, tickvars
  <2>5. UNCHANGED <<x_fifosize, x_fifohead, x_fifotail, x_buf, x_vecsize, grown, x_bytespersample,
                    x_sfchannels>>
    BY <2>4 DEF fifovars, vecvars, formatvars
  <2>6. x_requestcode \in {"busy", "close", "quit"} /\ (x_requestcode = "quit" <=> Quitting)
    BY <2>2 DEF WInv, RequestInv, Draining
  <2>7. WriteTypeInv'
    BY <2>3, <2>4, <2>5 DEF WInv, WriteTypeInv
  <2>8. RequestInv'
    BY <2>2, <2>4, <2>5, <2>6 DEF WInv, RequestInv, Quitting, Draining
  <2>9. PlaceInv' /\ WritingInv'
    <3>1. x_bytesperframe' = x_bytesperframe
      BY <2>4 DEF x_bytesperframe, Frame, formatvars
    <3>2. WantBytes' = WantBytes
      BY <2>5, <3>1 DEF WantBytes
    <3> QED
      BY <2>4, <2>5, <3>1, <3>2 DEF WInv, PlaceInv, WritingInv
  <2>10. FileInv' /\ EndInv'
    <3>1. CASE x_requestcode = "quit"
      BY <2>3, <2>4, <2>5, <2>6, <3>1 DEF FileInv, EndInv, Quitting, Draining
    <3>2. CASE x_requestcode # "quit"
      BY <2>4, <2>6, <3>2 DEF FileInv, EndInv
    <3> QED
      BY <3>1, <3>2
  <2> QED
    BY <2>7, <2>8, <2>9, <2>10 DEF WInv
<1>11. ASSUME IsWriteSf, TakeEnd PROVE WInv'
  <2>1. UNCHANGED writechange
    BY <1>11
    DEF IsWriteSf, TakeEnd, Answers, writechange, filevars, fifovars, tickvars, takevars
  <2>2. RequestInv'
    <3>1. CASE x_filedes # Nothing
      <4>1. /\ doing' = [file |-> x_filedes.file, items |-> x_itemswritten, quit |-> (x_requestcode = "quit")]
            /\ diskthread' = "finishing" /\ x_requestcode \in {"close", "quit"}
            /\ UNCHANGED <<x_requestcode, x_state, x_fileerror, x_filedes, parent, asked>>
        BY <1>11, <3>1 DEF TakeEnd, filevars
      <4>2. /\ doing'.items = x_itemswritten /\ doing'.quit = (x_requestcode = "quit")
            /\ doing'.quit \in BOOLEAN /\ x_itemswritten \in Nat
        BY <4>1 DEF WInv, WriteTypeInv
      <4>3. doing'.quit => Quitting
        BY <4>2 DEF WInv, RequestInv
      <4> QED
        BY <2>1, <3>1, <4>1, <4>2, <4>3
        DEF writechange, fifovars, takevars, WInv, RequestInv, Quitting, Draining
    <3>2. CASE x_filedes = Nothing
      BY <1>11, <2>1, <3>2
      DEF TakeEnd, Answers, writechange, filevars, fifovars, takevars, WInv, RequestInv,
          Quitting, Draining
    <3> QED
      BY <3>1, <3>2
  <2>3. EndInv'
    BY <1>11, <2>1
    DEF TakeEnd, Answers, writechange, filevars, fifovars, takevars, WInv, RequestInv, EndInv,
        Quitting, Draining
  <2>4. WriteQuiet
    BY <1>11, <2>1
    DEF TakeEnd, Answers, filevars, WInv, RequestInv, WriteQuiet, Quitting, Draining
  <2> QED
    BY <2>1, <2>2, <2>3, <2>4, WriteQuietStep
<1>12. ASSUME IsWriteSf, Finished PROVE WInv'
  <2>1. /\ UNCHANGED <<x_class, fifovars, vecvars, taken, x_filename, formatvars, x_itemswritten, x_state,
                       x_fileerror, parent, asked>>
        /\ x_filedes' = Nothing /\ x_requestcode' = "nothing"
        /\ disk' = [disk EXCEPT !.header = doing.items]
        /\ diskthread = "finishing" /\ diskthread' \in {"exited", "top"}
        /\ diskthread' = "exited" => doing.quit = TRUE
    BY <1>12 DEF IsWriteSf, Finished, Answers, tickvars
  <2>2. /\ doing.items \in Nat /\ x_requestcode \in {"close", "quit"} /\ x_fifosize # 0
        /\ (Quitting' <=> Quitting) /\ (doing.quit => Quitting)
        /\ ~Quitting => x_state = "idle"
    BY <2>1 DEF WInv, RequestInv, Quitting
  <2>3. /\ disk' \in Disks
        /\ disk'.bytes = disk.bytes /\ disk'.header = doing.items
    BY <2>1, <2>2 DEF WInv, WriteTypeInv, Disks
  <2>4. UNCHANGED <<x_fifosize, x_fifohead, x_fifotail, x_buf, x_vecsize, grown, x_bytespersample,
                    x_sfchannels>>
    BY <2>1 DEF fifovars, vecvars, formatvars
  <2>5. Held' = Held /\ x_bytesperframe' = x_bytesperframe /\ WantBytes' = WantBytes
    <3>1. x_bytesperframe' = x_bytesperframe
      BY <2>1 DEF x_bytesperframe, Frame, formatvars
    <3> QED
      BY <2>4, <3>1 DEF Held, WantBytes
  <2>6. FifoIsTrue' = FifoIsTrue
    BY <2>1, <2>3, <2>4, <2>5 DEF FifoIsTrue, Behind
  <2>7. WriteTypeInv'
    BY <2>1, <2>3, <2>4 DEF WInv, WriteTypeInv
  <2>8. RequestInv'
    BY <2>1, <2>2, <2>4 DEF WInv, RequestInv, Quitting, Draining
  <2>9. PlaceInv' /\ WritingInv'
    BY <2>1, <2>4, <2>5 DEF WInv, PlaceInv, WritingInv
  <2>10. FileInv'
    BY <2>1, <2>2, <2>3, <2>4, <2>6 DEF WInv, FileInv, Draining
  <2>11. EndInv'
    BY <2>1, <2>2, <2>3, <2>4 DEF WInv, EndInv, Draining
  <2> QED
    BY <2>7, <2>8, <2>9, <2>10, <2>11 DEF WInv
<1>13. ASSUME IsWriteSf, NEW f \in Names, NEW bytes \in SampleSizes, WriteOpen(f, bytes) PROVE WInv'
  <2>1. UNCHANGED writechange
    BY <1>13
    DEF IsWriteSf, WriteOpen, ParentRuns, writechange, filevars, fifovars, tickvars,
        vecvars, takevars
  <2>2. RequestInv'
    BY <1>13, <2>1
    DEF WriteOpen, ParentRuns, writechange, filevars, fifovars, takevars, WInv,
        WriteTypeInv, RequestInv, Quitting, Draining
  <2>3. EndInv'
    BY <1>13, <2>1
    DEF WriteOpen, ParentRuns, writechange, filevars, fifovars, takevars, WInv, RequestInv,
        EndInv, Quitting, Draining
  <2>4. WriteQuiet
    BY <1>13, <2>1
    DEF WriteOpen, ParentRuns, filevars, WInv, RequestInv, WriteQuiet, Quitting, Draining
  <2> QED
    BY <2>1, <2>2, <2>3, <2>4, WriteQuietStep
<1>14. ASSUME IsWriteSf, WriteOpenWaits PROVE WInv'
  <2>1. UNCHANGED writechange
    BY <1>14
    DEF IsWriteSf, WriteOpenWaits, ParentRuns, AwaitAnswer, writechange, filevars,
        fifovars, tickvars, vecvars, takevars
  <2>2. RequestInv'
    BY <1>14, <2>1
    DEF WriteOpenWaits, ParentRuns, AwaitAnswer, writechange, filevars, fifovars, takevars,
        WInv, WriteTypeInv, RequestInv, Quitting, Draining
  <2>3. EndInv'
    BY <1>14, <2>1
    DEF WriteOpenWaits, ParentRuns, AwaitAnswer, writechange, filevars, fifovars, takevars,
        WInv, RequestInv, EndInv, Quitting, Draining
  <2>4. WriteQuiet
    BY <1>14, <2>1
    DEF WriteOpenWaits, ParentRuns, AwaitAnswer, filevars, WInv, RequestInv, WriteQuiet,
        Quitting, Draining
  <2> QED
    BY <2>1, <2>2, <2>3, <2>4, WriteQuietStep
<1>15. ASSUME IsWriteSf, WriteOpens PROVE WInv'
  <2> DEFINE frame == Frame(<<asked.bytes, x_sfchannels>>)
  <2>1. /\ parent = "opening" /\ parent' = "idle" /\ diskthread \notin {"top", "stream"}
        /\ x_requestcode = "nothing" /\ x_requestcode' = "open" /\ x_filename' = asked.file
        /\ x_bytespersample' = asked.bytes /\ x_itemswritten' = 0 /\ x_fifotail' = 0 /\ x_fifohead' = 0
        /\ x_fileerror' = FALSE /\ x_state' = "startup" /\ x_fifosize' = FifoSize(frame)
        /\ x_buf' = EmptyBuffer /\ disk' = NotCreated /\ taken' = 0
        /\ grown' = (x_vecsize > MAXVECSIZE)
        /\ UNCHANGED <<x_filedes, x_sfchannels, x_vecsize, diskthread, doing>>
        /\ x_class = "writesf~" /\ x_class' = "writesf~"
    BY <1>15 DEF IsWriteSf, WriteOpens, ParentRuns
  <2>2. /\ asked \in [file : Names, bytes : SampleSizes] /\ diskthread = "waiting" /\ x_filedes = Nothing
        /\ x_sfchannels \in ChannelCounts /\ x_vecsize \in VecSizes
    BY <2>1 DEF WInv, WriteTypeInv, RequestInv, Quitting, Draining
  <2>3. /\ asked.file \in Names /\ asked.bytes \in SampleSizes
        /\ asked.bytes \in Nat \ {0} /\ x_sfchannels \in Nat \ {0} /\ x_vecsize \in Nat \ {0}
        /\ MAXVECSIZE \in Nat
    BY <2>2, SoundfileAssumption, WriteSfAssumption
  <2>4. frame \in Nat \ {0} /\ frame * MAXVECSIZE <= BufSize
    <3>1. frame = asked.bytes * x_sfchannels
      BY DEF Frame
    <3>2. frame * MAXVECSIZE <= BufSize
      BY <2>2, <2>3, WriteSfAssumption
    <3> HIDE DEF frame
    <3> QED
      BY <2>3, <3>1, <3>2
  <2>5. x_bytesperframe' = frame
    BY <2>1 DEF x_bytesperframe, Frame, formatvars
  <2> HIDE DEF frame
  <2>6. /\ FifoSize(frame) \in Nat \ {0} /\ FifoSize(frame) <= BufSize
        /\ \A v \in VecSizes : v <= MAXVECSIZE => Whole(FifoSize(frame), frame * v)
    BY <2>4, FifoHolds
  <2>7. WriteTypeInv'
    <3>1. EmptyBuffer \in [0..(BufSize - 1) -> Cells]
      BY DEF EmptyBuffer, Cells
    <3>2. NotCreated \in Disks
      <4>1. <<>> \in Seq(Cells) /\ -1 \in Int
        OBVIOUS
      <4> QED
        BY <4>1 DEF NotCreated, NoHeader, Disks
    <3>3. {x_fifosize', x_fifohead', x_fifotail', x_itemswritten', taken'} \subseteq Nat
      BY <2>1, <2>6
    <3>4. (grown \in BOOLEAN)'
      BY <2>1
    <3> QED
      BY <2>1, <2>2, <2>3, <3>1, <3>2, <3>3, <3>4 DEF WriteTypeInv
  <2>8. RequestInv'
    BY <2>1, <2>2, <2>6 DEF RequestInv, Quitting, Draining
  <2>9. PlaceInv'
    <3>1. WantBytes' = frame * x_vecsize
      BY <2>1, <2>5 DEF WantBytes
    <3>2. Whole(0, frame * x_vecsize) /\ Whole(0, frame)
      BY <2>3, <2>4 DEF Whole
    <3>3. ASSUME ~grown' PROVE Whole(FifoSize(frame), frame * x_vecsize)
      <4>1. ~(x_vecsize > MAXVECSIZE)
        BY <2>1, <3>3, Zenon
      <4>2. x_vecsize <= MAXVECSIZE
        BY <2>3, <4>1
      <4> QED
        BY <2>2, <2>6, <4>2
    <3> QED
      BY <2>1, <2>5, <2>6, <3>1, <3>2, <3>3 DEF PlaceInv
  <2>10. WritingInv' /\ EndInv'
    BY <2>1, <2>2 DEF WritingInv, EndInv, NotCreated, Draining
  <2>11. FileInv'
    <3>1. disk'.bytes = <<>> /\ Len(<<>>) = 0 /\ Held' = 0
      BY <2>1, <2>6 DEF NotCreated, Held
    <3>2. FifoIsTrue'
      BY <2>1, <2>4, <2>5, <3>1 DEF FifoIsTrue
    <3> QED
      BY <2>1, <3>1, <3>2 DEF FileInv
  <2> QED
    BY <2>7, <2>8, <2>9, <2>10, <2>11 DEF WInv
<1>16. ASSUME IsWriteSf, WritePerform PROVE WInv'
  <2>1. /\ parent \in {"idle", "performing"} /\ parent' \in {"idle", "performing"}
        /\ x_state = "stream"
        /\ UNCHANGED <<x_class, x_state, x_requestcode, x_filename, x_bytespersample, x_sfchannels, x_fileerror,
                       x_filedes, x_fifosize, x_fifotail, diskthread, doing, asked, x_itemswritten,
                       disk, x_vecsize, grown>>
    BY <1>16
    DEF IsWriteSf, WritePerform, ParentRuns, filevars, formatvars, TakeWaits, AwaitAnswer, TakeBlock,
        tickvars, vecvars
  <2>2. ~Quitting /\ ~Quitting' /\ x_fifosize # 0
    BY <2>1 DEF Quitting, WInv, RequestInv
  <2>3. x_bytesperframe' = x_bytesperframe /\ WantBytes' = WantBytes
    BY <2>1 DEF x_bytesperframe, Frame, formatvars, WantBytes
  <2>4. RequestInv'
    BY <2>1, <2>2 DEF WInv, RequestInv, Quitting, Draining
  <2>5. ASSUME TakeWaits PROVE WInv'
    <3>1. UNCHANGED writechange
      BY <2>1, <2>5 DEF TakeWaits, writechange, fifovars, takevars, vecvars, formatvars
    <3>2. EndInv'
      BY <2>1, <2>2, <3>1 DEF writechange, fifovars, takevars, WInv, EndInv, Draining
    <3>3. WriteQuiet
      BY <2>1, <2>2, <3>1 DEF WriteQuiet
    <3> QED
      BY <2>4, <3>2, <3>3, WriteQuietStep
  <2>6. ASSUME TakeBlock PROVE WInv'
    <3>1. /\ x_fifosize \in Nat \ {0} /\ x_fifohead \in Nat /\ x_fifotail \in Nat /\ taken \in Nat
          /\ x_fifohead < x_fifosize /\ x_fifotail < x_fifosize /\ x_fifosize <= BufSize
          /\ BufSize \in Nat /\ WantBytes \in Nat \ {0} /\ Held \in Nat
      BY <2>2, HeldIsNat, FrameIsNat, SoundfileAssumption DEF WInv, WriteTypeInv, PlaceInv
    <3>2. Held + WantBytes < x_fifosize
      BY <2>6, <3>1 DEF TakeBlock, LacksRoom, Held
    <3>3. ~grown => Whole(x_fifosize, WantBytes) /\ Whole(x_fifohead, WantBytes)
      BY <2>2 DEF WInv, PlaceInv
    <3>4. ~grown => x_fifohead + WantBytes <= x_fifosize
      BY <3>1, <3>3, WholeDifference
    <3>5. /\ x_fifohead' = IF x_fifohead + WantBytes >= x_fifosize THEN 0 ELSE x_fifohead + WantBytes
          /\ taken' = taken + WantBytes
          /\ x_buf' = [k \in DOMAIN x_buf |->
                         IF k \in x_fifohead..(x_fifohead + WantBytes - 1)
                         THEN <<x_filename, taken + k - x_fifohead>> ELSE x_buf[k]]
      BY <2>6 DEF TakeBlock
    <3>6. x_fifohead' \in Nat /\ x_fifohead' < x_fifosize /\ taken' \in Nat
      BY <3>1, <3>5
    <3>7. Held <= Held' /\ Held' \in Nat /\ (~grown => Held' = Held + WantBytes)
      BY <2>1, <3>1, <3>2, <3>4, <3>5 DEF Held
    <3>8. x_buf \in [0..(BufSize - 1) -> Cells] /\ x_filename \in Names \cup {NoFile}
      BY DEF WInv, WriteTypeInv
    <3>9. x_buf' \in [0..(BufSize - 1) -> Cells]
      <4>1. ASSUME NEW k \in 0..(BufSize - 1) PROVE <<x_filename, taken + k - x_fifohead>> \in Cells
        BY <3>1, <3>8 DEF Cells
      <4> QED
        BY <3>5, <3>8, <4>1
    <3>10. WriteTypeInv'
      BY <2>1, <3>1, <3>6, <3>9 DEF WInv, WriteTypeInv
    <3>11. PlaceInv'
      <4>1. ASSUME ~grown PROVE Whole(x_fifohead', WantBytes)
        <5>1. Whole(x_fifohead + WantBytes, WantBytes)
          <6>1. Whole(WantBytes, WantBytes)
            BY <3>1 DEF Whole
          <6> QED
            BY <3>1, <3>3, <4>1, <6>1, WholeSum
        <5>2. Whole(0, WantBytes)
          BY <3>1 DEF Whole
        <5> QED
          BY <3>5, <5>1, <5>2
      <4> QED
        BY <2>1, <2>2, <2>3, <3>1, <3>3, <3>6, <4>1 DEF WInv, PlaceInv
    <3>12. WritingInv'
      BY <2>1, <2>3, <3>1, <3>7 DEF WInv, WritingInv
    <3>13. EndInv'
      BY <2>1, <2>2 DEF WInv, EndInv, RequestInv
    <3>14. ASSUME ~x_fileerror, ~grown PROVE FileInv'
      <4>1. FifoIsTrue /\ Len(disk.bytes) \in Nat
        BY <2>2, <3>14 DEF WInv, FileInv, WriteTypeInv, Disks
      <4>2. Len(disk.bytes) + Held' = taken'
        <5>1. Len(disk.bytes) + Held = taken
          BY <4>1 DEF FifoIsTrue
        <5>2. taken' = taken + WantBytes /\ Held' = Held + WantBytes
          BY <3>5, <3>7, <3>14
        <5>3. WantBytes \in Nat /\ Held \in Nat /\ Len(disk.bytes) \in Nat
          BY <3>1, <4>1
        <5>4. \A a, b, c \in Nat : a + (b + c) = (a + b) + c
          OBVIOUS
        <5> QED
          BY <5>1, <5>2, <5>3, <5>4, Zenon
      <4>3. ASSUME NEW k \in 0..(Held' - 1)
            PROVE  x_buf'[Behind(k)'] = <<x_filename, Len(disk.bytes) + k>>
        <5>1. Behind(k)' = Behind(k) /\ k \in Nat /\ Held' = Held + WantBytes
          BY <2>1, <3>1, <3>7, <3>14 DEF Behind
        <5>2. CASE k < Held
          <6>1. /\ k \in 0..(Held - 1) /\ Behind(k) \in 0..(BufSize - 1)
                /\ Behind(k) \notin x_fifohead..(x_fifohead + WantBytes - 1)
            BY <3>1, <3>2, <3>4, <3>14, <5>1, <5>2 DEF Behind, Held
          <6>2. x_buf[Behind(k)] = <<x_filename, Len(disk.bytes) + k>>
            BY <4>1, <6>1 DEF FifoIsTrue
          <6> QED
            BY <3>5, <3>8, <5>1, <6>1, <6>2
        <5>3. CASE k >= Held
          <6>1. /\ Behind(k) = x_fifohead + (k - Held) /\ Behind(k) \in 0..(BufSize - 1)
                /\ Behind(k) \in x_fifohead..(x_fifohead + WantBytes - 1)
            BY <3>1, <3>2, <3>4, <3>14, <5>1, <5>3 DEF Behind, Held
          <6>2. taken + Behind(k) - x_fifohead = Len(disk.bytes) + k
            <7> DEFINE a == Len(disk.bytes)
            <7>1. a + Held = taken /\ a \in Nat /\ Held \in Nat /\ x_fifohead \in Nat /\ k \in Nat
              BY <3>1, <4>1, <5>1 DEF FifoIsTrue
            <7> HIDE DEF a
            <7>2. taken + (x_fifohead + (k - Held)) - x_fifohead = a + k
              BY <7>1
            <7> QED
              BY <6>1, <7>2 DEF a
          <6> QED
            BY <3>5, <3>8, <5>1, <6>1, <6>2
        <5> QED
          BY <3>1, <5>1, <5>2, <5>3
      <4>4. FifoIsTrue'
        BY <2>1, <2>3, <4>1, <4>2, <4>3 DEF FifoIsTrue
      <4>5. Len(disk.bytes) <= taken'
        BY <3>7, <4>1, <4>2, <3>6
      <4> QED
        BY <2>1, <3>14, <4>4, <4>5 DEF WInv, FileInv
    <3> QED
      BY <2>1, <2>4, <3>10, <3>11, <3>12, <3>13, <3>14 DEF WInv, FileInv
  <2> QED
    BY <1>16, <2>5, <2>6 DEF WritePerform
<1>17. ASSUME IsWriteSf, SfFreeWaits, UNCHANGED <<asked, x_itemswritten, takevars>> PROVE WInv'
  <2>1. UNCHANGED writechange
    BY <1>17
    DEF IsWriteSf, SfFreeWaits, ParentRuns, AwaitAnswer, writechange, filevars, fifovars,
        tickvars, vecvars, takevars
  <2>2. RequestInv'
    BY <1>17, <2>1
    DEF SfFreeWaits, ParentRuns, AwaitAnswer, writechange, filevars, fifovars, takevars,
        WInv, WriteTypeInv, RequestInv, Quitting, Draining
  <2>3. EndInv'
    BY <1>17, <2>1
    DEF SfFreeWaits, ParentRuns, AwaitAnswer, writechange, filevars, fifovars, takevars,
        WInv, RequestInv, EndInv, Quitting, Draining
  <2>4. WriteQuiet
    BY <1>17, <2>1
    DEF SfFreeWaits, ParentRuns, AwaitAnswer, filevars, WInv, RequestInv, WriteQuiet,
        Quitting, Draining
  <2> QED
    BY <2>1, <2>2, <2>3, <2>4, WriteQuietStep
<1>18. ASSUME IsWriteSf, SfJoined, UNCHANGED <<asked, x_itemswritten, takevars>> PROVE WInv'
  <2>1. UNCHANGED writechange
    BY <1>18
    DEF IsWriteSf, SfJoined, ParentRuns, writechange, filevars, fifovars, tickvars,
        vecvars, takevars
  <2>2. RequestInv'
    BY <1>18, <2>1
    DEF SfJoined, ParentRuns, writechange, filevars, fifovars, takevars, WInv,
        WriteTypeInv, RequestInv, Quitting, Draining
  <2>3. EndInv'
    BY <1>18, <2>1
    DEF SfJoined, ParentRuns, writechange, filevars, fifovars, takevars, WInv, RequestInv,
        EndInv, Quitting, Draining
  <2>4. WriteQuiet
    BY <1>18, <2>1
    DEF SfJoined, ParentRuns, filevars, WInv, RequestInv, WriteQuiet, Quitting, Draining
  <2> QED
    BY <2>1, <2>2, <2>3, <2>4, WriteQuietStep
<1>19. ASSUME IsWriteSf, SfStart, UNCHANGED <<asked, x_itemswritten, takevars>> PROVE WInv'
  <2>1. UNCHANGED writechange
    BY <1>19
    DEF IsWriteSf, SfStart, ParentRuns, writechange, filevars, fifovars, tickvars, vecvars,
        takevars
  <2>2. RequestInv'
    BY <1>19, <2>1
    DEF SfStart, ParentRuns, writechange, filevars, fifovars, takevars, WInv, WriteTypeInv,
        RequestInv, Quitting, Draining
  <2>3. EndInv'
    BY <1>19, <2>1
    DEF SfStart, ParentRuns, writechange, filevars, fifovars, takevars, WInv, RequestInv,
        EndInv, Quitting, Draining
  <2>4. WriteQuiet
    BY <1>19, <2>1
    DEF SfStart, ParentRuns, filevars, WInv, RequestInv, WriteQuiet, Quitting, Draining
  <2> QED
    BY <2>1, <2>2, <2>3, <2>4, WriteQuietStep
<1>20. ASSUME IsWriteSf, SfStop, UNCHANGED <<asked, x_itemswritten, takevars>> PROVE WInv'
  <2>1. UNCHANGED writechange
    BY <1>20
    DEF IsWriteSf, SfStop, ParentRuns, writechange, filevars, fifovars, tickvars, vecvars,
        takevars
  <2>2. RequestInv'
    BY <1>20, <2>1
    DEF SfStop, ParentRuns, writechange, filevars, fifovars, takevars, WInv, WriteTypeInv,
        RequestInv, Quitting, Draining
  <2>3. EndInv'
    BY <1>20, <2>1
    DEF SfStop, ParentRuns, writechange, filevars, fifovars, takevars, WInv, RequestInv,
        EndInv, Quitting, Draining
  <2>4. WriteQuiet
    BY <1>20, <2>1
    DEF SfStop, ParentRuns, filevars, WInv, RequestInv, WriteQuiet, Quitting, Draining
  <2> QED
    BY <2>1, <2>2, <2>3, <2>4, WriteQuietStep
<1>21. ASSUME IsWriteSf, NEW v \in VecSizes, SfDsp(Signals, v), UNCHANGED <<asked, x_itemswritten, takevars>>
    PROVE  WInv'
  <2>1. /\ UNCHANGED <<x_class, x_state, x_requestcode, filevars, fifovars, parent, diskthread, doing,
                       asked, x_itemswritten, takevars>>
        /\ x_vecsize' = v /\ grown' = (grown \/ v > x_vecsize)
    BY <1>21 DEF IsWriteSf, SfDsp
  <2>2. UNCHANGED <<x_filename, x_bytespersample, x_sfchannels, x_fileerror, x_filedes, x_fifosize, x_fifohead,
                    x_fifotail, x_buf, disk, taken>>
    BY <2>1 DEF filevars, formatvars, fifovars, takevars
  <2>3. x_bytesperframe' = x_bytesperframe /\ Held' = Held
    BY <2>2 DEF x_bytesperframe, Frame, formatvars, Held
  <2>4. FifoIsTrue' = FifoIsTrue
    BY <2>1, <2>2, <2>3 DEF FifoIsTrue, Behind
  <2>5. WriteTypeInv'
    BY <2>1, <2>2 DEF WInv, WriteTypeInv
  <2>6. RequestInv' /\ EndInv'
    BY <2>1, <2>2 DEF WInv, RequestInv, EndInv, Quitting, Draining
  <2>7. ~grown' => ~grown /\ v <= x_vecsize
    <3>1. v \in Nat /\ x_vecsize \in Nat
      BY SoundfileAssumption DEF WInv, WriteTypeInv
    <3>2. ~grown' => ~grown /\ ~(v > x_vecsize)
      BY <2>1, Zenon
    <3> QED
      BY <3>1, <3>2
  <2>8. PlaceInv'
    <3>1. ASSUME ~grown', x_fifosize # 0
          PROVE  Whole(x_fifosize, WantBytes') /\ Whole(x_fifohead, WantBytes')
      <4>1. /\ Whole(x_fifosize, x_bytesperframe * x_vecsize)
            /\ Whole(x_fifohead, x_bytesperframe * x_vecsize)
        BY <2>7, <3>1 DEF WInv, PlaceInv, WantBytes
      <4>2. x_bytesperframe \in Nat /\ x_fifosize \in Nat /\ x_fifohead \in Nat /\ x_vecsize \in VecSizes
        BY FrameIsNat DEF WInv, WriteTypeInv
      <4>3. WantBytes' = x_bytesperframe * v
        BY <2>1, <2>3 DEF WantBytes
      <4> QED
        BY <2>7, <3>1, <4>1, <4>2, <4>3, VectorDivides
    <3> QED
      BY <2>2, <2>3, <2>7, <3>1 DEF WInv, PlaceInv
  <2>9. WritingInv'
    BY <2>1, <2>2, <2>3, <2>7 DEF WInv, WritingInv
  <2>10. FileInv'
    BY <2>1, <2>2, <2>4, <2>7 DEF WInv, FileInv, Quitting, Draining
  <2> QED
    BY <2>5, <2>6, <2>8, <2>9, <2>10 DEF WInv
<1>22. ASSUME IsWriteSf, SfFree, UNCHANGED <<x_buf, grown>>, UNCHANGED <<asked, x_itemswritten, takevars>> PROVE WInv'
  <2>1. UNCHANGED writechange
    BY <1>22
    DEF IsWriteSf, SfFree, ParentRuns, AwaitAnswer, writechange, filevars, fifovars,
        tickvars, vecvars, takevars
  <2>2. RequestInv'
    BY <1>22, <2>1
    DEF SfFree, ParentRuns, AwaitAnswer, writechange, filevars, fifovars, takevars, WInv,
        WriteTypeInv, RequestInv, Quitting, Draining
  <2>3. EndInv'
    BY <1>22, <2>1
    DEF SfFree, ParentRuns, AwaitAnswer, writechange, filevars, fifovars, takevars, WInv,
        RequestInv, EndInv, Quitting, Draining
  <2>4. WriteQuiet
    BY <1>22, <2>1
    DEF SfFree, ParentRuns, AwaitAnswer, filevars, WInv, RequestInv, WriteQuiet, Quitting,
        Draining
  <2> QED
    BY <2>1, <2>2, <2>3, <2>4, WriteQuietStep
<1>23. ASSUME TakeTraps PROVE WInv'
  <2>1. /\ x_class' = "none"
        /\ UNCHANGED <<x_state, x_requestcode, filevars, fifovars, vecvars, takevars, parent, diskthread,
                       doing, asked, x_itemswritten>>
    BY <1>23 DEF TakeTraps, ProgramEnds, restvars, tickvars
  <2>2. UNCHANGED <<x_filename, x_bytespersample, x_sfchannels, x_fileerror, x_filedes, x_fifosize, x_fifohead,
                    x_fifotail, x_buf, x_vecsize, grown, disk, taken>>
    BY <2>1 DEF filevars, formatvars, fifovars, vecvars, takevars
  <2>3. x_bytesperframe' = x_bytesperframe /\ WantBytes' = WantBytes /\ Held' = Held
    BY <2>2 DEF x_bytesperframe, Frame, formatvars, WantBytes, Held
  <2>4. FifoIsTrue' = FifoIsTrue
    BY <2>1, <2>2, <2>3 DEF FifoIsTrue, Behind
  <2>5. WriteTypeInv'
    BY <2>1, <2>2 DEF WInv, WriteTypeInv
  <2>6. RequestInv' /\ EndInv'
    BY <2>1, <2>2 DEF WInv, RequestInv, EndInv, Quitting, Draining
  <2>7. PlaceInv' /\ WritingInv'
    BY <2>1, <2>2, <2>3 DEF WInv, PlaceInv, WritingInv
  <2>8. FileInv'
    BY <2>1, <2>2, <2>4 DEF WInv, FileInv, Quitting, Draining
  <2> QED
    BY <2>5, <2>6, <2>7, <2>8 DEF WInv
<1> QED
  BY <1>1, <1>2, <1>3, <1>4, <1>5, <1>6, <1>7, <1>8, <1>9, <1>10, <1>11, <1>12,
     <1>13, <1>14, <1>15, <1>16, <1>17, <1>18, <1>19, <1>20, <1>21, <1>22, <1>23
  DEF WriteNext, WriteChild, WriteParent, WriteFree

LEMMA WriteBegins == WriteInit => WInv
<1> SUFFICES ASSUME WriteInit PROVE WInv
  OBVIOUS
<1>1. EmptyBuffer \in [0..(BufSize - 1) -> Cells]
  BY DEF EmptyBuffer, Cells
<1>2. NotCreated \in Disks
  <2>1. <<>> \in Seq(Cells) /\ -1 \in Int
    OBVIOUS
  <2> QED
    BY <2>1 DEF NotCreated, NoHeader, Disks
<1>3. /\ x_state = "idle" /\ x_requestcode = "nothing" /\ x_filename = NoFile
      /\ x_bytespersample = 2 /\ x_fileerror = FALSE /\ x_filedes = Nothing
      /\ x_fifosize = 0 /\ x_fifohead = 0 /\ x_fifotail = 0 /\ x_itemswritten = 0 /\ taken = 0
      /\ x_vecsize = MAXVECSIZE /\ grown = FALSE
      /\ parent = "idle" /\ diskthread = "top" /\ x_buf = EmptyBuffer /\ disk = NotCreated
  BY DEF WriteInit, SoundfileInit
<1>4. x_sfchannels \in Nat \ {0} /\ (x_class = "writesf~" => x_sfchannels \in ChannelCounts)
  BY SoundfileAssumption DEF WriteInit, SoundfileInit
<1>5. WriteTypeInv
  <2>1. {x_fifosize, x_fifohead, x_fifotail, x_itemswritten, taken} \subseteq Nat
    BY <1>3
  <2>2. x_bytespersample \in Nat \ {0} /\ x_filename \in Names \cup {NoFile}
    BY <1>3
  <2>3. x_vecsize \in VecSizes /\ grown \in BOOLEAN
    BY <1>3, SoundfileAssumption
  <2> QED
    BY <1>1, <1>2, <1>3, <1>4, <2>1, <2>2, <2>3 DEF WriteTypeInv
<1>6. RequestInv
  BY <1>3 DEF RequestInv, Quitting, Draining
<1>7. WritingInv
  BY <1>3 DEF WritingInv
<1>8. PlaceInv
  <2>1. x_bytesperframe \in Nat
    BY <1>5, FrameIsNat
  <2>2. Whole(0, x_bytesperframe)
    BY <2>1 DEF Whole
  <2> QED
    BY <1>3, <2>2, SoundfileAssumption DEF PlaceInv
<1>9. disk.bytes = <<>> /\ disk.header = NoHeader /\ Len(<<>>) = 0 /\ Held = 0
  BY <1>3 DEF NotCreated, Held
<1>10. FifoIsTrue
  <2>1. x_bytesperframe \in Nat
    BY <1>5, FrameIsNat
  <2> QED
    BY <1>3, <1>9, <2>1 DEF FifoIsTrue
<1>11. FileInv /\ EndInv
  BY <1>3, <1>9, <1>10 DEF FileInv, EndInv
<1> QED
  BY <1>5, <1>6, <1>7, <1>8, <1>11 DEF WInv

LEMMA WInvImplies == WInv => WritesWhatItHears
<1> SUFFICES ASSUME WInv, disk.created, ~x_fileerror, ~grown PROVE WritesWhatItHears
  BY DEF WritesWhatItHears
<1>1. /\ Len(disk.bytes) <= taken
      /\ \A i \in DOMAIN disk.bytes : disk.bytes[i] = <<x_filename, i - 1>>
  BY DEF WInv, FileInv
<1>2. ASSUME disk.header # NoHeader, parent \in {"idle", "opening"}
      PROVE  /\ Len(disk.bytes) = taken
             /\ READSIZE % x_bytesperframe = 0 => disk.header * x_bytesperframe = taken
  <2>1. FifoIsTrue /\ x_fifohead = x_fifotail /\ disk.header = x_itemswritten
    BY <1>2 DEF WInv, FileInv, EndInv, Quitting
  <2>2. Held = 0 /\ Len(disk.bytes) \in Nat
    BY <2>1 DEF Held, WInv, WriteTypeInv, Disks
  <2> QED
    BY <2>1, <2>2 DEF FifoIsTrue
<1> QED
  BY <1>1, <1>2 DEF WritesWhatItHears

\* The file that writesf~ opened last holds the blocks that were performed since, in
\* their order and without a gap, and all of them when it has been finished; its header
\* then says how many: whatever the size of the fifo and of the blocks, also when these
\* become smaller meanwhile, and however the steps of the two threads and the messages
\* interleave.
THEOREM FileHoldsWhatWasHeard == WriteSpec => []WritesWhatItHears
<1>1. WInv /\ UNCHANGED writevars => WInv'
  <2> SUFFICES ASSUME WInv, UNCHANGED writevars PROVE WInv'
    OBVIOUS
  <2>1. /\ UNCHANGED writechange
        /\ UNCHANGED <<x_state, x_requestcode, filevars, parent, diskthread, doing, asked>>
    BY DEF writevars, writechange, soundfilevars, restvars, tickvars, takevars, filevars
  <2>2. RequestInv'
    BY <2>1 DEF writechange, filevars, fifovars, takevars, WInv, RequestInv, Quitting, Draining
  <2>3. EndInv'
    BY <2>1 DEF writechange, filevars, fifovars, takevars, WInv, EndInv, Quitting, Draining
  <2>4. WriteQuiet
    BY <2>1 DEF filevars, WriteQuiet, Quitting, Draining
  <2> QED
    BY <2>2, <2>3, <2>4, WriteQuietStep
<1> QED
  BY <1>1, WriteBegins, WriteStep, WInvImplies, PTL DEF WriteSpec

-----------------------------------------------------------------------------
(* tcpclient.                                                              *)

Connecting(t) == connector[t].pc = "connect"

\* The socket of a connector that has not published it is open and its own, until
\* select() fails; only between close() and the end of x_fd is the number that of x_fd.
ConnectorInv ==
  /\ \A t \in Connectors : Connecting(t) => connector[t].fd # NoFd
  /\ ~selectFailed => \A t \in Connectors : Connecting(t) =>
       /\ connector[t].fd \in Open
       /\ pd # "closed" => connector[t].fd # x_fd
       /\ \A u \in Connectors : Connecting(u) /\ connector[u].fd = connector[t].fd => u = t

\* A thread marks its slot until it is over, and disconnect does not go on before all
\* marks are gone; Pd is in a send or a disconnect only with a socket.
SlotInv ==
  /\ \A s \in Slots : sender[s] # "none" =>
       x_tsp[s].threadisvalid /\ x_fd # NoFd
  /\ pd \in {"closed", "cleared"} => SlotsClear
  /\ pd \in {"wait", "send"} => x_fd # NoFd
  /\ object = "freed" => pd = "idle" /\ \A s \in Slots : sender[s] = "none"

ClientInv == TypeOK /\ ConnectorInv /\ SlotInv /\ FdIsOpen /\ SendsItsData

\* A slot whose mark is cleared has no thread.
LEMMA SlotIsFree ==
  ASSUME ClientInv, NEW d \in Data, FillSlot(d)
  PROVE  x_nextthread \in Slots /\ sender[x_nextthread] = "none" /\ x_fd # NoFd
  BY DEF ClientInv, TypeOK, SlotInv, FillSlot, SlotFree

\* The kernel has a lowest free descriptor.
LEMMA LowestIsFree ==
  ASSUME Open # Fds
  PROVE  (CHOOSE f \in Fds \ Open : \A g \in Fds \ Open : f <= g) \in Fds \ Open
<1>1. Fds \ Open # {} /\ Fds \ Open \subseteq Nat
  BY DEF Open, Fds
<1>2. \E f \in Fds \ Open : \A g \in Fds \ Open : f <= g
  BY <1>1, LeastNatural
<1> QED
  BY <1>2

LEMMA ClientStep == ClientInv /\ Next => ClientInv'
<1> SUFFICES ASSUME ClientInv, Next PROVE ClientInv'
  OBVIOUS
<1>1. ASSUME NEW t \in Connectors, Connect(t) PROVE ClientInv'
  <2>1. TypeOK'
    <3>1. connector' \in [Connectors -> [pc : {"none", "start", "socket", "connect", "state", "unblock"},
                                       fd : Fds \cup {NoFd}]]
      BY <1>1 DEF Connect, ClientInv, TypeOK
    <3> QED
      BY <1>1, <3>1 DEF Connect, ClientInv, TypeOK, connvars, slotvars
  <2>2. ConnectorInv'
    BY <1>1 DEF Connect, ClientInv, ConnectorInv, Connecting, Open, NoThread, connvars, slotvars
  <2>3. SlotInv' /\ FdIsOpen' /\ SendsItsData'
    BY <1>1
    DEF Connect, ClientInv, SlotInv, FdIsOpen, Open, SendsItsData, SlotsClear, connvars,
        slotvars
  <2> QED
    BY <2>1, <2>2, <2>3 DEF ClientInv
<1>2. ASSUME NEW t \in Connectors, ConnectorStart(t) PROVE ClientInv'
  <2>1. TypeOK'
    <3>1. connector' \in [Connectors -> [pc : {"none", "start", "socket", "connect", "state", "unblock"},
                                       fd : Fds \cup {NoFd}]]
      BY <1>2 DEF ConnectorStart, ClientInv, TypeOK
    <3> QED
      BY <1>2, <3>1 DEF ConnectorStart, ClientInv, TypeOK, connvars, slotvars
  <2>2. ConnectorInv'
    BY <1>2 DEF ConnectorStart, ClientInv, TypeOK, ConnectorInv, Connecting, Open, connvars
  <2>3. SlotInv' /\ FdIsOpen' /\ SendsItsData'
    BY <1>2
    DEF ConnectorStart, ClientInv, SlotInv, FdIsOpen, SendsItsData, Open, SlotsClear, connvars,
        slotvars
  <2> QED
    BY <2>1, <2>2, <2>3 DEF ClientInv
<1>21. ASSUME NEW t \in Connectors, ConnectorSocket(t) PROVE ClientInv'
  <2>1. CASE Open = Fds
    <3>1. /\ connector' = [connector EXCEPT ![t] = NoThread]
          /\ UNCHANGED <<connvars, slotvars, pd, object, fdstate>>
      BY <1>21, <2>1 DEF ConnectorSocket
    <3>2. TypeOK'
      BY <3>1 DEF ClientInv, TypeOK, NoThread, connvars, slotvars
    <3>3. ConnectorInv'
      BY <3>1 DEF ClientInv, TypeOK, ConnectorInv, Connecting, Open, NoThread, connvars
    <3>4. SlotInv' /\ FdIsOpen' /\ SendsItsData'
      BY <3>1
      DEF ClientInv, SlotInv, FdIsOpen, SendsItsData, Open, SlotsClear, connvars, slotvars
    <3> QED
      BY <3>2, <3>3, <3>4 DEF ClientInv
  <2>2. CASE Open # Fds
    <3> DEFINE fd == CHOOSE f \in Fds \ Open : \A g \in Fds \ Open : f <= g
    <3>1. fd \in Fds \ Open
      BY <2>2, LowestIsFree, Zenon
    <3>2. /\ connector' = [connector EXCEPT ![t] = [pc |-> "connect", fd |-> fd]]
          /\ fdstate' = [fdstate EXCEPT ![fd] = "open"]
          /\ UNCHANGED <<connvars, slotvars, pd, object>>
      BY <1>21, <2>2 DEF ConnectorSocket
    <3> HIDE DEF fd
    <3> fd # NoFd
      BY <3>1 DEF Fds, NoFd
    <3>3. Open' = Open \cup {fd}
      BY <3>1, <3>2 DEF ClientInv, TypeOK, Open
    <3>4. TypeOK'
      BY <3>1, <3>2 DEF ClientInv, TypeOK, connvars, slotvars
    <3>5. ConnectorInv'
      BY <3>1, <3>2, <3>3 DEF ClientInv, TypeOK, ConnectorInv, Connecting, FdIsOpen, connvars
    <3>6. SlotInv' /\ FdIsOpen' /\ SendsItsData'
      BY <3>2, <3>3
      DEF ClientInv, SlotInv, FdIsOpen, SendsItsData, SlotsClear, connvars, slotvars
    <3> QED
      BY <3>4, <3>5, <3>6 DEF ClientInv
  <2> QED
    BY <2>1, <2>2
<1>3. ASSUME NEW t \in Connectors, ConnectorBadHost(t) PROVE ClientInv'
  <2>1. TypeOK'
    BY <1>3 DEF ConnectorBadHost, ClientInv, TypeOK, NoThread, connvars, slotvars
  <2>2. ConnectorInv'
    BY <1>3
    DEF ConnectorBadHost, ClientInv, ConnectorInv, Connecting, Open, TypeOK, NoThread,
        connvars, slotvars
  <2>3. SlotInv' /\ FdIsOpen' /\ SendsItsData'
    BY <1>3
    DEF ConnectorBadHost, ClientInv, SlotInv, FdIsOpen, Open, SendsItsData, SlotsClear,
        connvars, slotvars
  <2> QED
    BY <2>1, <2>2, <2>3 DEF ClientInv
<1>4. ASSUME NEW t \in Connectors, ConnectorRefused(t) PROVE ClientInv'
  <2>1. TypeOK'
    BY <1>4 DEF ConnectorRefused, ClientInv, TypeOK, NoThread, connvars, slotvars
  <2>2. ConnectorInv'
    BY <1>4
    DEF ConnectorRefused, ClientInv, ConnectorInv, Connecting, Open, TypeOK, NoThread,
        connvars, slotvars
  <2>3. FdIsOpen'
    BY <1>4
    DEF ConnectorRefused, ClientInv, FdIsOpen, Open, ConnectorInv, Connecting, TypeOK,
        connvars, slotvars
  <2>4. SlotInv' /\ SendsItsData'
    BY <1>4
    DEF ConnectorRefused, ClientInv, SlotInv, SendsItsData, SlotsClear, connvars, slotvars
  <2> QED
    BY <2>1, <2>2, <2>3, <2>4 DEF ClientInv
<1>5. ASSUME NEW t \in Connectors, ConnectorPublish(t) PROVE ClientInv'
  <2>1. TypeOK'
    <3>1. connector' \in [Connectors -> [pc : {"none", "start", "socket", "connect", "state", "unblock"},
                                       fd : Fds \cup {NoFd}]]
      BY <1>5 DEF ConnectorPublish, ClientInv, TypeOK
    <3>2. x_fd' \in Fds \cup {NoFd}
      BY <1>5 DEF ConnectorPublish, ClientInv, TypeOK
    <3> QED
      BY <1>5, <3>1, <3>2 DEF ConnectorPublish, ClientInv, TypeOK, connvars, slotvars
  <2>2. ConnectorInv'
    BY <1>5
    DEF ConnectorPublish, ClientInv, ConnectorInv, Connecting, Open, TypeOK, connvars,
        slotvars
  <2>3. SlotInv'
    BY <1>5
    DEF ConnectorPublish, ClientInv, SlotInv, TypeOK, SlotsClear, ConnectorInv,
        Connecting, Open, NoFd, Fds, connvars, slotvars
  <2>4. FdIsOpen'
    BY <1>5
    DEF ConnectorPublish, ClientInv, FdIsOpen, Open, ConnectorInv, Connecting, connvars,
        slotvars
  <2>5. SendsItsData'
    BY <1>5 DEF ConnectorPublish, ClientInv, SendsItsData, connvars, slotvars
  <2> QED
    BY <2>1, <2>2, <2>3, <2>4, <2>5 DEF ClientInv
<1>6. ASSUME NEW t \in Connectors, ConnectorState(t) PROVE ClientInv'
  <2>1. TypeOK'
    <3>1. connector' \in [Connectors -> [pc : {"none", "start", "socket", "connect", "state", "unblock"},
                                       fd : Fds \cup {NoFd}]]
      BY <1>6 DEF ConnectorState, ClientInv, TypeOK
    <3> QED
      BY <1>6, <3>1 DEF ConnectorState, ClientInv, TypeOK, connvars, slotvars
  <2>2. ConnectorInv'
    BY <1>6
    DEF ConnectorState, ClientInv, ConnectorInv, Connecting, Open, TypeOK, connvars,
        slotvars
  <2>3. SlotInv' /\ FdIsOpen' /\ SendsItsData'
    BY <1>6
    DEF ConnectorState, ClientInv, SlotInv, FdIsOpen, Open, SendsItsData, SlotsClear,
        connvars, slotvars
  <2> QED
    BY <2>1, <2>2, <2>3 DEF ClientInv
<1>7. ASSUME NEW t \in Connectors, ConnectorUnblock(t) PROVE ClientInv'
  <2>1. TypeOK'
    BY <1>7 DEF ConnectorUnblock, ClientInv, TypeOK, NoThread, connvars, slotvars
  <2>2. ConnectorInv'
    BY <1>7
    DEF ConnectorUnblock, ClientInv, ConnectorInv, Connecting, Open, TypeOK, NoThread,
        connvars, slotvars
  <2>3. SlotInv' /\ FdIsOpen' /\ SendsItsData'
    BY <1>7
    DEF ConnectorUnblock, ClientInv, SlotInv, FdIsOpen, Open, SendsItsData, SlotsClear,
        connvars, slotvars
  <2> QED
    BY <2>1, <2>2, <2>3 DEF ClientInv
<1>8. ASSUME NEW fd \in Fds, PeerClose(fd) PROVE ClientInv'
  <2>1. TypeOK'
    BY <1>8 DEF PeerClose, ClientInv, TypeOK, connvars, slotvars
  <2>2. ConnectorInv'
    BY <1>8 DEF PeerClose, ClientInv, ConnectorInv, Connecting, Open, TypeOK, connvars, slotvars
  <2>3. FdIsOpen'
    BY <1>8 DEF PeerClose, ClientInv, FdIsOpen, Open, TypeOK, connvars, slotvars
  <2>4. SlotInv' /\ SendsItsData'
    BY <1>8 DEF PeerClose, ClientInv, SlotInv, SendsItsData, SlotsClear, connvars, slotvars
  <2> QED
    BY <2>1, <2>2, <2>3, <2>4 DEF ClientInv
<1>9. ASSUME Disconnect PROVE ClientInv'
  <2>1. TypeOK'
    BY <1>9 DEF Disconnect, ClientInv, TypeOK, connvars, slotvars
  <2>2. SlotInv'
    BY <1>9 DEF Disconnect, ClientInv, SlotInv, PdIdle, SlotsClear, connvars, slotvars
  <2>3. FdIsOpen'
    BY <1>9 DEF Disconnect, ClientInv, FdIsOpen, Open, PdIdle, connvars, slotvars
  <2>4. ConnectorInv' /\ SendsItsData'
    BY <1>9
    DEF Disconnect, PdIdle, ClientInv, ConnectorInv, Connecting, Open, SendsItsData, connvars,
        slotvars
  <2> QED
    BY <2>1, <2>2, <2>3, <2>4 DEF ClientInv
<1>10. ASSUME Poll PROVE ClientInv'
  <2>1. TypeOK'
    BY <1>10 DEF Poll, ClientInv, TypeOK, connvars, slotvars
  <2>2. SlotInv'
    BY <1>10 DEF Poll, ClientInv, SlotInv, PdIdle, SlotsClear, connvars, slotvars
  <2>3. FdIsOpen'
    BY <1>10 DEF Poll, ClientInv, FdIsOpen, Open, PdIdle, connvars, slotvars
  <2>4. ConnectorInv' /\ SendsItsData'
    BY <1>10
    DEF Poll, PdIdle, ClientInv, ConnectorInv, Connecting, Open, SendsItsData, connvars,
        slotvars
  <2> QED
    BY <2>1, <2>2, <2>3, <2>4 DEF ClientInv
<1>22. ASSUME PollFails PROVE ClientInv'
  <2>1. TypeOK'
    BY <1>22 DEF PollFails, ClientInv, TypeOK, slotvars
  <2>2. SlotInv'
    BY <1>22 DEF PollFails, ClientInv, SlotInv, SlotsClear, slotvars
  <2>3. ConnectorInv' /\ FdIsOpen'
    BY <1>22 DEF PollFails, ClientInv, ConnectorInv, Connecting, FdIsOpen
  <2>4. SendsItsData'
    BY <1>22 DEF PollFails, ClientInv, SendsItsData, slotvars
  <2> QED
    BY <2>1, <2>2, <2>3, <2>4 DEF ClientInv
<1>11. ASSUME FreeClient PROVE ClientInv'
  <2>1. TypeOK'
    BY <1>11 DEF FreeClient, ClientInv, TypeOK, connvars, slotvars
  <2>2. SlotInv'
    BY <1>11 DEF FreeClient, ClientInv, SlotInv, PdIdle, SlotsClear, connvars, slotvars
  <2>3. FdIsOpen'
    BY <1>11 DEF FreeClient, ClientInv, FdIsOpen, Open, PdIdle, connvars, slotvars
  <2>4. ConnectorInv' /\ SendsItsData'
    BY <1>11
    DEF FreeClient, PdIdle, ClientInv, ConnectorInv, Connecting, Open, SendsItsData, connvars,
        slotvars
  <2> QED
    BY <2>1, <2>2, <2>3, <2>4 DEF ClientInv
<1>12. ASSUME SendNotConnected PROVE ClientInv'
  <2>1. TypeOK'
    BY <1>12 DEF SendNotConnected, ClientInv, TypeOK, connvars, slotvars
  <2>2. ConnectorInv' /\ SlotInv' /\ FdIsOpen' /\ SendsItsData'
    BY <1>12
    DEF SendNotConnected, ClientInv, ConnectorInv, Connecting, Open, SlotInv, FdIsOpen,
        SendsItsData, SlotsClear, connvars, slotvars
  <2> QED
    BY <2>1, <2>2 DEF ClientInv
<1>13. ASSUME SendBuf PROVE ClientInv'
  <2>1. TypeOK'
    BY <1>13 DEF SendBuf, ClientInv, TypeOK, connvars, slotvars
  <2>2. SlotInv'
    BY <1>13 DEF SendBuf, ClientInv, SlotInv, PdIdle, SlotsClear, connvars, slotvars
  <2>3. FdIsOpen'
    BY <1>13 DEF SendBuf, ClientInv, FdIsOpen, Open, PdIdle, connvars, slotvars
  <2>4. ConnectorInv' /\ SendsItsData'
    BY <1>13
    DEF SendBuf, PdIdle, ClientInv, ConnectorInv, Connecting, Open, SendsItsData, connvars,
        slotvars
  <2> QED
    BY <2>1, <2>2, <2>3, <2>4 DEF ClientInv
<1>14. ASSUME Unblock PROVE ClientInv'
  <2>1. TypeOK'
    BY <1>14 DEF Unblock, ClientInv, TypeOK, connvars, slotvars
  <2>2. ConnectorInv' /\ SlotInv' /\ FdIsOpen' /\ SendsItsData'
    BY <1>14
    DEF Unblock, ClientInv, ConnectorInv, Connecting, Open, SlotInv, FdIsOpen,
        SendsItsData, SlotsClear, connvars, slotvars
  <2> QED
    BY <2>1, <2>2 DEF ClientInv
<1>15. ASSUME CloseSocket PROVE ClientInv'
  <2>1. TypeOK'
    BY <1>15 DEF CloseSocket, ClientInv, TypeOK, connvars, slotvars
  <2>2. ConnectorInv'
    BY <1>15
    DEF CloseSocket, ClientInv, ConnectorInv, Connecting, Open, TypeOK, connvars, slotvars
  <2>3. SlotInv'
    BY <1>15 DEF CloseSocket, ClientInv, SlotInv, SlotsClear, connvars, slotvars
  <2>4. FdIsOpen' /\ SendsItsData'
    BY <1>15 DEF CloseSocket, ClientInv, FdIsOpen, Open, SendsItsData, connvars, slotvars
  <2> QED
    BY <2>1, <2>2, <2>3, <2>4 DEF ClientInv
<1>16. ASSUME ClearFd PROVE ClientInv'
  <2>1. TypeOK'
    BY <1>16 DEF ClearFd, ClientInv, TypeOK, connvars, slotvars
  <2>2. ConnectorInv'
    BY <1>16
    DEF ClearFd, ClientInv, ConnectorInv, Connecting, Open, TypeOK, NoFd, Fds, connvars,
        slotvars
  <2>3. SlotInv'
    BY <1>16 DEF ClearFd, ClientInv, SlotInv, SlotsClear, connvars, slotvars
  <2>4. FdIsOpen' /\ SendsItsData'
    BY <1>16 DEF ClearFd, ClientInv, FdIsOpen, Open, SendsItsData, connvars, slotvars
  <2> QED
    BY <2>1, <2>2, <2>3, <2>4 DEF ClientInv
<1>17. ASSUME ClearState PROVE ClientInv'
  <2>1. TypeOK'
    BY <1>17 DEF ClearState, ClientInv, TypeOK, connvars, slotvars
  <2>2. SlotInv'
    BY <1>17 DEF ClearState, ClientInv, SlotInv, SlotsClear, connvars, slotvars
  <2>3. ConnectorInv' /\ FdIsOpen' /\ SendsItsData'
    BY <1>17
    DEF ClearState, ClientInv, ConnectorInv, Connecting, Open, FdIsOpen, SendsItsData,
        connvars, slotvars
  <2> QED
    BY <2>1, <2>2, <2>3 DEF ClientInv
<1>18. ASSUME NEW d \in Data, FillSlot(d) PROVE ClientInv'
  <2>1. TypeOK'
    <3>1. x_nextthread \in Slots /\ NextSlot \in Slots
      BY TcpClientAssumption DEF ClientInv, TypeOK, NextSlot, Slots
    <3>2. x_tsp' \in [Slots -> [x_sendbuf : Data \cup {NoData}, threadisvalid : BOOLEAN]]
      BY <1>18, <3>1 DEF FillSlot, ClientInv, TypeOK
    <3> QED
      BY <1>18, <3>1, <3>2 DEF FillSlot, ClientInv, TypeOK, connvars
  <2>2. SlotInv'
    BY <1>18, SlotIsFree DEF FillSlot, ClientInv, TypeOK, SlotInv, SlotsClear, connvars
  <2>3. SendsItsData'
    BY <1>18, SlotIsFree DEF FillSlot, ClientInv, TypeOK, SendsItsData, connvars
  <2>4. ConnectorInv' /\ FdIsOpen'
    BY <1>18
    DEF FillSlot, ClientInv, ConnectorInv, Connecting, Open, FdIsOpen, connvars, slotvars
  <2> QED
    BY <2>1, <2>2, <2>3, <2>4 DEF ClientInv
<1>19. ASSUME NEW s \in Slots, SenderSend(s) PROVE ClientInv'
  <2>1. TypeOK'
    BY <1>19 DEF SenderSend, ClientInv, TypeOK, connvars, slotvars
  <2>2. SlotInv'
    BY <1>19 DEF SenderSend, ClientInv, SlotInv, TypeOK, SlotsClear, connvars, slotvars
  <2>3. SendsItsData'
    BY <1>19 DEF SenderSend, ClientInv, SendsItsData, TypeOK, connvars, slotvars
  <2>4. ConnectorInv' /\ FdIsOpen'
    BY <1>19
    DEF SenderSend, ClientInv, ConnectorInv, Connecting, Open, FdIsOpen, connvars,
        slotvars
  <2> QED
    BY <2>1, <2>2, <2>3, <2>4 DEF ClientInv
<1>20. ASSUME NEW s \in Slots, SenderDone(s) PROVE ClientInv'
  <2>1. TypeOK'
    BY <1>20 DEF SenderDone, ClientInv, TypeOK, SlotCleared, connvars, slotvars
  <2>2. SlotInv'
    BY <1>20
    DEF SenderDone, ClientInv, SlotInv, TypeOK, SlotCleared, SlotsClear, connvars,
        slotvars
  <2>3. SendsItsData'
    BY <1>20 DEF SenderDone, ClientInv, SendsItsData, TypeOK, SlotCleared, connvars, slotvars
  <2>4. ConnectorInv' /\ FdIsOpen'
    BY <1>20
    DEF SenderDone, ClientInv, ConnectorInv, Connecting, Open, FdIsOpen, connvars,
        slotvars
  <2> QED
    BY <2>1, <2>2, <2>3, <2>4 DEF ClientInv
<1> QED
  BY <1>1, <1>2, <1>3, <1>4, <1>5, <1>6, <1>7, <1>8, <1>9, <1>10, <1>11, <1>12, <1>13, <1>14,
     <1>15, <1>16, <1>17, <1>18, <1>19, <1>20, <1>21, <1>22
  DEF Next, ConnectorStep, SenderStep, CallGoesOn

LEMMA ClientBegins == Init => ClientInv
<1> SUFFICES ASSUME Init PROVE ClientInv
  OBVIOUS
<1>1. TypeOK
  <2>1. x_fd \in Fds \cup {NoFd} /\ x_blocked \in BOOLEAN /\ selectFailed \in BOOLEAN
    BY DEF Init
  <2>2. connector \in [Connectors -> [pc : {"none", "start", "socket", "connect", "state", "unblock"},
                                    fd : Fds \cup {NoFd}]]
    BY DEF Init, NoThread
  <2>3. x_tsp \in [Slots -> [x_sendbuf : Data \cup {NoData}, threadisvalid : BOOLEAN]]
    BY DEF Init
  <2>4. x_nextthread \in Slots
    BY TcpClientAssumption DEF Init, Slots
  <2>5. /\ sender \in [Slots -> {"none", "started", "sent"}]
        /\ given \in [Slots -> Data \cup {NoData}]
        /\ fdstate \in [Fds -> {"free", "open", "ended"}]
    BY DEF Init
  <2>6. /\ x_connectstate \in {0, 1}
        /\ pd \in {"idle", "wait", "closed", "cleared", "send"}
        /\ object \in {"live", "freeing", "freed"}
    BY DEF Init
  <2> QED
    BY <2>1, <2>2, <2>3, <2>4, <2>5, <2>6 DEF TypeOK
<1>2. ConnectorInv
  BY DEF Init, ConnectorInv, Connecting, NoThread
<1>3. SlotInv /\ FdIsOpen /\ SendsItsData
  BY DEF Init, SlotInv, FdIsOpen, SendsItsData, SlotsClear
<1> QED
  BY <1>1, <1>2, <1>3 DEF ClientInv

LEMMA ClientInvImplies == ClientInv => UsesWhatIsThere
<1> SUFFICES ASSUME ClientInv PROVE UsesWhatIsThere
  OBVIOUS
<1>1. SendsWhileOpen
  BY DEF ClientInv, TypeOK, SlotInv, SlotsClear, FdIsOpen, SendsWhileOpen
<1>2. FreedAlone
  BY DEF ClientInv, SlotInv, FreedAlone
<1> QED
  BY <1>1, <1>2 DEF ClientInv, UsesWhatIsThere

\* tcpclient, until select() fails for it, never sends to or reads from a descriptor it
\* has closed, and no thread outlives its socket; no thread outlives the object, and none
\* sends what was meant for another: for any number of connectors that race with each
\* other and with disconnects.
THEOREM ClientUsesWhatIsThere == Spec => []UsesWhatIsThere
<1>1. ClientInv /\ UNCHANGED vars => ClientInv'
  BY DEF vars, connvars, slotvars, ClientInv, TypeOK, ConnectorInv, Connecting, SlotInv,
     FdIsOpen, SendsItsData, Open, SlotsClear
<1> QED
  BY <1>1, ClientBegins, ClientStep, ClientInvImplies, PTL DEF Spec
-----------------------------------------------------------------------------
(* libpd's queue: what each message writes.                                *)

\* Summing a list, by the equation that defines it: there is such a function, so that
\* the one that is chosen satisfies it.
LEMMA TotalIsDefined ==
  ASSUME NEW s \in Seq(Nat)
  PROVE  \E sum \in [0..Len(s) -> Nat] :
           /\ Total(s) = sum[Len(s)]
           /\ sum[0] = 0
           /\ \A n \in 1..Len(s) : sum[n] = sum[n - 1] + s[n]
<1> DEFINE Step(f, n) == IF n = 0 THEN 0 ELSE f[n - 1] + s[n]
           Solves(f, m) == f = [n \in 0..m |-> Step(f, n)]
           Bad == {m \in 0..Len(s) : ~ \E f \in [0..m -> Nat] : Solves(f, m)}
<1>0. Len(s) \in Nat /\ \A n \in 1..Len(s) : s[n] \in Nat
  OBVIOUS
<1>1. Bad = {}
  <2>1. SUFFICES ASSUME Bad # {} PROVE FALSE
    OBVIOUS
  <2>2. PICK m \in Bad : \A k \in Bad : m <= k
    <3> HIDE DEF Solves
    <3>1. Bad \subseteq Nat
      BY <1>0
    <3> HIDE DEF Bad
    <3> QED
      BY <2>1, <3>1, LeastNatural
  <2>3. m \in 0..Len(s) /\ m # 0
    <3>1. [n \in 0..0 |-> 0] \in [0..0 -> Nat] /\ Solves([n \in 0..0 |-> 0], 0)
      OBVIOUS
    <3> HIDE DEF Solves
    <3> QED
      BY <3>1
  <2>4. PICK f \in [0..(m - 1) -> Nat] : Solves(f, m - 1)
    <3> HIDE DEF Solves
    <3>1. m - 1 \in 0..Len(s) /\ ~(m <= m - 1)
      BY <2>3, <1>0
    <3>2. m - 1 \notin Bad
      <4> HIDE DEF Bad
      <4> QED
        BY <2>2, <3>1
    <3> QED
      BY <3>1, <3>2
  <2> DEFINE g == [n \in 0..m |-> IF n = m THEN Step(f, m) ELSE f[n]]
  <2>5. f[m - 1] \in Nat /\ Step(f, m) \in Nat
    BY <1>0, <2>3
  <2>6. g \in [0..m -> Nat]
    <3>1. \A n \in 0..m : n # m => f[n] \in Nat
      BY <1>0, <2>3
    <3> QED
      BY <2>5, <3>1
  <2>7. Solves(g, m)
    <3>1. \A n \in 0..(m - 1) : f[n] = Step(f, n)
      BY <2>4
    <3>2. \A n \in 0..m : g[n] = Step(g, n)
      <4>1. ASSUME NEW n \in 0..m, n = m PROVE g[n] = Step(g, n)
        <5>1. g[m] = Step(f, m)
          BY <1>0, <2>3
        <5>2. m - 1 \in 0..m /\ m - 1 # m /\ g[m - 1] = f[m - 1]
          BY <2>3, <1>0
        <5> HIDE DEF g
        <5> QED
          BY <4>1, <5>1, <5>2, <2>3
      <4>2. ASSUME NEW n \in 0..m, n # m PROVE g[n] = Step(g, n)
        <5>1. g[n] = f[n] /\ f[n] = Step(f, n)
          BY <3>1, <4>2, <1>0, <2>3
        <5>2. n # 0 => g[n - 1] = f[n - 1]
          BY <4>2, <1>0, <2>3
        <5> HIDE DEF g
        <5> QED
          BY <5>1, <5>2
      <4> QED
        BY <4>1, <4>2
    <3>3. g = [n \in 0..m |-> g[n]]
      OBVIOUS
    <3> HIDE DEF g
    <3>4. [n \in 0..m |-> g[n]] = [n \in 0..m |-> Step(g, n)]
      BY <3>2
    <3> QED
      BY <3>3, <3>4
  <2> HIDE DEF Solves, g
  <2> QED
    BY <2>2, <2>6, <2>7
<1> DEFINE sum == CHOOSE f : Solves(f, Len(s))
<1>2. PICK h \in [0..Len(s) -> Nat] : Solves(h, Len(s))
  <2> HIDE DEF Solves
  <2> QED
    BY <1>1, <1>0
<1>3. Solves(sum, Len(s))
  <2> HIDE DEF Solves
  <2> QED
    BY <1>2
<1>4. Total(s) = sum[Len(s)]
  BY DEF Total
<1> HIDE DEF sum
<1>5. \A n \in 0..Len(s) : sum[n] = Step(sum, n) /\ h[n] = Step(h, n)
  BY <1>2, <1>3
<1>6. \A n \in 0..Len(s) : sum[n] = h[n]
  <2> DEFINE Wrong == {n \in 0..Len(s) : sum[n] # h[n]}
  <2>1. SUFFICES ASSUME Wrong # {} PROVE FALSE
    OBVIOUS
  <2>2. PICK n \in Wrong : \A k \in Wrong : n <= k
    <3>1. Wrong \subseteq Nat
      BY <1>0
    <3> HIDE DEF Wrong
    <3> QED
      BY <2>1, <3>1, LeastNatural
  <2>3. n # 0
    BY <1>5
  <2>4. n - 1 \in 0..Len(s) /\ n - 1 \notin Wrong
    BY <2>2, <2>3, <1>0
  <2> QED
    BY <1>5, <2>3, <2>4
<1>7. h[0] = 0 /\ \A n \in 1..Len(s) : h[n] = h[n - 1] + s[n]
  BY <1>5, <1>0
<1> QED
  BY <1>0, <1>4, <1>6, <1>7

\* Any function that sums it gives the total.
LEMMA TotalIs ==
  ASSUME NEW s \in Seq(Nat), NEW f, f[0] = 0, \A n \in 1..Len(s) : f[n] = f[n - 1] + s[n]
  PROVE  Total(s) = f[Len(s)]
<1>1. PICK sum \in [0..Len(s) -> Nat] :
        /\ Total(s) = sum[Len(s)]
        /\ sum[0] = 0
        /\ \A n \in 1..Len(s) : sum[n] = sum[n - 1] + s[n]
  BY TotalIsDefined
<1>2. Len(s) \in Nat
  OBVIOUS
<1> DEFINE Wrong == {n \in 0..Len(s) : sum[n] # f[n]}
<1>3. Wrong = {}
  <2>1. SUFFICES ASSUME Wrong # {} PROVE FALSE
    OBVIOUS
  <2>2. PICK n \in Wrong : \A k \in Wrong : n <= k
    <3>1. Wrong \subseteq Nat
      BY <1>2
    <3> HIDE DEF Wrong
    <3> QED
      BY <2>1, <3>1, LeastNatural
  <2>3. n # 0
    BY <1>1
  <2>4. n - 1 \in 0..Len(s) /\ n - 1 \notin Wrong
    BY <2>2, <2>3, <1>2
  <2> QED
    BY <1>1, <1>2, <2>3, <2>4
<1> QED
  BY <1>1, <1>2, <1>3

LEMMA TotalProperties ==
  /\ Total(<<>>) = 0
  /\ \A s \in Seq(Nat) : Total(s) \in Nat
  /\ \A s \in Seq(Nat), n \in Nat : Total(Append(s, n)) = Total(s) + n
  /\ \A s \in Seq(Nat) : s # <<>> =>
       Head(s) \in Nat /\ Tail(s) \in Seq(Nat) /\ Total(s) = Head(s) + Total(Tail(s))
<1>1. ASSUME NEW s \in Seq(Nat) PROVE Total(s) \in Nat
  BY TotalIsDefined, Len(s) \in Nat
<1>2. Total(<<>>) = 0
  <2>1. <<>> \in Seq(Nat) /\ Len(<<>>) = 0
    OBVIOUS
  <2> DEFINE f == [n \in {0} |-> 0]
  <2>2. f[0] = 0 /\ \A n \in 1..Len(<<>>) : f[n] = f[n - 1] + <<>>[n]
    BY <2>1
  <2>3. Total(<<>>) = f[Len(<<>>)]
    <3> HIDE DEF f
    <3> QED
      BY <2>1, <2>2, TotalIs
  <2> QED
    BY <2>1, <2>2, <2>3
<1>3. ASSUME NEW s \in Seq(Nat), NEW n \in Nat PROVE Total(Append(s, n)) = Total(s) + n
  <2> DEFINE t == Append(s, n)
  <2>1. /\ t \in Seq(Nat) /\ Len(s) \in Nat /\ Len(t) = Len(s) + 1 /\ t[Len(s) + 1] = n
        /\ \A i \in 1..Len(s) : t[i] = s[i]
    OBVIOUS
  <2>2. PICK sum \in [0..Len(s) -> Nat] :
          /\ Total(s) = sum[Len(s)]
          /\ sum[0] = 0
          /\ \A i \in 1..Len(s) : sum[i] = sum[i - 1] + s[i]
    BY TotalIsDefined
  <2> HIDE DEF t
  <2> DEFINE f == [i \in 0..(Len(s) + 1) |-> IF i = Len(s) + 1 THEN sum[Len(s)] + n ELSE sum[i]]
  <2>3. f[0] = 0 /\ f[Len(t)] = Total(s) + n
    BY <2>1, <2>2
  <2>4. ASSUME NEW i \in 1..Len(t) PROVE f[i] = f[i - 1] + t[i]
    <3>1. i - 1 \in 0..(Len(s) + 1) /\ i - 1 # Len(s) + 1 /\ f[i - 1] = sum[i - 1]
      BY <2>1
    <3>2. CASE i = Len(s) + 1
      BY <2>1, <3>1, <3>2
    <3>3. CASE i # Len(s) + 1
      <4>1. i \in 1..Len(s) /\ f[i] = sum[i]
        BY <2>1, <3>3
      <4> HIDE DEF f
      <4> QED
        BY <4>1, <3>1, <2>1, <2>2
    <3> QED
      BY <3>2, <3>3
  <2> HIDE DEF f
  <2>5. Total(t) = f[Len(t)]
    BY <2>1, <2>3, <2>4, TotalIs
  <2> QED
    BY <2>3, <2>5 DEF t
<1>4. ASSUME NEW s \in Seq(Nat), s # <<>>
      PROVE  Head(s) \in Nat /\ Tail(s) \in Seq(Nat) /\ Total(s) = Head(s) + Total(Tail(s))
  <2> DEFINE t == Tail(s)
  <2>1. /\ t \in Seq(Nat) /\ Len(s) \in Nat \ {0} /\ Len(t) = Len(s) - 1
        /\ Head(s) = s[1] /\ Head(s) \in Nat
        /\ \A i \in 1..Len(t) : t[i] = s[i + 1]
    BY <1>4
  <2>2. PICK sum \in [0..Len(s) -> Nat] :
          /\ Total(s) = sum[Len(s)]
          /\ sum[0] = 0
          /\ \A i \in 1..Len(s) : sum[i] = sum[i - 1] + s[i]
    BY TotalIsDefined
  <2> HIDE DEF t
  <2> DEFINE f == [i \in 0..(Len(s) - 1) |-> sum[i + 1] - Head(s)]
  <2>3. f[0] = 0 /\ f[Len(t)] = Total(s) - Head(s)
    <3>1. sum[1] = sum[0] + s[1]
      BY <2>1, <2>2
    <3> QED
      BY <3>1, <2>1, <2>2
  <2>4. ASSUME NEW i \in 1..Len(t) PROVE f[i] = f[i - 1] + t[i]
    <3>1. /\ i \in 0..(Len(s) - 1) /\ i - 1 \in 0..(Len(s) - 1) /\ i + 1 \in 1..Len(s)
          /\ i + 1 - 1 = i /\ i - 1 + 1 = i
      BY <2>1
    <3>2. f[i] = sum[i + 1] - Head(s) /\ f[i - 1] = sum[i] - Head(s)
      BY <3>1
    <3>3. sum[i + 1] = sum[i] + t[i]
      <4>1. sum[i + 1] = sum[i + 1 - 1] + s[i + 1]
        BY <3>1, <2>2
      <4> QED
        BY <4>1, <3>1, <2>1, Zenon
    <3>4. t[i] \in Nat /\ sum[i] \in Nat
      BY <3>1, <2>1
    <3> HIDE DEF f
    <3> QED
      BY <2>1, <3>2, <3>3, <3>4
  <2> HIDE DEF f
  <2>5. Total(t) = f[Len(t)]
    BY <2>1, <2>3, <2>4, TotalIs
  <2>6. Total(s) \in Nat
    BY <1>1
  <2> QED
    BY <2>1, <2>3, <2>5, <2>6 DEF t
<1> QED
  BY <1>1, <1>2, <1>3, <1>4

-----------------------------------------------------------------------------
(* libpd's queue: the indices of the ring.                                *)

\* How much is between two indices.
Spacing(r, w) == (BufferSize + w - r) % BufferSize

Indices == 0..(BufferSize - 1)

LEMMA SpacingIs ==
  ASSUME NEW r \in Indices, NEW w \in Indices
  PROVE  /\ Spacing(r, w) = IF r <= w THEN w - r ELSE BufferSize + w - r
         /\ Spacing(r, w) \in Indices
<1> DEFINE a == BufferSize + w - r
<1>1. BufferSize \in Nat \ {0} /\ a \in 0..(2 * BufferSize - 1)
  BY PdQueueAssumption DEF Indices
<1>2. a % BufferSize = IF a < BufferSize THEN a ELSE a - BufferSize
  <2> HIDE DEF a
  <2> QED
    BY <1>1, ModSmall
<1>3. Spacing(r, w) = IF a < BufferSize THEN a ELSE a - BufferSize
  BY <1>2 DEF Spacing
<1> QED
  BY <1>1, <1>3 DEF Indices

\* The index after k more.
LEMMA SlotIs ==
  ASSUME NEW i \in Indices, NEW k \in Indices
  PROVE  /\ Slot(i + k) = IF i + k < BufferSize THEN i + k ELSE i + k - BufferSize
         /\ Slot(i + k) \in Indices
<1> DEFINE a == i + k
<1>1. BufferSize \in Nat \ {0} /\ a \in 0..(2 * BufferSize - 1)
  BY PdQueueAssumption DEF Indices
<1>2. a % BufferSize = IF a < BufferSize THEN a ELSE a - BufferSize
  <2> HIDE DEF a
  <2> QED
    BY <1>1, ModSmall
<1>3. Slot(i + k) = IF a < BufferSize THEN a ELSE a - BufferSize
  BY <1>2 DEF Slot
<1> QED
  BY <1>1, <1>3 DEF Indices

Free(r, w) == (BufferSize + r - w - 1) % BufferSize

LEMMA FreeIs ==
  ASSUME NEW r \in Indices, NEW w \in Indices
  PROVE  Free(r, w) = BufferSize - 1 - Spacing(r, w)
<1> DEFINE a == BufferSize + r - w - 1
<1>1. BufferSize \in Nat \ {0} /\ a \in 0..(2 * BufferSize - 1)
  BY PdQueueAssumption DEF Indices
<1>2. a % BufferSize = IF a < BufferSize THEN a ELSE a - BufferSize
  <2> HIDE DEF a
  <2> QED
    BY <1>1, ModSmall
<1>3. Free(r, w) = IF a < BufferSize THEN a ELSE a - BufferSize
  BY <1>2 DEF Free
<1>4. Spacing(r, w) = IF r <= w THEN w - r ELSE BufferSize + w - r
  BY SpacingIs
<1> QED
  BY <1>1, <1>3, <1>4 DEF Indices

\* What is written is more to be read.
LEMMA EnteredIsMore ==
  ASSUME NEW r \in Indices, NEW w \in Indices, NEW n \in Nat, Spacing(r, w) + n < BufferSize
  PROVE  /\ Slot(w + n) \in Indices
         /\ Spacing(r, Slot(w + n)) = Spacing(r, w) + n
<1>1. BufferSize \in Nat \ {0} /\ n \in Indices
  BY PdQueueAssumption, SpacingIs DEF Indices
<1>2. /\ Slot(w + n) = IF w + n < BufferSize THEN w + n ELSE w + n - BufferSize
      /\ Slot(w + n) \in Indices
  BY <1>1, SlotIs
<1>3. Spacing(r, w) = IF r <= w THEN w - r ELSE BufferSize + w - r
  BY SpacingIs
<1>4. Spacing(r, Slot(w + n)) = IF r <= Slot(w + n) THEN Slot(w + n) - r
                                ELSE BufferSize + Slot(w + n) - r
  BY <1>2, SpacingIs
<1> QED
  BY <1>1, <1>2, <1>3, <1>4 DEF Indices

\* What has been read is room again.
LEMMA ReadIsLess ==
  ASSUME NEW r \in Indices, NEW w \in Indices, NEW n \in Nat, n <= Spacing(r, w)
  PROVE  /\ Slot(r + n) \in Indices
         /\ Spacing(Slot(r + n), w) = Spacing(r, w) - n
<1>1. BufferSize \in Nat \ {0} /\ n \in Indices
  BY PdQueueAssumption, SpacingIs DEF Indices
<1>2. /\ Slot(r + n) = IF r + n < BufferSize THEN r + n ELSE r + n - BufferSize
      /\ Slot(r + n) \in Indices
  BY <1>1, SlotIs
<1>3. Spacing(r, w) = IF r <= w THEN w - r ELSE BufferSize + w - r
  BY SpacingIs
<1>4. Spacing(Slot(r + n), w) = IF Slot(r + n) <= w THEN w - Slot(r + n)
                                ELSE BufferSize + w - Slot(r + n)
  BY <1>2, SpacingIs
<1> QED
  BY <1>1, <1>2, <1>3, <1>4 DEF Indices

\* A place behind one that is reached around the end.
LEMMA SlotsAdd ==
  ASSUME NEW i \in Indices, NEW n \in Nat, NEW k \in Nat, n + k < BufferSize
  PROVE  Slot(Slot(i + n) + k) = Slot(i + (n + k))
<1>1. BufferSize \in Nat \ {0} /\ n \in Indices /\ k \in Indices /\ n + k \in Indices
  BY PdQueueAssumption DEF Indices
<1>2. /\ Slot(i + n) = IF i + n < BufferSize THEN i + n ELSE i + n - BufferSize
      /\ Slot(i + n) \in Indices
  BY <1>1, SlotIs
<1>3. Slot(Slot(i + n) + k) = IF Slot(i + n) + k < BufferSize THEN Slot(i + n) + k
                              ELSE Slot(i + n) + k - BufferSize
  BY <1>1, <1>2, SlotIs
<1>4. Slot(i + (n + k)) = IF i + (n + k) < BufferSize THEN i + (n + k)
                          ELSE i + (n + k) - BufferSize
  BY <1>1, SlotIs
<1> QED
  BY <1>1, <1>2, <1>3, <1>4 DEF Indices

LEMMA SlotOfSpacing ==
  ASSUME NEW r \in Indices, NEW w \in Indices
  PROVE  Slot(r + Spacing(r, w)) = w
<1>1. BufferSize \in Nat \ {0} /\ Spacing(r, w) \in Indices
  BY PdQueueAssumption, SpacingIs
<1>2. Slot(r + Spacing(r, w)) = IF r + Spacing(r, w) < BufferSize THEN r + Spacing(r, w)
                                ELSE r + Spacing(r, w) - BufferSize
  BY <1>1, SlotIs
<1>3. Spacing(r, w) = IF r <= w THEN w - r ELSE BufferSize + w - r
  BY SpacingIs
<1> QED
  BY <1>1, <1>2, <1>3 DEF Indices

\* A place says how far behind an index it is; what is to be read is so far behind the
\* next place to write as there is room.
LEMMA SlotBehind ==
  ASSUME NEW w \in Indices, NEW k \in Indices
  PROVE  Slot(w + k) \in Indices /\ Spacing(w, Slot(w + k)) = k
<1>1. BufferSize \in Nat \ {0}
  BY PdQueueAssumption
<1>2. /\ Slot(w + k) = IF w + k < BufferSize THEN w + k ELSE w + k - BufferSize
      /\ Slot(w + k) \in Indices
  BY SlotIs
<1>3. Spacing(w, Slot(w + k)) = IF w <= Slot(w + k) THEN Slot(w + k) - w
                                ELSE BufferSize + Slot(w + k) - w
  BY <1>2, SpacingIs
<1> QED
  BY <1>1, <1>2, <1>3 DEF Indices

LEMMA HeldIsElsewhere ==
  ASSUME NEW r \in Indices, NEW w \in Indices, NEW k \in 0..(Spacing(r, w) - 1)
  PROVE  /\ Slot(r + k) \in Indices
         /\ Spacing(w, Slot(r + k)) >= BufferSize - Spacing(r, w)
<1>1. BufferSize \in Nat \ {0} /\ Spacing(r, w) \in Indices /\ k \in Indices
  BY PdQueueAssumption, SpacingIs DEF Indices
<1>2. /\ Slot(r + k) = IF r + k < BufferSize THEN r + k ELSE r + k - BufferSize
      /\ Slot(r + k) \in Indices
  BY <1>1, SlotIs
<1>3. Spacing(r, w) = IF r <= w THEN w - r ELSE BufferSize + w - r
  BY SpacingIs
<1>4. Spacing(w, Slot(r + k)) = IF w <= Slot(r + k) THEN Slot(r + k) - w
                                ELSE BufferSize + Slot(r + k) - w
  BY <1>2, SpacingIs
<1> QED
  BY <1>1, <1>2, <1>3, <1>4 DEF Indices

-----------------------------------------------------------------------------
(* libpd's queue: all that is written.                                    *)

QCells == [message : Nat, piece : Nat]
Size(q, m) == HeaderSize + Total(q[m])
\* The place of a message, and of its cells, in all that is written.
Start(q, m) == Total([i \in 1..(m - 1) |-> Size(q, i)])
IsAt(q, c, p) ==
  /\ c \in QCells
  /\ c.message \in 1..Len(q) /\ c.piece \in 1..Size(q, c.message)
  /\ Start(q, c.message) + c.piece - 1 = p

LEMMA SizeIsTrue ==
  ASSUME NEW q \in Seq(Bodies), NEW m \in 1..Len(q)
  PROVE  /\ q[m] \in Seq(Nat) /\ Total(q[m]) \in Nat
         /\ Size(q, m) \in Nat \ {0} /\ Size(q, m) >= HeaderSize
<1>1. q[m] \in Bodies /\ Bodies \subseteq Seq(Nat \ {0}) /\ HeaderSize \in Nat \ {0}
  BY PdQueueAssumption
<1>2. q[m] \in Seq(Nat)
  BY <1>1
<1>3. Total(q[m]) \in Nat
  BY <1>2, TotalProperties
<1> QED
  BY <1>1, <1>2, <1>3 DEF Size

LEMMA StartProperties ==
  ASSUME NEW q \in Seq(Bodies)
  PROVE  /\ Start(q, 1) = 0
         /\ \A m \in 1..(Len(q) + 1) : Start(q, m) \in Nat
         /\ \A m \in 1..Len(q) : Start(q, m + 1) = Start(q, m) + Size(q, m)
<1>1. Len(q) \in Nat
  OBVIOUS
<1>2. Start(q, 1) = 0
  <2>1. [i \in 1..(1 - 1) |-> Size(q, i)] = <<>>
    OBVIOUS
  <2> QED
    BY <2>1, TotalProperties DEF Start
<1>3. ASSUME NEW m \in 1..(Len(q) + 1)
      PROVE  [i \in 1..(m - 1) |-> Size(q, i)] \in Seq(Nat) /\ Start(q, m) \in Nat
  <2>1. \A i \in 1..(m - 1) : Size(q, i) \in Nat
    BY <1>1, SizeIsTrue
  <2>2. [i \in 1..(m - 1) |-> Size(q, i)] \in [1..(m - 1) -> Nat] /\ m - 1 \in Nat
    BY <2>1, <1>1
  <2>3. [i \in 1..(m - 1) |-> Size(q, i)] \in Seq(Nat)
    <3> HIDE DEF Size
    <3> QED
      BY <2>2
  <2> QED
    BY <2>3, TotalProperties DEF Start
<1>4. ASSUME NEW m \in 1..Len(q) PROVE Start(q, m + 1) = Start(q, m) + Size(q, m)
  <2> DEFINE s == [i \in 1..(m - 1) |-> Size(q, i)]
             t == [i \in 1..(m + 1 - 1) |-> Size(q, i)]
  <2>1. m \in 1..(Len(q) + 1) /\ m + 1 \in 1..(Len(q) + 1) /\ Size(q, m) \in Nat
    BY <1>1, SizeIsTrue
  <2>2. s \in Seq(Nat) /\ t \in Seq(Nat)
    BY <1>3, <2>1
  <2>3. Len(s) = m - 1 /\ Len(t) = m
    BY <2>1, <1>1
  <2>4. t = Append(s, Size(q, m))
    <3>1. /\ Append(s, Size(q, m)) \in Seq(Nat) /\ Len(Append(s, Size(q, m))) = m
      BY <2>1, <2>2, <2>3
    <3>2. ASSUME NEW i \in 1..m PROVE t[i] = Append(s, Size(q, m))[i]
      <4>1. t[i] = Size(q, i)
        BY <2>1
      <4>2. CASE i = m
        <5> HIDE DEF s
        <5> QED
          BY <4>1, <4>2, <2>1, <2>2, <2>3
      <4>3. CASE i # m
        <5>1. i \in 1..(m - 1) /\ s[i] = Size(q, i)
          BY <4>3, <2>1
        <5> HIDE DEF s
        <5> QED
          BY <5>1, <4>1, <2>1, <2>2, <2>3
      <4> QED
        BY <4>2, <4>3
    <3> HIDE DEF s, t
    <3> QED
      BY <3>1, <3>2, <2>2, <2>3, SeqEqual
  <2> HIDE DEF s, t
  <2>5. Total(t) = Total(s) + Size(q, m)
    BY <2>1, <2>2, <2>4, TotalProperties
  <2> QED
    BY <2>5 DEF s, t, Start
<1> QED
  BY <1>2, <1>3, <1>4

\* Messages follow each other.
LEMMA StartGrows ==
  ASSUME NEW q \in Seq(Bodies), NEW m \in 1..Len(q), NEW n \in 1..(Len(q) + 1), m < n
  PROVE  Start(q, m + 1) <= Start(q, n) /\ Start(q, m) < Start(q, n)
<1> DEFINE Wrong == {k \in (m + 1)..(Len(q) + 1) : ~(Start(q, m + 1) <= Start(q, k))}
<1>1. Len(q) \in Nat
  OBVIOUS
<1>2. Wrong = {}
  <2>1. SUFFICES ASSUME Wrong # {} PROVE FALSE
    OBVIOUS
  <2>2. PICK k \in Wrong : \A j \in Wrong : k <= j
    <3>1. Wrong \subseteq Nat
      BY <1>1
    <3> HIDE DEF Wrong
    <3> QED
      BY <2>1, <3>1, LeastNatural
  <2>3. /\ k \in (m + 1)..(Len(q) + 1) /\ Start(q, m + 1) \in Nat /\ Start(q, k) \in Nat
        /\ ~(Start(q, m + 1) <= Start(q, k))
    BY <1>1, StartProperties
  <2>4. k # m + 1
    BY <2>3
  <2>5. k - 1 \in (m + 1)..(Len(q) + 1) /\ k - 1 \in 1..Len(q) /\ ~(k <= k - 1)
    BY <1>1, <2>3, <2>4
  <2>6. k - 1 \notin Wrong
    <3> HIDE DEF Wrong
    <3> QED
      BY <2>2, <2>5
  <2>7. Start(q, k - 1 + 1) = Start(q, k - 1) + Size(q, k - 1) /\ Size(q, k - 1) \in Nat
    BY <2>5, StartProperties, SizeIsTrue
  <2>8. Start(q, m + 1) <= Start(q, k - 1) /\ Start(q, k - 1) \in Nat
    BY <2>5, <2>6, StartProperties, <1>1
  <2>9. k - 1 + 1 = k
    BY <2>3
  <2> QED
    BY <2>3, <2>7, <2>8, <2>9
<1>3. n \in (m + 1)..(Len(q) + 1)
  BY <1>1
<1>4. Start(q, m + 1) <= Start(q, n)
  BY <1>2, <1>3
<1>5. Start(q, m + 1) = Start(q, m) + Size(q, m) /\ Size(q, m) \in Nat \ {0}
  BY StartProperties, SizeIsTrue
<1>6. Start(q, m) \in Nat /\ Start(q, n) \in Nat
  BY StartProperties, <1>1
<1> QED
  BY <1>4, <1>5, <1>6

\* A place is of one cell.
LEMMA CellIsKnown ==
  ASSUME NEW q \in Seq(Bodies), NEW c, NEW p, IsAt(q, c, p),
         NEW m \in 1..Len(q), NEW k \in 1..Size(q, m), p = Start(q, m) + k - 1
  PROVE  c = Piece(m, k)
<1>1. /\ c \in QCells /\ c.message \in 1..Len(q) /\ c.piece \in 1..Size(q, c.message)
      /\ Start(q, c.message) + c.piece - 1 = p /\ Len(q) \in Nat
  BY DEF IsAt
<1> DEFINE l == c.message
<1>2. /\ Start(q, m) \in Nat /\ Start(q, l) \in Nat
      /\ Size(q, m) \in Nat /\ Size(q, l) \in Nat
      /\ Start(q, m + 1) = Start(q, m) + Size(q, m) /\ Start(q, l + 1) = Start(q, l) + Size(q, l)
  <2>1. ASSUME NEW i \in 1..Len(q)
        PROVE  /\ Start(q, i) \in Nat /\ Size(q, i) \in Nat
               /\ Start(q, i + 1) = Start(q, i) + Size(q, i)
    <3>1. i \in 1..(Len(q) + 1)
      BY <1>1
    <3>2. Start(q, i) \in Nat /\ Start(q, i + 1) = Start(q, i) + Size(q, i)
      BY <3>1, StartProperties
    <3>3. Size(q, i) \in Nat
      BY SizeIsTrue
    <3> QED
      BY <3>2, <3>3
  <2>2. l \in 1..Len(q)
    BY <1>1
  <2> QED
    BY <2>1, <2>2
<1>3. ~(m < l)
  <2>1. m < l => Start(q, m + 1) <= Start(q, l)
    BY <1>1, StartGrows
  <2> QED
    BY <1>1, <1>2, <2>1
<1>4. ~(l < m)
  <2>1. l < m => Start(q, l + 1) <= Start(q, m)
    BY <1>1, StartGrows
  <2> QED
    BY <1>1, <1>2, <2>1
<1>5. l = m
  BY <1>1, <1>3, <1>4
<1>6. c.piece = k
  BY <1>1, <1>2, <1>5
<1> QED
  BY <1>1, <1>5, <1>6 DEF Piece, QCells

\* What has been queued stays where it is.
LEMMA QueuedStays ==
  ASSUME NEW q \in Seq(Bodies), NEW b \in Bodies
  PROVE  LET r == Append(q, b) IN
         /\ r \in Seq(Bodies) /\ Len(r) = Len(q) + 1 /\ r[Len(q) + 1] = b
         /\ \A m \in 1..Len(q) : r[m] = q[m] /\ Size(r, m) = Size(q, m)
         /\ \A m \in 1..(Len(q) + 1) : Start(r, m) = Start(q, m)
         /\ \A c, p : IsAt(q, c, p) => IsAt(r, c, p)
<1> DEFINE r == Append(q, b)
<1>1. /\ r \in Seq(Bodies) /\ Len(q) \in Nat /\ Len(r) = Len(q) + 1 /\ r[Len(q) + 1] = b
      /\ \A m \in 1..Len(q) : r[m] = q[m]
  OBVIOUS
<1> HIDE DEF r
<1>2. \A m \in 1..Len(q) : Size(r, m) = Size(q, m)
  BY <1>1 DEF Size
<1>3. ASSUME NEW m \in 1..(Len(q) + 1) PROVE Start(r, m) = Start(q, m)
  <2>1. \A i \in 1..(m - 1) : Size(r, i) = Size(q, i)
    BY <1>1, <1>2
  <2>2. [i \in 1..(m - 1) |-> Size(r, i)] = [i \in 1..(m - 1) |-> Size(q, i)]
    BY <2>1
  <2> QED
    BY <2>2 DEF Start
<1>4. ASSUME NEW c, NEW p, IsAt(q, c, p) PROVE IsAt(r, c, p)
  <2>1. c.message \in 1..Len(q)
    BY <1>4 DEF IsAt
  <2>2. /\ c.message \in 1..Len(r) /\ c.message \in 1..(Len(q) + 1)
        /\ Size(r, c.message) = Size(q, c.message)
    BY <2>1, <1>1, <1>2
  <2>3. Start(r, c.message) = Start(q, c.message)
    BY <2>2, <1>3
  <2> QED
    BY <1>4, <2>2, <2>3 DEF IsAt
<1> QED
  BY <1>1, <1>2, <1>3, <1>4 DEF r

-----------------------------------------------------------------------------
(* libpd's queue: the inductive invariant.                                *)

Unread == Spacing(read_idx, write_idx)

\* How far the queue has been written, and read; where what the reader has taken ends.
Entered == Start(queued, Len(queued) + 1) - Total(writes)
ReadOut == Entered - Unread
Taken == IF reader \in {"dispatches", "is lost"} THEN ReadOut ELSE ReadOut + available

\* Behind the beginning of a message, and before its end.
Within(p, m) == Start(queued, m) < p /\ p < Start(queued, m + 1)

Deliveries == [message : Nat, body : Seq(QCells)]

QueueTypeInv ==
  /\ buf \in [Indices -> QCells] /\ temp_buffer \in [Indices -> QCells]
  /\ write_idx \in Indices /\ read_idx \in Indices
  /\ queued \in Seq(Bodies) /\ writes \in Seq(Nat \ {0})
  /\ copied \in BOOLEAN /\ (copied => writes # <<>>)
  /\ reader \in {"waits", "reads", "has read", "dispatches", "is lost"}
  /\ available \in Nat /\ next \in Nat
  /\ delivered \in Seq(Deliveries)
  /\ cut \subseteq 1..Len(queued)
  /\ writes # <<>> => queued # <<>> /\ Total(writes) <= Size(queued, Len(queued))

\* What is between the indices, and what is copied behind, are the cells that come next.
QueueRingInv ==
  /\ Unread + Total(writes) < BufferSize
  /\ Unread <= Entered
  /\ \A k \in 0..(Unread - 1) : IsAt(queued, buf[Slot(read_idx + k)], ReadOut + k)
  /\ copied =>
       \A k \in 0..(Head(writes) - 1) : IsAt(queued, buf[Slot(write_idx + k)], Entered + k)

\* What the reader has taken ends with a message, unless that is cut.
QueueTakenInv ==
  /\ reader = "waits" => available = 0 /\ next = 0
  /\ reader \in {"reads", "has read"} => 0 < available /\ available <= Unread /\ next = 0
  /\ reader = "dispatches" => 0 < available /\ available < BufferSize /\ available <= ReadOut
  /\ reader \in {"has read", "dispatches"} =>
       \A i \in 0..(available - 1) : IsAt(queued, temp_buffer[i], Taken - available + i)
  /\ reader \in {"reads", "has read", "dispatches"} =>
       \/ \E m \in 1..(Len(queued) + 1) : Taken = Start(queued, m)
       \/ \E m \in cut : Within(Taken, m)

\* The reader is at the next message; or it has delivered one that is cut, and is within.
QueueNextInv ==
  /\ Len(delivered) <= Len(queued)
  /\ reader # "is lost" =>
       /\ \/ Taken - available + next = Start(queued, Len(delivered) + 1)
          \/ next = 0 /\ Len(delivered) \in cut /\ Within(Taken - available, Len(delivered))
       /\ next > available => Len(delivered) \in cut /\ Start(queued, Len(delivered)) < Taken

QueueInv == QueueTypeInv /\ QueueRingInv /\ QueueTakenInv /\ QueueNextInv /\ DeliversInOrder

LEMMA QueueFacts ==
  ASSUME QueueTypeInv, QueueRingInv
  PROVE  /\ BufferSize \in Nat \ {0} /\ HeaderSize \in Nat \ {0}
         /\ Len(queued) \in Nat /\ Unread \in Nat /\ Unread < BufferSize
         /\ writes \in Seq(Nat) /\ Total(writes) \in Nat
         /\ Start(queued, Len(queued) + 1) \in Nat
         /\ Entered \in Nat /\ ReadOut \in Nat /\ Taken \in Nat
         /\ rb_available_to_read = Unread /\ rb_available_to_write = BufferSize - 1 - Unread
         /\ writes # <<>> =>
              /\ Len(queued) \in 1..Len(queued)
              /\ Head(writes) \in Nat \ {0} /\ Tail(writes) \in Seq(Nat \ {0})
              /\ Total(writes) = Head(writes) + Total(Tail(writes)) /\ Total(Tail(writes)) \in Nat
              /\ Start(queued, Len(queued)) \in Nat /\ Size(queued, Len(queued)) \in Nat
              /\ Start(queued, Len(queued) + 1)
                   = Start(queued, Len(queued)) + Size(queued, Len(queued))
         /\ writes = <<>> => Total(writes) = 0
<1>0. /\ write_idx \in Indices /\ read_idx \in Indices
      /\ queued \in Seq(Bodies) /\ writes \in Seq(Nat \ {0}) /\ available \in Nat
      /\ writes # <<>> => queued # <<>> /\ Total(writes) <= Size(queued, Len(queued))
  BY Zenon DEF QueueTypeInv
<1>1. /\ BufferSize \in Nat \ {0} /\ HeaderSize \in Nat \ {0} /\ Len(queued) \in Nat
      /\ Unread \in Nat /\ Unread < BufferSize
  <2>1. Unread \in Indices
    BY <1>0, SpacingIs DEF Unread
  <2> QED
    BY <1>0, <2>1, PdQueueAssumption DEF Indices
<1>2. writes \in Seq(Nat)
  <2>1. \A s \in Seq(Nat \ {0}) : s \in Seq(Nat)
    OBVIOUS
  <2> QED
    BY <1>0, <2>1
<1>3. Total(writes) \in Nat /\ Start(queued, Len(queued) + 1) \in Nat
  <2>1. Len(queued) + 1 \in 1..(Len(queued) + 1)
    BY <1>1
  <2> QED
    BY <1>0, <1>2, <2>1, TotalProperties, StartProperties
<1>4. writes = <<>> => Total(writes) = 0
  BY TotalProperties
<1>5. ASSUME writes # <<>>
      PROVE  /\ Len(queued) \in 1..Len(queued)
             /\ Head(writes) \in Nat \ {0} /\ Tail(writes) \in Seq(Nat \ {0})
             /\ Total(writes) = Head(writes) + Total(Tail(writes)) /\ Total(Tail(writes)) \in Nat
             /\ Start(queued, Len(queued)) \in Nat /\ Size(queued, Len(queued)) \in Nat
             /\ Start(queued, Len(queued) + 1)
                  = Start(queued, Len(queued)) + Size(queued, Len(queued))
  <2>1. Len(queued) \in 1..Len(queued) /\ Len(queued) \in 1..(Len(queued) + 1)
    BY <1>0, <1>1, <1>5
  <2>2. Head(writes) \in Nat \ {0} /\ Tail(writes) \in Seq(Nat \ {0})
    BY <1>0, <1>5
  <2>3. Total(writes) = Head(writes) + Total(Tail(writes)) /\ Total(Tail(writes)) \in Nat
    BY <1>2, <1>5, TotalProperties
  <2>4. /\ Start(queued, Len(queued)) \in Nat /\ Size(queued, Len(queued)) \in Nat
        /\ Start(queued, Len(queued) + 1)
             = Start(queued, Len(queued)) + Size(queued, Len(queued))
    BY <1>0, <2>1, StartProperties, SizeIsTrue
  <2> QED
    BY <2>1, <2>2, <2>3, <2>4
<1>6. Entered \in Nat
  <2>1. CASE writes = <<>>
    BY <2>1, <1>3, <1>4 DEF Entered
  <2>2. CASE writes # <<>>
    <3>1. Total(writes) <= Size(queued, Len(queued))
      BY <2>2, <1>0
    <3> QED
      BY <3>1, <2>2, <1>3, <1>5 DEF Entered
  <2> QED
    BY <2>1, <2>2
<1>7. ReadOut \in Nat
  BY <1>1, <1>6 DEF ReadOut, QueueRingInv
<1>8. Taken \in Nat
  <2>1. ReadOut + available \in Nat
    BY <1>0, <1>7
  <2> QED
    BY <1>7, <2>1 DEF Taken
<1>9. rb_available_to_read = Unread
  BY DEF rb_available_to_read, Unread, Spacing
<1>10. rb_available_to_write = BufferSize - 1 - Unread
  <2>1. rb_available_to_write = Free(read_idx, write_idx)
    BY DEF rb_available_to_write, Free
  <2> QED
    BY <1>0, <2>1, FreeIs DEF Unread
<1> QED
  BY <1>1, <1>2, <1>3, <1>4, <1>5, <1>6, <1>7, <1>8, <1>9, <1>10

\* A step that leaves the writer and the ring alone.
LEMMA QueueRingStays ==
  ASSUME QueueRingInv, UNCHANGED <<ring, queued, writes, copied>>
  PROVE  /\ QueueRingInv' /\ Unread' = Unread /\ Entered' = Entered /\ ReadOut' = ReadOut
         /\ \A p, m : Within(p, m)' = Within(p, m)
<1>1. /\ buf' = buf /\ read_idx' = read_idx /\ write_idx' = write_idx
      /\ queued' = queued /\ writes' = writes /\ copied' = copied
  BY DEF ring
<1>2. Unread' = Unread
  BY <1>1 DEF Unread
<1>3. Entered' = Entered
  BY <1>1 DEF Entered
<1>4. ReadOut' = ReadOut
  BY <1>2, <1>3 DEF ReadOut
<1>5. ASSUME NEW p, NEW m PROVE Within(p, m)' = Within(p, m)
  BY <1>1 DEF Within
<1> QED
  BY <1>1, <1>2, <1>3, <1>4, <1>5 DEF QueueRingInv

\* A step that leaves the reader alone.
LEMMA QueueReaderStays ==
  ASSUME QueueTypeInv, QueueRingInv, QueueTakenInv, QueueNextInv, DeliversInOrder,
         UNCHANGED <<readervars, delivered, cut>>,
         ReadOut' = ReadOut, Unread' >= Unread, Unread' \in Nat,
         queued' = queued \/ \E body \in Bodies : queued' = Append(queued, body)
  PROVE  QueueTakenInv' /\ QueueNextInv' /\ DeliversInOrder'
<1>0. /\ queued \in Seq(Bodies) /\ Len(queued) \in Nat /\ available \in Nat /\ Unread \in Nat
      /\ Len(delivered) \in Nat /\ DOMAIN delivered = 1..Len(delivered)
      /\ Len(delivered) <= Len(queued) /\ cut \subseteq 1..Len(queued) /\ Taken \in Nat
  <2>1. /\ queued \in Seq(Bodies) /\ available \in Nat /\ delivered \in Seq(Deliveries)
        /\ cut \subseteq 1..Len(queued)
    BY Zenon DEF QueueTypeInv
  <2>2. Len(queued) \in Nat /\ Unread \in Nat /\ Taken \in Nat
    BY QueueFacts, Zenon
  <2>3. Len(delivered) \in Nat /\ DOMAIN delivered = 1..Len(delivered)
    BY <2>1, LenProperties
  <2>4. Len(delivered) <= Len(queued)
    BY Zenon DEF QueueNextInv
  <2> QED
    BY <2>1, <2>2, <2>3, <2>4
<1>1. /\ temp_buffer' = temp_buffer /\ available' = available /\ next' = next
      /\ reader' = reader /\ delivered' = delivered /\ cut' = cut
  BY DEF readervars
<1>2. /\ Len(queued) \in Nat /\ Len(queued') \in Nat /\ Len(queued) <= Len(queued')
      /\ \A m \in 1..Len(queued) : queued'[m] = queued[m]
      /\ \A m \in 1..(Len(queued) + 1) : Start(queued', m) = Start(queued, m)
      /\ \A c, p : IsAt(queued, c, p) => IsAt(queued', c, p)
  <2>1. queued \in Seq(Bodies) /\ Len(queued) \in Nat
    BY <1>0
  <2>2. CASE queued' = queued
    BY <2>1, <2>2
  <2>3. CASE \E body \in Bodies : queued' = Append(queued, body)
    <3>1. PICK body \in Bodies : queued' = Append(queued, body)
      BY <2>3
    <3> QED
      BY <2>1, <3>1, QueuedStays
  <2> QED
    BY <2>2, <2>3
<1>3. Taken' = Taken
  BY <1>1 DEF Taken
<1>4. \A m \in cut : m \in 1..Len(queued) /\ \A p : Within(p, m)' = Within(p, m)
  <2>1. ASSUME NEW m \in cut, NEW p PROVE m \in 1..Len(queued) /\ Within(p, m)' = Within(p, m)
    <3>1. m \in 1..(Len(queued) + 1) /\ m + 1 \in 1..(Len(queued) + 1) /\ m \in 1..Len(queued)
      BY <1>0
    <3> QED
      BY <3>1, <1>2 DEF Within
  <2> QED
    BY <2>1
<1>5. QueueTakenInv'
  <2>1. /\ reader' = "waits" => available' = 0 /\ next' = 0
        /\ reader' = "dispatches" =>
             0 < available' /\ available' < BufferSize /\ available' <= ReadOut'
    BY <1>1 DEF QueueTakenInv
  <2>2. reader' \in {"reads", "has read"} => 0 < available' /\ available' <= Unread' /\ next' = 0
    <3>1. reader \in {"reads", "has read"} => 0 < available /\ available <= Unread /\ next = 0
      BY Zenon DEF QueueTakenInv
    <3>2. available <= Unread => available <= Unread'
      <4>1. \A a, u, v \in Nat : a <= u /\ v >= u => a <= v
        OBVIOUS
      <4> QED
        BY <4>1, <1>0
    <3> QED
      BY <1>1, <3>1, <3>2, Zenon
  <2>3. reader' \in {"has read", "dispatches"} =>
          \A i \in 0..(available' - 1) :
            IsAt(queued', temp_buffer'[i], Taken' - available' + i)
    BY <1>1, <1>2, <1>3 DEF QueueTakenInv
  <2>4. ASSUME reader' \in {"reads", "has read", "dispatches"}
        PROVE  \/ \E m \in 1..(Len(queued') + 1) : Taken' = Start(queued', m)
               \/ \E m \in cut' : Within(Taken, m)'
    <3>1. \/ \E m \in 1..(Len(queued) + 1) : Taken = Start(queued, m)
          \/ \E m \in cut : Within(Taken, m)
      BY <2>4, <1>1 DEF QueueTakenInv
    <3>2. ASSUME NEW m \in 1..(Len(queued) + 1), Taken = Start(queued, m)
          PROVE  m \in 1..(Len(queued') + 1) /\ Taken' = Start(queued', m)
      BY <3>2, <1>2, <1>3
    <3>3. ASSUME NEW m \in cut, Within(Taken, m) PROVE m \in cut' /\ Within(Taken, m)'
      <4>1. Start(queued', m) = Start(queued, m) /\ Start(queued', m + 1) = Start(queued, m + 1)
        BY <1>2, <1>4
      <4> QED
        BY <4>1, <3>3, <1>1, <1>3 DEF Within
    <3> QED
      BY <3>1, <3>2, <3>3
  <2> QED
    BY <2>1, <2>2, <2>3, <2>4 DEF QueueTakenInv
<1>6. QueueNextInv'
  <2>1. Len(delivered) \in Nat /\ Len(delivered) <= Len(queued)
    BY <1>0
  <2>2. Start(queued', Len(delivered) + 1) = Start(queued, Len(delivered) + 1)
    BY <2>1, <1>2
  <2>3. Len(delivered) \in cut => Start(queued', Len(delivered)) = Start(queued, Len(delivered))
    BY <1>2, <1>4
  <2> QED
    <3>1. Len(delivered') <= Len(queued')
      BY <2>1, <1>1, <1>2
    <3>2. \A p : Len(delivered) \in cut =>
                 (Within(p, Len(delivered))' <=> Within(p, Len(delivered)))
      BY <1>4
    <3> QED
      BY <2>2, <2>3, <3>1, <3>2, <1>1, <1>3, Zenon DEF QueueNextInv
<1>7. DeliversInOrder'
  <2>1. /\ DOMAIN delivered = 1..Len(delivered) /\ Len(delivered) \in Nat
        /\ Len(delivered) <= Len(queued)
    BY <1>0
  <2>2. ASSUME NEW i \in DOMAIN delivered PROVE Body(i)' = Body(i)
    <3>1. queued'[i] = queued[i]
      BY <2>1, <1>2
    <3> QED
      BY <3>1 DEF Body
  <2> QED
    BY <1>1, <2>2 DEF DeliversInOrder
<1> QED
  BY <1>5, <1>6, <1>7

-----------------------------------------------------------------------------
(* libpd's queue: the writer.                                              *)

LEMMA HookKeepsInv ==
  ASSUME QueueInv, NEW thread, NEW body \in Bodies, Hook(thread, body)
  PROVE  QueueInv'
<1> DEFINE n == Len(queued)
<1>0. QueueTypeInv /\ QueueRingInv /\ QueueTakenInv /\ QueueNextInv /\ DeliversInOrder
  BY Zenon DEF QueueInv
<1>1. /\ writes = <<>> /\ HeaderSize + Total(body) <= rb_available_to_write
      /\ queued' = Append(queued, body) /\ writes' = <<HeaderSize>> \o body
      /\ buf' = buf /\ read_idx' = read_idx /\ write_idx' = write_idx /\ copied' = copied
      /\ UNCHANGED <<readervars, delivered, cut>>
  <2>1. rb_available_to_write >= HeaderSize + Total(body)
    BY Zenon DEF Hook
  <2>2. Total(body) \in Nat /\ HeaderSize \in Nat
    <3>1. body \in Seq(Nat \ {0}) /\ \A s \in Seq(Nat \ {0}) : s \in Seq(Nat)
      BY PdQueueAssumption
    <3> QED
      BY <3>1, TotalProperties, PdQueueAssumption
  <2>3. rb_available_to_write \in Int
    BY <1>0, QueueFacts
  <2> QED
    BY <2>1, <2>2, <2>3 DEF Hook, ring
<1>2. /\ queued \in Seq(Bodies) /\ n \in Nat /\ copied = FALSE
      /\ body \in Seq(Nat \ {0}) /\ body \in Seq(Nat) /\ HeaderSize \in Nat \ {0}
  <2>1. queued \in Seq(Bodies) /\ copied = FALSE
    BY <1>0, <1>1, Zenon DEF QueueTypeInv
  <2>2. body \in Seq(Nat \ {0}) /\ \A s \in Seq(Nat \ {0}) : s \in Seq(Nat)
    BY PdQueueAssumption
  <2> QED
    BY <2>1, <2>2, PdQueueAssumption
<1>3. /\ Len(queued') = n + 1 /\ queued' \in Seq(Bodies) /\ queued'[n + 1] = body
      /\ Start(queued', n + 1) = Start(queued, n + 1)
      /\ \A c, p : IsAt(queued, c, p) => IsAt(queued', c, p)
  <2>1. n + 1 \in 1..(n + 1)
    BY <1>2
  <2> QED
    BY <1>1, <1>2, <2>1, QueuedStays
<1>4. /\ writes' \in Seq(Nat \ {0}) /\ Total(writes') = HeaderSize + Total(body)
      /\ writes' # <<>> /\ Total(body) \in Nat
  <2>1. /\ writes' \in Seq(Nat \ {0}) /\ writes' \in Seq(Nat) /\ writes' # <<>>
        /\ Head(writes') = HeaderSize /\ Tail(writes') = body
    BY <1>1, <1>2
  <2> QED
    BY <2>1, <1>2, TotalProperties
<1>5. Start(queued', Len(queued') + 1) = Start(queued, n + 1) + Size(queued', n + 1)
      /\ Size(queued', n + 1) = HeaderSize + Total(body)
  <2>1. n + 1 \in 1..Len(queued')
    BY <1>2, <1>3
  <2>2. Start(queued', n + 1 + 1) = Start(queued', n + 1) + Size(queued', n + 1)
    BY <2>1, <1>3, StartProperties
  <2>3. Size(queued', n + 1) = HeaderSize + Total(body)
    BY <1>3 DEF Size
  <2> QED
    BY <2>2, <2>3, <1>3
<1>6. Unread' = Unread
  BY <1>1 DEF Unread
<1>7. Entered = Start(queued, n + 1) /\ Entered \in Nat
  <2>1. Total(writes) = 0 /\ Start(queued, n + 1) \in Nat /\ Entered \in Nat
    BY <1>0, <1>1, QueueFacts
  <2> QED
    BY <2>1 DEF Entered
<1>8. Entered' = Entered
  <2>1. Entered' = Start(queued', Len(queued') + 1) - Total(writes')
    BY DEF Entered
  <2>2. \A a, b \in Nat : a + b - b = a
    OBVIOUS
  <2>3. HeaderSize + Total(body) \in Nat
    BY <1>2, <1>4
  <2> QED
    BY <2>1, <2>2, <2>3, <1>4, <1>5, <1>7
<1>9. ReadOut' = ReadOut
  BY <1>6, <1>8 DEF ReadOut
<1>10. QueueRingInv'
  <2>1. Unread' + Total(writes') < BufferSize
    <3>1. /\ rb_available_to_write = BufferSize - 1 - Unread
          /\ BufferSize \in Nat /\ Unread \in Nat
      BY <1>0, QueueFacts
    <3> QED
      BY <3>1, <1>1, <1>2, <1>4, <1>6
  <2>2. Unread' <= Entered'
    BY <1>0, <1>6, <1>8, Zenon DEF QueueRingInv
  <2>3. \A k \in 0..(Unread' - 1) : IsAt(queued', buf'[Slot(read_idx' + k)], ReadOut' + k)
    BY <1>0, <1>1, <1>3, <1>6, <1>9, Zenon DEF QueueRingInv
  <2>4. copied' = FALSE
    BY <1>1, <1>2
  <2> QED
    BY <2>1, <2>2, <2>3, <2>4, Zenon DEF QueueRingInv
<1>11. QueueTakenInv' /\ QueueNextInv' /\ DeliversInOrder'
  <2>1. Unread' >= Unread /\ Unread' \in Nat
    <3>1. Unread \in Nat
      BY <1>0, QueueFacts
    <3> QED
      BY <3>1, <1>6
  <2> QED
    BY <1>0, <1>1, <1>9, <2>1, QueueReaderStays
<1>12. QueueTypeInv'
  <2>1. cut' \subseteq 1..Len(queued')
    <3>1. cut \subseteq 1..n
      BY <1>0, Zenon DEF QueueTypeInv
    <3> QED
      BY <3>1, <1>1, <1>2, <1>3
  <2>2. queued' # <<>> /\ Total(writes') <= Size(queued', Len(queued'))
    BY <1>2, <1>3, <1>4, <1>5
  <2>3. /\ buf' \in [Indices -> QCells] /\ temp_buffer' \in [Indices -> QCells]
        /\ write_idx' \in Indices /\ read_idx' \in Indices
        /\ copied' \in BOOLEAN /\ (copied' => writes' # <<>>)
        /\ reader' \in {"waits", "reads", "has read", "dispatches", "is lost"}
        /\ available' \in Nat /\ next' \in Nat /\ delivered' \in Seq(Deliveries)
    BY <1>0, <1>1, <1>4, Zenon DEF QueueTypeInv, readervars
  <2> QED
    BY <2>1, <2>2, <2>3, <1>3, <1>4, Zenon DEF QueueTypeInv
<1> QED
  BY <1>10, <1>11, <1>12 DEF QueueInv

LEMMA CopyKeepsInv ==
  ASSUME QueueInv, Copy PROVE QueueInv'
<1> DEFINE n == Len(queued)
           done == HeaderSize + Total(queued[n]) - Total(writes)
<1>0. QueueTypeInv /\ QueueRingInv /\ QueueTakenInv /\ QueueNextInv /\ DeliversInOrder
  BY Zenon DEF QueueInv
<1>1. /\ writes # <<>>
      /\ buf' = [i \in DOMAIN buf |->
                   IF Spacing(write_idx, i) < Head(writes)
                   THEN Piece(n, done + Spacing(write_idx, i) + 1) ELSE buf[i]]
      /\ copied' = TRUE /\ read_idx' = read_idx /\ write_idx' = write_idx
      /\ queued' = queued /\ writes' = writes
      /\ UNCHANGED <<readervars, delivered, cut>>
  BY DEF Copy, Spacing
<1>2. /\ Unread' = Unread /\ Entered' = Entered /\ ReadOut' = ReadOut
  <2>1. Unread' = Unread
    BY <1>1 DEF Unread
  <2>2. Entered' = Entered
    BY <1>1 DEF Entered
  <2> QED
    BY <2>1, <2>2 DEF ReadOut
<1>3. /\ buf \in [Indices -> QCells] /\ write_idx \in Indices /\ read_idx \in Indices
      /\ queued \in Seq(Bodies) /\ Total(writes) <= Size(queued, n) /\ n \in 1..n
      /\ BufferSize \in Nat \ {0} /\ Unread \in Nat /\ Total(writes) \in Nat
      /\ Head(writes) \in Nat \ {0} /\ Head(writes) <= Total(writes)
      /\ Size(queued, n) \in Nat /\ Start(queued, n) \in Nat
      /\ Entered = Start(queued, n) + Size(queued, n) - Total(writes)
      /\ Unread + Total(writes) < BufferSize
  <2>1. /\ buf \in [Indices -> QCells] /\ write_idx \in Indices /\ read_idx \in Indices
        /\ queued \in Seq(Bodies) /\ Total(writes) <= Size(queued, n)
    BY <1>0, <1>1, Zenon DEF QueueTypeInv
  <2>2. /\ n \in 1..n /\ BufferSize \in Nat \ {0} /\ Unread \in Nat /\ Total(writes) \in Nat
        /\ Head(writes) \in Nat \ {0} /\ Total(Tail(writes)) \in Nat
        /\ Total(writes) = Head(writes) + Total(Tail(writes))
        /\ Size(queued, n) \in Nat /\ Start(queued, n) \in Nat
        /\ Start(queued, n + 1) = Start(queued, n) + Size(queued, n)
    BY <1>0, <1>1, QueueFacts
  <2>3. Entered = Start(queued, n) + Size(queued, n) - Total(writes)
    BY <2>2 DEF Entered
  <2>4. Unread + Total(writes) < BufferSize
    BY <1>0 DEF QueueRingInv
  <2> QED
    BY <2>1, <2>2, <2>3, <2>4
<1>4. done = Size(queued, n) - Total(writes)
  <2>1. Size(queued, n) = HeaderSize + Total(queued[n])
    BY DEF Size
  <2>2. Total(queued[n]) \in Nat /\ HeaderSize \in Nat
    BY <1>3, SizeIsTrue, PdQueueAssumption
  <2> QED
    BY <2>1, <2>2, <1>3
<1> HIDE DEF done
<1>5. done \in Nat
  BY <1>3, <1>4
<1>6. ASSUME NEW k \in 0..(Unread - 1) PROVE buf'[Slot(read_idx + k)] = buf[Slot(read_idx + k)]
  <2>1. /\ Slot(read_idx + k) \in Indices
        /\ Spacing(write_idx, Slot(read_idx + k)) >= BufferSize - Unread
    BY <1>3, HeldIsElsewhere DEF Unread
  <2>2. Spacing(write_idx, Slot(read_idx + k)) \in Indices
    BY <1>3, <2>1, SpacingIs
  <2>3. ~(Spacing(write_idx, Slot(read_idx + k)) < Head(writes))
    BY <1>3, <2>1, <2>2 DEF Indices
  <2> QED
    BY <1>1, <1>3, <2>1, <2>3
<1>7. ASSUME NEW k \in 0..(Head(writes) - 1)
      PROVE  buf'[Slot(write_idx + k)] = Piece(n, done + k + 1)
  <2>1. k \in Indices
    BY <1>3 DEF Indices
  <2>2. Slot(write_idx + k) \in Indices /\ Spacing(write_idx, Slot(write_idx + k)) = k
    BY <2>1, <1>3, SlotBehind
  <2>3. k < Head(writes)
    BY <1>3
  <2> QED
    BY <1>1, <1>3, <2>2, <2>3
<1>8. ASSUME NEW k \in 0..(Head(writes) - 1)
      PROVE  Piece(n, done + k + 1) \in QCells /\ IsAt(queued, Piece(n, done + k + 1), Entered + k)
  <2>1. done + k + 1 \in 1..Size(queued, n) /\ done + k + 1 \in Nat /\ n \in Nat
    <3>1. \A d, t, h, z \in Nat :
            d = z - t /\ h <= t /\ k \in 0..(h - 1) => d + k + 1 \in 1..z /\ d + k + 1 \in Nat
      OBVIOUS
    <3>2. n \in Nat
      BY <1>0, QueueFacts
    <3> QED
      BY <3>1, <3>2, <1>3, <1>4, <1>5
  <2>2. Start(queued, n) + (done + k + 1) - 1 = Entered + k
    BY <1>3, <1>4, <1>5
  <2> QED
    BY <2>1, <2>2, <1>3 DEF IsAt, QCells, Piece
<1>9. QueueRingInv'
  <2>1. \A k \in 0..(Unread' - 1) : IsAt(queued', buf'[Slot(read_idx' + k)], ReadOut' + k)
    BY <1>0, <1>1, <1>2, <1>6, Zenon DEF QueueRingInv
  <2>2. \A k \in 0..(Head(writes') - 1) : IsAt(queued', buf'[Slot(write_idx' + k)], Entered' + k)
    BY <1>1, <1>2, <1>7, <1>8, Zenon
  <2>3. Unread' + Total(writes') < BufferSize /\ Unread' <= Entered'
    BY <1>0, <1>1, <1>2 DEF QueueRingInv
  <2> QED
    BY <2>1, <2>2, <2>3, Zenon DEF QueueRingInv
<1>10. QueueTakenInv' /\ QueueNextInv' /\ DeliversInOrder'
  <2>1. Unread' >= Unread /\ Unread' \in Nat
    BY <1>2, <1>3
  <2> QED
    BY <1>0, <1>1, <1>2, <2>1, QueueReaderStays
<1>11. QueueTypeInv'
  <2>1. buf' \in [Indices -> QCells]
    <3>1. ASSUME NEW i \in Indices, Spacing(write_idx, i) < Head(writes)
          PROVE  Piece(n, done + Spacing(write_idx, i) + 1) \in QCells
      <4>1. Spacing(write_idx, i) \in 0..(Head(writes) - 1)
        <5>1. Spacing(write_idx, i) \in Indices
          BY <1>3, SpacingIs
        <5> QED
          BY <5>1, <3>1, <1>3 DEF Indices
      <4> QED
        BY <4>1, <1>8
    <3>2. DOMAIN buf = Indices /\ \A i \in Indices : buf[i] \in QCells
      BY <1>3
    <3> QED
      BY <1>1, <3>1, <3>2
  <2>2. /\ temp_buffer' \in [Indices -> QCells]
        /\ write_idx' \in Indices /\ read_idx' \in Indices
        /\ queued' \in Seq(Bodies) /\ writes' \in Seq(Nat \ {0})
        /\ copied' \in BOOLEAN /\ (copied' => writes' # <<>>)
        /\ reader' \in {"waits", "reads", "has read", "dispatches", "is lost"}
        /\ available' \in Nat /\ next' \in Nat /\ delivered' \in Seq(Deliveries)
        /\ cut' \subseteq 1..Len(queued')
        /\ writes' # <<>> => queued' # <<>> /\ Total(writes') <= Size(queued', Len(queued'))
    BY <1>0, <1>1, Zenon DEF QueueTypeInv, readervars
  <2> QED
    BY <2>1, <2>2, Zenon DEF QueueTypeInv
<1> QED
  BY <1>9, <1>10, <1>11 DEF QueueInv

LEMMA PublishKeepsInv ==
  ASSUME QueueInv, Publish PROVE QueueInv'
<1> DEFINE h == Head(writes)
<1>0. QueueTypeInv /\ QueueRingInv /\ QueueTakenInv /\ QueueNextInv /\ DeliversInOrder
  BY Zenon DEF QueueInv
<1>1. /\ writes # <<>> /\ copied = TRUE
      /\ write_idx' = Slot(write_idx + h) /\ writes' = Tail(writes) /\ copied' = FALSE
      /\ buf' = buf /\ read_idx' = read_idx /\ queued' = queued
      /\ UNCHANGED <<readervars, delivered, cut>>
  <2>1. copied \in BOOLEAN
    BY <1>0, Zenon DEF QueueTypeInv
  <2> QED
    BY <2>1, Zenon DEF Publish
<1>2. /\ write_idx \in Indices /\ read_idx \in Indices /\ writes' \in Seq(Nat \ {0})
      /\ BufferSize \in Nat \ {0} /\ Unread \in Nat /\ Total(writes) \in Nat /\ Entered \in Nat
      /\ h \in Nat \ {0} /\ Total(Tail(writes)) \in Nat
      /\ Total(writes) = h + Total(Tail(writes))
      /\ Unread + Total(writes) < BufferSize /\ Unread <= Entered
      /\ Start(queued, Len(queued) + 1) \in Nat
  <2>1. write_idx \in Indices /\ read_idx \in Indices
    BY <1>0, Zenon DEF QueueTypeInv
  <2>2. Unread + Total(writes) < BufferSize /\ Unread <= Entered
    BY <1>0, Zenon DEF QueueRingInv
  <2>3. /\ BufferSize \in Nat \ {0} /\ Unread \in Nat /\ Total(writes) \in Nat /\ Entered \in Nat
        /\ h \in Nat \ {0} /\ Total(Tail(writes)) \in Nat /\ Tail(writes) \in Seq(Nat \ {0})
        /\ Total(writes) = h + Total(Tail(writes))
        /\ Start(queued, Len(queued) + 1) \in Nat
    BY <1>0, <1>1, QueueFacts
  <2> QED
    BY <2>1, <2>2, <2>3, <1>1
<1> HIDE DEF h
<1>3. write_idx' \in Indices /\ Unread' = Unread + h
  <2>1. Spacing(read_idx, write_idx) + h < BufferSize
    BY <1>2 DEF Unread
  <2>2. /\ Slot(write_idx + h) \in Indices
        /\ Spacing(read_idx, Slot(write_idx + h)) = Spacing(read_idx, write_idx) + h
    BY <2>1, <1>2, EnteredIsMore
  <2> QED
    BY <2>2, <1>1 DEF Unread
<1>4. Entered' = Entered + h
  BY <1>1, <1>2 DEF Entered
<1>5. ReadOut' = ReadOut
  BY <1>2, <1>3, <1>4 DEF ReadOut
<1>6. QueueRingInv'
  <2>1. Unread' + Total(writes') < BufferSize /\ Unread' <= Entered'
    BY <1>1, <1>2, <1>3, <1>4
  <2>2. ASSUME NEW k \in 0..(Unread' - 1)
        PROVE  IsAt(queued', buf'[Slot(read_idx' + k)], ReadOut' + k)
    <3>1. CASE k \in 0..(Unread - 1)
      <4>1. IsAt(queued, buf[Slot(read_idx + k)], ReadOut + k)
        BY <3>1, <1>0, Zenon DEF QueueRingInv
      <4> QED
        BY <4>1, <1>1, <1>5, Zenon
    <3>2. CASE ~(k \in 0..(Unread - 1))
      <4> DEFINE j == k - Unread
      <4>1. j \in 0..(h - 1) /\ k = Unread + j /\ Unread + j < BufferSize /\ j \in Nat
        BY <3>2, <1>2, <1>3
      <4> HIDE DEF j
      <4>2. Slot(read_idx + k) = Slot(write_idx + j)
        <5>1. Slot(Slot(read_idx + Unread) + j) = Slot(read_idx + (Unread + j))
          BY <4>1, <1>2, SlotsAdd
        <5>2. Slot(read_idx + Unread) = write_idx
          BY <1>2, SlotOfSpacing DEF Unread
        <5> QED
          BY <5>1, <5>2, <4>1, Zenon
      <4>3. IsAt(queued, buf[Slot(write_idx + j)], Entered + j)
        BY <4>1, <1>0, <1>1, Zenon DEF QueueRingInv, h
      <4>4. Entered + j = ReadOut + k
        BY <4>1, <1>2 DEF ReadOut
      <4> QED
        BY <4>2, <4>3, <4>4, <1>1, <1>5, Zenon
    <3> QED
      BY <3>1, <3>2
  <2> QED
    BY <2>1, <2>2, <1>1, Zenon DEF QueueRingInv
<1>7. QueueTakenInv' /\ QueueNextInv' /\ DeliversInOrder'
  <2>1. Unread' >= Unread /\ Unread' \in Nat
    BY <1>2, <1>3
  <2> QED
    BY <1>0, <1>1, <1>5, <2>1, QueueReaderStays
<1>8. QueueTypeInv'
  <2>1. writes' # <<>> => queued' # <<>> /\ Total(writes') <= Size(queued', Len(queued'))
    <3>1. /\ queued # <<>> /\ Total(writes) <= Size(queued, Len(queued))
      BY <1>0, <1>1, Zenon DEF QueueTypeInv
    <3>2. Size(queued, Len(queued)) \in Nat
      BY <1>0, <1>1, QueueFacts
    <3> QED
      BY <3>1, <3>2, <1>1, <1>2
  <2>2. /\ buf' \in [Indices -> QCells] /\ temp_buffer' \in [Indices -> QCells]
        /\ read_idx' \in Indices /\ queued' \in Seq(Bodies)
        /\ copied' \in BOOLEAN /\ (copied' => writes' # <<>>)
        /\ reader' \in {"waits", "reads", "has read", "dispatches", "is lost"}
        /\ available' \in Nat /\ next' \in Nat /\ delivered' \in Seq(Deliveries)
        /\ cut' \subseteq 1..Len(queued')
    BY <1>0, <1>1, Zenon DEF QueueTypeInv, readervars
  <2> QED
    BY <2>1, <2>2, <1>2, <1>3, Zenon DEF QueueTypeInv
<1> QED
  BY <1>6, <1>7, <1>8 DEF QueueInv

-----------------------------------------------------------------------------
(* libpd's queue: the reader.                                              *)

\* A step of the reader that takes nothing from the ring.
LEMMA ReaderTypes ==
  ASSUME QueueTypeInv, UNCHANGED <<ring, hookvars>>
  PROVE  /\ buf' = buf /\ read_idx' = read_idx /\ write_idx' = write_idx
         /\ queued' = queued /\ writes' = writes /\ copied' = copied
         /\ buf' \in [Indices -> QCells] /\ write_idx' \in Indices /\ read_idx' \in Indices
         /\ queued' \in Seq(Bodies) /\ writes' \in Seq(Nat \ {0})
         /\ copied' \in BOOLEAN /\ (copied' => writes' # <<>>)
         /\ writes' # <<>> => queued' # <<>> /\ Total(writes') <= Size(queued', Len(queued'))
  BY Zenon DEF QueueTypeInv, ring, hookvars

\* What has been delivered is in the queue.
LEMMA DeliveredFacts ==
  ASSUME QueueTypeInv, QueueNextInv
  PROVE  /\ Len(delivered) \in Nat /\ DOMAIN delivered = 1..Len(delivered)
         /\ Len(delivered) <= Len(queued)
         /\ Start(queued, Len(delivered) + 1) \in Nat
<1>1. delivered \in Seq(Deliveries) /\ queued \in Seq(Bodies)
  BY Zenon DEF QueueTypeInv
<1>2. Len(delivered) \in Nat /\ DOMAIN delivered = 1..Len(delivered) /\ Len(queued) \in Nat
  BY <1>1, LenProperties
<1>3. Len(delivered) <= Len(queued)
  BY Zenon DEF QueueNextInv
<1>4. Len(delivered) + 1 \in 1..(Len(queued) + 1)
  BY <1>2, <1>3
<1> QED
  BY <1>1, <1>2, <1>3, <1>4, StartProperties

LEMMA LookKeepsInv ==
  ASSUME QueueInv, Look PROVE QueueInv'
<1> DEFINE n == Len(queued)
<1>0. QueueTypeInv /\ QueueRingInv /\ QueueTakenInv /\ QueueNextInv /\ DeliversInOrder
  BY Zenon DEF QueueInv
<1>1. /\ rb_available_to_read = Unread /\ Unread \in Nat /\ n \in Nat
      /\ Entered \in Nat /\ ReadOut \in Nat /\ Total(writes) \in Nat
      /\ writes # <<>> =>
           /\ n \in 1..n /\ Total(writes) # 0
           /\ Start(queued, n) \in Nat /\ Size(queued, n) \in Nat
           /\ Start(queued, n + 1) = Start(queued, n) + Size(queued, n)
      /\ writes = <<>> => Total(writes) = 0
      /\ Start(queued, n + 1) \in Nat
      /\ Entered = Start(queued, n + 1) - Total(writes)
  <2>1. writes # <<>> => Total(writes) # 0
    <3>1. ASSUME writes # <<>>
          PROVE  /\ Head(writes) \in Nat \ {0} /\ Total(Tail(writes)) \in Nat
                 /\ Total(writes) = Head(writes) + Total(Tail(writes))
      BY <1>0, <3>1, QueueFacts
    <3> QED
      BY <3>1
  <2> QED
    BY <1>0, <2>1, QueueFacts, Zenon DEF Entered
<1>2. /\ reader = "waits" /\ Unread > 0 /\ available' = Unread /\ reader' = "reads"
      /\ cut' = IF writes # <<>> /\ Total(writes) < HeaderSize + Total(queued[n])
                THEN cut \cup {n} ELSE cut
      /\ UNCHANGED <<ring, hookvars>>
      /\ temp_buffer' = temp_buffer /\ next' = next /\ delivered' = delivered
  BY <1>1 DEF Look
<1>3. /\ QueueRingInv' /\ Unread' = Unread /\ Entered' = Entered /\ ReadOut' = ReadOut
      /\ \A p, m : Within(p, m)' = Within(p, m)
      /\ queued' = queued
  BY <1>0, <1>2, QueueRingStays DEF hookvars
<1>4. available = 0 /\ next = 0
  BY <1>0, <1>2, Zenon DEF QueueTakenInv
<1>5. Taken = ReadOut /\ Taken' = Entered /\ Taken - available = ReadOut
      /\ Taken' - available' = ReadOut
  <2>1. Taken = ReadOut + available /\ Taken' = ReadOut' + available'
    BY <1>2 DEF Taken
  <2>2. ReadOut = Entered - Unread
    BY DEF ReadOut
  <2> QED
    BY <2>1, <2>2, <1>1, <1>2, <1>3, <1>4
<1>6. cut \subseteq cut' /\ cut' \subseteq 1..n
  <2>1. cut \subseteq 1..n
    BY <1>0, Zenon DEF QueueTypeInv
  <2> QED
    BY <2>1, <1>1, <1>2
<1>7. QueueTakenInv'
  <2>1. \/ \E m \in 1..(Len(queued') + 1) : Taken' = Start(queued', m)
        \/ \E m \in cut' : Within(Taken, m)'
    <3>1. CASE writes = <<>>
      <4>1. n + 1 \in 1..(n + 1) /\ Taken' = Start(queued, n + 1)
        BY <3>1, <1>1, <1>5
      <4> QED
        BY <4>1, <1>3
    <3>2. CASE writes # <<>> /\ Total(writes) < Size(queued, n)
      <4>1. n \in cut'
        <5>1. Size(queued, n) = HeaderSize + Total(queued[n])
          BY DEF Size
        <5> QED
          BY <5>1, <3>2, <1>2
      <4>2. Start(queued, n) < Entered /\ Entered < Start(queued, n + 1)
        BY <3>2, <1>1
      <4>3. \A m : Within(Taken, m)' <=>
                    Start(queued', m) < Taken' /\ Taken' < Start(queued', m + 1)
        BY DEF Within
      <4> HIDE DEF n
      <4>4. \E m \in cut' : Within(Taken, m)'
        BY <4>1, <4>2, <4>3, <1>3, <1>5, Zenon
      <4> QED
        BY <4>4
    <3>3. CASE writes # <<>> /\ ~(Total(writes) < Size(queued, n))
      <4>1. Total(writes) <= Size(queued, n)
        BY <3>3, <1>0, Zenon DEF QueueTypeInv
      <4>2. n \in 1..(n + 1) /\ Taken' = Start(queued, n)
        BY <3>3, <4>1, <1>1, <1>5
      <4> QED
        BY <4>2, <1>3
    <3> QED
      BY <3>1, <3>2, <3>3
  <2>2. 0 < available' /\ available' <= Unread' /\ next' = 0
    BY <1>1, <1>2, <1>3, <1>4
  <2> QED
    BY <2>1, <2>2, <1>2 DEF QueueTakenInv
<1>8. QueueNextInv'
  <2>1. \/ Taken - available + next = Start(queued, Len(delivered) + 1)
        \/ next = 0 /\ Len(delivered) \in cut /\ Within(Taken - available, Len(delivered))
    BY <1>0, <1>2 DEF QueueNextInv
  <2>2. Taken' - available' + next' = Taken - available + next
    BY <1>2, <1>5
  <2>3. \/ Taken' - available' + next' = Start(queued', Len(delivered') + 1)
        \/ /\ next' = 0 /\ Len(delivered') \in cut'
           /\ Within(Taken - available, Len(delivered))'
    <3>1. CASE Taken - available + next = Start(queued, Len(delivered) + 1)
      BY <3>1, <2>2, <1>2, <1>3
    <3>2. CASE next = 0 /\ Len(delivered) \in cut /\ Within(Taken - available, Len(delivered))
      <4>1. Within(Taken - available, Len(delivered))'
        BY <3>2, <1>2, <1>3, <1>5 DEF Within
      <4> QED
        BY <4>1, <3>2, <1>2, <1>6
    <3> QED
      BY <2>1, <3>1, <3>2
  <2>4. ~(next' > available')
    BY <1>1, <1>2, <1>4
  <2>5. Len(delivered') <= Len(queued')
    BY <1>0, <1>2, <1>3 DEF QueueNextInv
  <2> QED
    BY <2>3, <2>4, <2>5, Zenon DEF QueueNextInv
<1>9. DeliversInOrder'
  <2>1. \A i : Body(i)' = Body(i)
    BY <1>3 DEF Body
  <2> QED
    BY <2>1, <1>0, <1>2, <1>6 DEF DeliversInOrder
<1>10. QueueTypeInv'
  <2>1. /\ temp_buffer' \in [Indices -> QCells]
        /\ reader' \in {"waits", "reads", "has read", "dispatches", "is lost"}
        /\ available' \in Nat /\ next' \in Nat
        /\ delivered' \in Seq(Deliveries)
        /\ cut' \subseteq 1..Len(queued')
    BY <1>0, <1>1, <1>2, <1>3, <1>4, <1>6, Zenon DEF QueueTypeInv
  <2> QED
    BY <2>1, <1>0, <1>2, ReaderTypes, Zenon DEF QueueTypeInv
<1> QED
  BY <1>3, <1>7, <1>8, <1>9, <1>10 DEF QueueInv

LEMMA ReadAllKeepsInv ==
  ASSUME QueueInv, ReadAll PROVE QueueInv'
<1>0. QueueTypeInv /\ QueueRingInv /\ QueueTakenInv /\ QueueNextInv /\ DeliversInOrder
  BY Zenon DEF QueueInv
<1>1. /\ reader = "reads" /\ reader' = "has read"
      /\ temp_buffer' = [i \in DOMAIN temp_buffer |->
                           IF i < available THEN buf[Slot(read_idx + i)] ELSE temp_buffer[i]]
      /\ UNCHANGED <<ring, hookvars>>
      /\ available' = available /\ next' = next /\ delivered' = delivered /\ cut' = cut
  BY DEF ReadAll
<1>2. /\ QueueRingInv' /\ Unread' = Unread /\ Entered' = Entered /\ ReadOut' = ReadOut
      /\ \A p, m : Within(p, m)' = Within(p, m)
      /\ queued' = queued
  BY <1>0, <1>1, QueueRingStays DEF hookvars
<1>3. Taken' = Taken /\ Taken = ReadOut + available
  BY <1>1, <1>2 DEF Taken
<1>4. /\ buf \in [Indices -> QCells] /\ temp_buffer \in [Indices -> QCells] /\ read_idx \in Indices
      /\ available \in Nat /\ available <= Unread /\ Unread < BufferSize /\ Unread \in Nat
      /\ BufferSize \in Nat /\ ReadOut \in Nat
  <2>1. available <= Unread
    BY <1>0, <1>1, Zenon DEF QueueTakenInv
  <2>2. /\ buf \in [Indices -> QCells] /\ temp_buffer \in [Indices -> QCells] /\ read_idx \in Indices
        /\ available \in Nat
    BY <1>0, Zenon DEF QueueTypeInv
  <2> QED
    BY <2>1, <2>2, <1>0, QueueFacts
<1>5. QueueTakenInv'
  <2>1. ASSUME NEW i \in 0..(available' - 1)
        PROVE  IsAt(queued', temp_buffer'[i], Taken' - available' + i)
    <3>0. i \in 0..(available - 1)
      BY <1>1, Zenon
    <3>1. i \in Indices /\ i < available /\ i \in 0..(Unread - 1)
      BY <3>0, <1>4 DEF Indices
    <3>2. temp_buffer'[i] = buf[Slot(read_idx + i)]
      BY <3>1, <1>1, <1>4
    <3>3. IsAt(queued, buf[Slot(read_idx + i)], ReadOut + i)
      BY <3>1, <1>0, Zenon DEF QueueRingInv
    <3>4. Taken' - available' + i = ReadOut + i
      <4>1. Taken' = ReadOut + available /\ available' = available
        BY <1>1, <1>3
      <4> QED
        BY <4>1, <3>0, <1>4
    <3> QED
      BY <3>2, <3>3, <3>4, <1>2, Zenon
  <2>2. /\ 0 < available' /\ available' <= Unread' /\ next' = 0
        /\ \/ \E m \in 1..(Len(queued') + 1) : Taken' = Start(queued', m)
           \/ \E m \in cut' : Within(Taken, m)'
    <3>1. \A m : Within(Taken, m)' <=> Within(Taken, m)
      BY <1>2, <1>3 DEF Within
    <3> QED
      BY <3>1, <1>0, <1>1, <1>2, <1>3 DEF QueueTakenInv
  <2> QED
    BY <2>1, <2>2, <1>1 DEF QueueTakenInv
<1>6. QueueNextInv'
  <2>1. Within(Taken - available, Len(delivered))' <=> Within(Taken - available, Len(delivered))
    BY <1>1, <1>2, <1>3 DEF Within
  <2> QED
    BY <2>1, <1>0, <1>1, <1>2, <1>3 DEF QueueNextInv
<1>7. DeliversInOrder'
  <2>1. \A i : Body(i)' = Body(i)
    BY <1>2 DEF Body
  <2> QED
    BY <2>1, <1>0, <1>1 DEF DeliversInOrder
<1>8. QueueTypeInv'
  <2>1. temp_buffer' \in [Indices -> QCells]
    <3>1. ASSUME NEW i \in Indices, i < available PROVE buf[Slot(read_idx + i)] \in QCells
      <4>1. Slot(read_idx + i) \in Indices
        BY <1>4, SlotIs
      <4> QED
        BY <4>1, <1>4
    <3> QED
      BY <3>1, <1>1, <1>4
  <2>2. /\ reader' \in {"waits", "reads", "has read", "dispatches", "is lost"}
        /\ available' \in Nat /\ next' \in Nat
        /\ delivered' \in Seq(Deliveries)
        /\ cut' \subseteq 1..Len(queued')
    BY <1>0, <1>1, <1>2, Zenon DEF QueueTypeInv
  <2> QED
    BY <2>1, <2>2, <1>0, <1>1, ReaderTypes, Zenon DEF QueueTypeInv
<1> QED
  BY <1>2, <1>5, <1>6, <1>7, <1>8 DEF QueueInv

LEMMA ReleaseKeepsInv ==
  ASSUME QueueInv, Release PROVE QueueInv'
<1>0. QueueTypeInv /\ QueueRingInv /\ QueueTakenInv /\ QueueNextInv /\ DeliversInOrder
  BY Zenon DEF QueueInv
<1>1. /\ reader = "has read" /\ reader' = "dispatches"
      /\ read_idx' = Slot(read_idx + available) /\ next' = 0
      /\ buf' = buf /\ write_idx' = write_idx /\ queued' = queued /\ writes' = writes
      /\ copied' = copied /\ temp_buffer' = temp_buffer
      /\ available' = available /\ delivered' = delivered /\ cut' = cut
  BY DEF Release, hookvars
<1>2. /\ write_idx \in Indices /\ read_idx \in Indices
      /\ available \in Nat \ {0} /\ available <= Unread /\ next = 0
      /\ Unread < BufferSize /\ Unread \in Nat
      /\ BufferSize \in Nat /\ ReadOut \in Nat /\ Entered \in Nat /\ Unread <= Entered
      /\ Total(writes) \in Nat /\ Unread + Total(writes) < BufferSize
  <2>1. available <= Unread /\ 0 < available /\ next = 0
    BY <1>0, <1>1, Zenon DEF QueueTakenInv
  <2>2. write_idx \in Indices /\ read_idx \in Indices /\ available \in Nat
    BY <1>0, Zenon DEF QueueTypeInv
  <2>3. Unread <= Entered /\ Unread + Total(writes) < BufferSize
    BY <1>0, Zenon DEF QueueRingInv
  <2> QED
    BY <2>1, <2>2, <2>3, <1>0, QueueFacts
<1>3. read_idx' \in Indices /\ Unread' = Unread - available
  BY <1>1, <1>2, ReadIsLess DEF Unread
<1>4. Entered' = Entered
  BY <1>1 DEF Entered
<1>5. ReadOut' = ReadOut + available
  BY <1>2, <1>3, <1>4 DEF ReadOut
<1>6. Taken' = Taken /\ Taken = ReadOut + available
  BY <1>1, <1>5 DEF Taken
<1>7. QueueRingInv'
  <2>1. Unread' + Total(writes') < BufferSize /\ Unread' <= Entered'
    <3>1. /\ Unread - available + Total(writes) < BufferSize
          /\ Unread - available <= Entered
      BY <1>2
    <3> QED
      BY <3>1, <1>1, <1>3, <1>4, Zenon
  <2>2. ASSUME NEW k \in 0..(Unread' - 1)
        PROVE  IsAt(queued', buf'[Slot(read_idx' + k)], ReadOut' + k)
    <3>1. k \in Nat /\ available + k \in 0..(Unread - 1) /\ available + k < BufferSize
      BY <1>2, <1>3
    <3>2. Slot(read_idx' + k) = Slot(read_idx + (available + k))
      BY <3>1, <1>1, <1>2, SlotsAdd
    <3>3. IsAt(queued, buf[Slot(read_idx + (available + k))], ReadOut + (available + k))
      BY <3>1, <1>0, Zenon DEF QueueRingInv
    <3>4. ReadOut' + k = ReadOut + (available + k)
      BY <3>1, <1>2, <1>5
    <3> QED
      BY <3>2, <3>3, <3>4, <1>1, Zenon
  <2>3. copied' =>
          \A k \in 0..(Head(writes') - 1) : IsAt(queued', buf'[Slot(write_idx' + k)], Entered' + k)
    BY <1>0, <1>1, <1>4, Zenon DEF QueueRingInv
  <2> QED
    BY <2>1, <2>2, <2>3, Zenon DEF QueueRingInv
<1>8. QueueTakenInv'
  <2>1. \A i \in 0..(available' - 1) : IsAt(queued', temp_buffer'[i], Taken' - available' + i)
    BY <1>0, <1>1, <1>6 DEF QueueTakenInv
  <2>2. 0 < available' /\ available' < BufferSize /\ available' <= ReadOut'
    <3>1. 0 < available /\ available < BufferSize /\ available <= ReadOut + available
      BY <1>2
    <3> QED
      BY <3>1, <1>1, <1>5, Zenon
  <2>3. \/ \E m \in 1..(Len(queued') + 1) : Taken' = Start(queued', m)
        \/ \E m \in cut' : Within(Taken, m)'
    <3>1. \A m : Within(Taken, m)' <=> Within(Taken, m)
      BY <1>1, <1>6 DEF Within
    <3> QED
      BY <3>1, <1>0, <1>1, <1>6 DEF QueueTakenInv
  <2> QED
    BY <2>1, <2>2, <2>3, <1>1 DEF QueueTakenInv
<1>9. QueueNextInv'
  <2>1. Within(Taken - available, Len(delivered))' <=> Within(Taken - available, Len(delivered))
    BY <1>1, <1>6 DEF Within
  <2> QED
    BY <2>1, <1>0, <1>1, <1>2, <1>6 DEF QueueNextInv
<1>10. DeliversInOrder'
  <2>1. \A i : Body(i)' = Body(i)
    BY <1>1 DEF Body
  <2> QED
    BY <2>1, <1>0, <1>1 DEF DeliversInOrder
<1>11. QueueTypeInv'
  <2>1. next' \in Nat
    BY <1>1
  <2> QED
    BY <2>1, <1>0, <1>1, <1>3, Zenon DEF QueueTypeInv
<1> QED
  BY <1>7, <1>8, <1>9, <1>10, <1>11 DEF QueueInv

\* Where the reader is, when it is at a header.
LEMMA HeaderIsNext ==
  ASSUME QueueTypeInv, QueueTakenInv, QueueNextInv, reader = "dispatches", next < available,
         Taken \in Nat
  PROVE  LET m == temp_buffer[next].message IN
         /\ next \in 0..(available - 1)
         /\ m \in 1..Len(queued) /\ temp_buffer[next] = Piece(m, temp_buffer[next].piece)
         /\ temp_buffer[next].piece \in 1..Size(queued, m)
         /\ temp_buffer[next].piece = 1 =>
              m = Len(delivered) + 1 /\ Taken - available + next = Start(queued, m)
         /\ temp_buffer[next].piece # 1 => cut # {}
<1> DEFINE c == temp_buffer[next]
           m == c.message
           l == Len(delivered)
<1>1. available \in Nat /\ next \in Nat /\ next \in 0..(available - 1) /\ queued \in Seq(Bodies)
      /\ Len(queued) \in Nat /\ l \in Nat /\ l <= Len(queued) /\ Start(queued, l + 1) \in Nat
  <2>1. available \in Nat /\ next \in Nat /\ queued \in Seq(Bodies)
    BY Zenon DEF QueueTypeInv
  <2> QED
    BY <2>1, DeliveredFacts, LenProperties
<1>2. IsAt(queued, c, Taken - available + next)
  BY <1>1, Zenon DEF QueueTakenInv
<1>3. /\ m \in 1..Len(queued) /\ c \in QCells /\ c.piece \in 1..Size(queued, m)
      /\ Start(queued, m) + c.piece - 1 = Taken - available + next
  BY <1>2, Zenon DEF IsAt
<1>4. c = Piece(m, c.piece)
  BY <1>3 DEF QCells, Piece
<1> HIDE DEF c
<1>5. /\ Start(queued, m) \in Nat /\ Size(queued, m) \in Nat
      /\ Start(queued, m + 1) = Start(queued, m) + Size(queued, m)
  BY <1>1, <1>3, StartProperties, SizeIsTrue
<1>6. \/ Taken - available + next = Start(queued, l + 1)
      \/ next = 0 /\ l \in cut /\ Within(Taken - available, l)
  BY Zenon DEF QueueNextInv
<1>7. ASSUME c.piece = 1 PROVE m = l + 1 /\ Taken - available + next = Start(queued, m)
  <2>1. Taken - available + next = Start(queued, m)
    BY <1>3, <1>5, <1>7
  <2>2. CASE Taken - available + next = Start(queued, l + 1)
    <3>1. ~(m < l + 1)
      <4>1. m < l + 1 => Start(queued, m) < Start(queued, l + 1)
        BY <1>1, <1>3, StartGrows
      <4> QED
        BY <4>1, <2>1, <2>2, <1>1, <1>5
    <3>2. ~(l + 1 < m)
      <4>1. l + 1 < m => l + 1 \in 1..Len(queued) /\ m \in 1..(Len(queued) + 1)
        BY <1>1, <1>3
      <4>2. l + 1 < m => Start(queued, l + 1) < Start(queued, m)
        BY <4>1, <1>1, StartGrows
      <4> QED
        BY <4>2, <2>1, <2>2, <1>1, <1>5
    <3> QED
      BY <3>1, <3>2, <2>1, <1>1, <1>3
  <2>3. CASE next = 0 /\ l \in cut /\ Within(Taken - available, l)
    <3>1. l \in 1..Len(queued)
      BY <2>3, Zenon DEF QueueTypeInv
    <3>2. Start(queued, l) < Start(queued, m) /\ Start(queued, m) < Start(queued, l + 1)
      <4>1. Taken - available = Start(queued, m)
        BY <2>1, <2>3, <1>1
      <4> QED
        BY <4>1, <2>3 DEF Within
    <3>3. ~(m <= l)
      <4>0. Start(queued, l) \in Nat
        BY <1>1, <3>1, StartProperties
      <4>1. m < l => Start(queued, m) < Start(queued, l)
        BY <1>1, <1>3, <3>1, StartGrows
      <4> QED
        BY <4>0, <4>1, <3>1, <3>2, <1>1, <1>3, <1>5
    <3>4. ~(l + 1 <= m)
      <4>1. l + 1 < m => l + 1 \in 1..Len(queued) /\ m \in 1..(Len(queued) + 1)
        BY <1>1, <1>3
      <4>2. l + 1 < m => Start(queued, l + 1) < Start(queued, m)
        BY <4>1, <1>1, StartGrows
      <4> QED
        BY <4>2, <3>2, <1>1, <1>3, <1>5
    <3> QED
      BY <3>3, <3>4, <1>1, <1>3
  <2> QED
    BY <2>2, <2>3, <1>6
<1>8. ASSUME c.piece # 1 PROVE cut # {}
  <2>1. SUFFICES ASSUME Taken - available + next = Start(queued, l + 1) PROVE FALSE
    BY <1>6
  <2>2. CASE m < l + 1
    <3>1. Start(queued, m + 1) <= Start(queued, l + 1)
      BY <2>2, <1>1, <1>3, StartGrows
    <3> QED
      BY <3>1, <2>1, <1>1, <1>3, <1>5
  <2>3. CASE l + 1 <= m
    <3>1. l + 1 < m => l + 1 \in 1..Len(queued) /\ m \in 1..(Len(queued) + 1)
      BY <1>1, <1>3
    <3>2. l + 1 < m => Start(queued, l + 1) < Start(queued, m)
      BY <3>1, <1>1, StartGrows
    <3> QED
      BY <3>2, <2>1, <2>3, <1>1, <1>3, <1>5, <1>8
  <2> QED
    BY <2>2, <2>3, <1>1, <1>3
<1> QED
  BY <1>1, <1>3, <1>4, <1>7, <1>8 DEF c

LEMMA DispatchKeepsInv ==
  ASSUME QueueInv, DispatchMessage PROVE QueueInv'
<1> DEFINE m == temp_buffer[next].message
           length == Total(queued[m])
           seen == [k \in 1..length |->
                      LET i == next + HeaderSize + k - 1
                      IN  IF i < BufferSize THEN temp_buffer[i] ELSE NoCell]
<1>0. QueueTypeInv /\ QueueRingInv /\ QueueTakenInv /\ QueueNextInv /\ DeliversInOrder
  BY Zenon DEF QueueInv
<1>1. /\ reader = "dispatches" /\ next < available /\ temp_buffer[next].piece = 1
      /\ delivered' = Append(delivered, [message |-> m, body |-> seen])
      /\ next' = next + HeaderSize + length
      /\ UNCHANGED <<ring, hookvars>>
      /\ temp_buffer' = temp_buffer /\ available' = available /\ reader' = reader /\ cut' = cut
  BY DEF DispatchMessage
<1>2. /\ QueueRingInv' /\ Unread' = Unread /\ Entered' = Entered /\ ReadOut' = ReadOut
      /\ \A p, i : Within(p, i)' = Within(p, i)
      /\ queued' = queued
  BY <1>0, <1>1, QueueRingStays DEF hookvars
<1>3. Taken' = Taken /\ Taken = ReadOut /\ Taken \in Nat
  <2>1. Taken' = Taken /\ Taken = ReadOut
    BY <1>1, <1>2 DEF Taken
  <2> QED
    BY <2>1, <1>0, QueueFacts
<1>4. /\ BufferSize \in Nat \ {0} /\ HeaderSize \in Nat \ {0} /\ ReadOut \in Nat
      /\ available \in Nat /\ next \in Nat /\ available < BufferSize /\ available <= ReadOut
      /\ temp_buffer \in [Indices -> QCells] /\ queued \in Seq(Bodies)
      /\ Len(queued) \in Nat /\ cut \subseteq 1..Len(queued)
  <2>1. available < BufferSize /\ available <= ReadOut
    BY <1>0, <1>1, Zenon DEF QueueTakenInv
  <2>2. /\ available \in Nat /\ next \in Nat /\ temp_buffer \in [Indices -> QCells]
        /\ queued \in Seq(Bodies) /\ cut \subseteq 1..Len(queued)
    BY <1>0, Zenon DEF QueueTypeInv
  <2> QED
    BY <2>1, <2>2, <1>0, QueueFacts
<1>5. /\ m \in 1..Len(queued) /\ m = Len(delivered) + 1
      /\ Taken - available + next = Start(queued, m)
      /\ Len(delivered) \in Nat /\ DOMAIN delivered = 1..Len(delivered)
  BY <1>0, <1>1, <1>3, HeaderIsNext, DeliveredFacts
<1>6. /\ length \in Nat /\ Size(queued, m) = HeaderSize + length
      /\ Start(queued, m) \in Nat /\ Start(queued, m + 1) = Start(queued, m) + Size(queued, m)
      /\ Start(queued, m + 1) \in Nat
  <2>1. m + 1 \in 1..(Len(queued) + 1)
    BY <1>4, <1>5
  <2> QED
    <3>1. length \in Nat
      BY <1>4, <1>5, SizeIsTrue
    <3>2. Size(queued, m) = HeaderSize + length
      BY DEF Size
    <3>3. /\ Start(queued, m) \in Nat /\ Start(queued, m + 1) = Start(queued, m) + Size(queued, m)
          /\ Start(queued, m + 1) \in Nat
      <4>1. m \in 1..(Len(queued) + 1)
        BY <1>4, <1>5
      <4> HIDE DEF m
      <4> QED
        BY <4>1, <2>1, <1>4, <1>5, StartProperties
    <3> QED
      BY <3>1, <3>2, <3>3
<1> HIDE DEF m, length
<1>7. Taken - available + next' = Start(queued, m + 1) /\ next' \in Nat /\ next' # 0
  BY <1>1, <1>3, <1>4, <1>5, <1>6
<1>8. next' > available => m \in cut /\ Start(queued, m) < Taken
  <2>1. SUFFICES ASSUME next' > available PROVE m \in cut /\ Start(queued, m) < Taken
    OBVIOUS
  <2>2. Start(queued, m) < Taken /\ Taken < Start(queued, m + 1)
    BY <2>1, <1>1, <1>3, <1>4, <1>5, <1>6, <1>7
  <2>3. CASE \E i \in 1..(Len(queued) + 1) : Taken = Start(queued, i)
    <3>1. PICK i \in 1..(Len(queued) + 1) : Taken = Start(queued, i)
      BY <2>3
    <3>2. ~(m < i)
      <4>1. m < i => Start(queued, m + 1) <= Start(queued, i)
        BY <1>4, <1>5, StartGrows
      <4> QED
        BY <4>1, <3>1, <2>2, <1>3, <1>6
    <3>3. ~(i < m)
      <4>1. i < m => i \in 1..Len(queued) /\ m \in 1..(Len(queued) + 1)
        BY <1>4, <1>5
      <4>2. i < m => Start(queued, i) < Start(queued, m)
        BY <4>1, <1>4, StartGrows
      <4> QED
        BY <4>2, <3>1, <2>2, <1>3, <1>6
    <3>4. i = m
      BY <3>2, <3>3, <1>4, <1>5
    <3>5. Start(queued, i) = Start(queued, m)
      BY <3>4, Zenon
    <3> QED
      BY <3>1, <3>5, <2>2, <1>6
  <2>4. CASE \E i \in cut : Within(Taken, i)
    <3>1. PICK i \in cut : Within(Taken, i)
      BY <2>4
    <3>2. /\ i \in 1..Len(queued) /\ Start(queued, i) < Taken /\ Taken < Start(queued, i + 1)
          /\ Start(queued, i) \in Nat /\ Start(queued, i + 1) \in Nat
      <4>1. i \in 1..Len(queued) /\ i \in 1..(Len(queued) + 1) /\ i + 1 \in 1..(Len(queued) + 1)
        BY <3>1, <1>4
      <4> QED
        BY <4>1, <3>1, <1>4, StartProperties DEF Within
    <3>3. ~(m < i)
      <4>1. m < i => Start(queued, m + 1) <= Start(queued, i)
        BY <3>2, <1>4, <1>5, StartGrows
      <4> QED
        BY <4>1, <3>2, <2>2, <1>3, <1>6
    <3>4. ~(i < m)
      <4>1. i < m => Start(queued, i + 1) <= Start(queued, m)
        BY <3>2, <1>4, <1>5, StartGrows
      <4> QED
        BY <4>1, <3>2, <2>2, <1>3, <1>6
    <3>5. i = m
      BY <3>2, <3>3, <3>4, <1>4, <1>5
    <3>6. m \in cut
      BY <3>1, <3>5, Zenon
    <3> QED
      BY <3>6, <2>2, Zenon
  <2>5. \/ \E i \in 1..(Len(queued) + 1) : Taken = Start(queued, i)
        \/ \E i \in cut : Within(Taken, i)
    BY <1>0, <1>1 DEF QueueTakenInv
  <2> QED
    BY <2>3, <2>4, <2>5, Zenon
<1>9. ASSUME m \notin cut PROVE seen = Body(m)
  <2>1. next' <= available
    BY <1>4, <1>7, <1>8, <1>9
  <2>2. ASSUME NEW k \in 1..length
        PROVE  seen[k] = Piece(m, HeaderSize + k)
    <3> DEFINE i == next + HeaderSize + k - 1
    <3>1. i \in 0..(available - 1) /\ i < BufferSize
      BY <2>1, <1>1, <1>4, <1>6
    <3>2. seen[k] = temp_buffer[i]
      BY <3>1
    <3> HIDE DEF i
    <3>3. IsAt(queued, temp_buffer[i], Taken - available + i)
      BY <3>1, <1>0, <1>1, Zenon DEF QueueTakenInv
    <3>4. Taken - available + i = Start(queued, m) + (HeaderSize + k) - 1
      BY <1>3, <1>4, <1>5, <1>6 DEF i
    <3>5. HeaderSize + k \in 1..Size(queued, m)
      BY <1>4, <1>6
    <3>6. temp_buffer[i] = Piece(m, HeaderSize + k)
      BY <3>3, <3>4, <3>5, <1>4, <1>5, CellIsKnown
    <3> QED
      BY <3>2, <3>6
  <2>3. Body(m) = [k \in 1..length |-> Piece(m, HeaderSize + k)]
    BY DEF Body, length
  <2>4. seen = [k \in 1..length |-> seen[k]]
    OBVIOUS
  <2> HIDE DEF seen
  <2> QED
    BY <2>2, <2>3, <2>4
<1>10. seen \in Seq(QCells)
  <2>1. ASSUME NEW k \in 1..length PROVE seen[k] \in QCells
    <3> DEFINE i == next + HeaderSize + k - 1
    <3>1. i \in Nat
      BY <1>4, <1>6
    <3>2. CASE i < BufferSize
      <4>1. i \in Indices
        BY <3>1, <3>2, <1>4 DEF Indices
      <4>2. temp_buffer[i] \in QCells
        BY <4>1, <1>4
      <4> QED
        BY <3>2, <4>2
    <3>3. CASE ~(i < BufferSize)
      <4>1. NoCell \in QCells
        BY DEF NoCell, QCells
      <4> QED
        BY <3>3, <4>1
    <3> QED
      BY <3>2, <3>3
  <2>2. seen = [k \in 1..length |-> seen[k]]
    OBVIOUS
  <2> HIDE DEF seen
  <2>3. seen \in [1..length -> QCells]
    BY <2>1, <2>2
  <2> QED
    BY <2>3, <1>6
<1> HIDE DEF seen
<1>11. /\ delivered' \in Seq(Deliveries) /\ Len(delivered') = m
       /\ DOMAIN delivered' = 1..m /\ m \in Nat
       /\ delivered'[m] = [message |-> m, body |-> seen]
       /\ \A i \in DOMAIN delivered : delivered'[i] = delivered[i]
  <2>1. delivered \in Seq(Deliveries) /\ [message |-> m, body |-> seen] \in Deliveries
    <3>1. delivered \in Seq(Deliveries)
      BY <1>0, Zenon DEF QueueTypeInv
    <3>2. m \in Nat
      BY <1>4, <1>5
    <3> QED
      BY <3>1, <3>2, <1>10 DEF Deliveries
  <2> QED
    BY <2>1, <1>1, <1>5
<1>12. QueueTakenInv'
  <2>1. \A i : Within(Taken, i)' <=> Within(Taken, i)
    BY <1>2, <1>3 DEF Within
  <2> QED
    BY <2>1, <1>0, <1>1, <1>2, <1>3 DEF QueueTakenInv
<1>13. QueueNextInv'
  <2>1. Taken' - available' + next' = Start(queued', Len(delivered') + 1)
    BY <1>1, <1>2, <1>3, <1>7, <1>11, Zenon
  <2>2. Len(delivered') <= Len(queued')
    BY <1>2, <1>4, <1>5, <1>11
  <2>3. next' > available' => Len(delivered') \in cut' /\ Start(queued', Len(delivered')) < Taken'
    BY <1>1, <1>2, <1>3, <1>8, <1>11, Zenon
  <2> QED
    BY <2>1, <2>2, <2>3, Zenon DEF QueueNextInv
<1>14. DeliversInOrder'
  <2>1. \A i : Body(i)' = Body(i)
    BY <1>2 DEF Body
  <2>2. ASSUME NEW i \in DOMAIN delivered'
        PROVE  delivered'[i].message = i /\ (i \notin cut' => delivered'[i].body = Body(i)')
    <3>1. CASE i = m
      BY <3>1, <2>1, <1>1, <1>9, <1>11
    <3>2. CASE i # m
      <4>1. i \in DOMAIN delivered
        <5>1. i \in 1..m /\ i # m /\ m = Len(delivered) + 1 /\ Len(delivered) \in Nat
          BY <3>2, <1>5, <1>11, Zenon
        <5>2. i \in 1..Len(delivered)
          BY <5>1
        <5> QED
          BY <5>2, <1>5, Zenon
      <4> QED
        BY <4>1, <2>1, <1>0, <1>1, <1>11 DEF DeliversInOrder
    <3> QED
      BY <3>1, <3>2
  <2>3. reader' # "is lost"
    BY <1>1
  <2> QED
    BY <2>2, <2>3 DEF DeliversInOrder
<1>15. QueueTypeInv'
  <2>1. /\ temp_buffer' \in [Indices -> QCells]
        /\ reader' \in {"waits", "reads", "has read", "dispatches", "is lost"}
        /\ available' \in Nat /\ cut' \subseteq 1..Len(queued')
    BY <1>0, <1>1, <1>2, Zenon DEF QueueTypeInv
  <2> QED
    BY <2>1, <1>0, <1>1, <1>7, <1>11, ReaderTypes, Zenon DEF QueueTypeInv
<1> QED
  BY <1>2, <1>12, <1>13, <1>14, <1>15 DEF QueueInv

LEMMA LostKeepsInv ==
  ASSUME QueueInv, TakeBodyForHeader PROVE QueueInv'
<1>0. QueueTypeInv /\ QueueRingInv /\ QueueTakenInv /\ QueueNextInv /\ DeliversInOrder
  BY Zenon DEF QueueInv
<1>1. /\ reader = "dispatches" /\ next < available /\ temp_buffer[next].piece # 1
      /\ reader' = "is lost" /\ UNCHANGED <<ring, hookvars>>
      /\ temp_buffer' = temp_buffer /\ available' = available /\ next' = next
      /\ delivered' = delivered /\ cut' = cut
  BY DEF TakeBodyForHeader
<1>2. QueueRingInv' /\ queued' = queued
  BY <1>0, <1>1, QueueRingStays DEF hookvars
<1>3. cut # {}
  <2>1. Taken \in Nat
    BY <1>0, QueueFacts
  <2> QED
    BY <2>1, <1>0, <1>1, HeaderIsNext
<1>4. QueueTakenInv' /\ QueueNextInv'
  BY <1>0, <1>1, <1>2 DEF QueueTakenInv, QueueNextInv
<1>5. DeliversInOrder'
  <2>1. \A i : Body(i)' = Body(i)
    BY <1>2 DEF Body
  <2> QED
    BY <2>1, <1>0, <1>1, <1>3 DEF DeliversInOrder
<1>6. QueueTypeInv'
  <2>1. /\ temp_buffer' \in [Indices -> QCells]
        /\ reader' \in {"waits", "reads", "has read", "dispatches", "is lost"}
        /\ available' \in Nat /\ next' \in Nat /\ delivered' \in Seq(Deliveries)
        /\ cut' \subseteq 1..Len(queued')
    BY <1>0, <1>1, <1>2, Zenon DEF QueueTypeInv
  <2> QED
    BY <2>1, <1>0, <1>1, ReaderTypes, Zenon DEF QueueTypeInv
<1> QED
  BY <1>2, <1>4, <1>5, <1>6 DEF QueueInv

LEMMA EndOfRoundKeepsInv ==
  ASSUME QueueInv, EndOfRound PROVE QueueInv'
<1> DEFINE l == Len(delivered)
<1>0. QueueTypeInv /\ QueueRingInv /\ QueueTakenInv /\ QueueNextInv /\ DeliversInOrder
  BY Zenon DEF QueueInv
<1>1. /\ reader = "dispatches" /\ next >= available
      /\ reader' = "waits" /\ available' = 0 /\ next' = 0 /\ UNCHANGED <<ring, hookvars>>
      /\ temp_buffer' = temp_buffer /\ delivered' = delivered /\ cut' = cut
  BY DEF EndOfRound
<1>2. /\ QueueRingInv' /\ Unread' = Unread /\ Entered' = Entered /\ ReadOut' = ReadOut
      /\ \A p, i : Within(p, i)' = Within(p, i)
      /\ queued' = queued
  BY <1>0, <1>1, QueueRingStays DEF hookvars
<1>3. ReadOut \in Nat /\ available \in Nat \ {0} /\ next \in Nat
  <2>1. available \in Nat /\ next \in Nat
    BY <1>0, Zenon DEF QueueTypeInv
  <2>2. 0 < available
    BY <1>0, <1>1, Zenon DEF QueueTakenInv
  <2> QED
    BY <2>1, <2>2, <1>0, QueueFacts
<1>4. Taken' = Taken /\ Taken \in Nat /\ Taken' - available' = Taken
  <2>1. Taken = ReadOut /\ Taken' = ReadOut' + available'
    BY <1>1 DEF Taken
  <2> QED
    BY <2>1, <1>1, <1>2, <1>3
<1>5. QueueTakenInv'
  BY <1>1 DEF QueueTakenInv
<1>6. QueueNextInv'
  <2>1. \/ Taken - available + next = Start(queued, l + 1)
        \/ next = 0 /\ l \in cut /\ Within(Taken - available, l)
    BY <1>0, <1>1 DEF QueueNextInv
  <2>2. Taken - available + next = Start(queued, l + 1)
    BY <2>1, <1>1, <1>3
  <2>3. CASE next = available
    <3>1. Taken' - available' + next' = Start(queued', Len(delivered') + 1)
      BY <2>2, <2>3, <1>1, <1>2, <1>3, <1>4
    <3>2. ~(next' > available') /\ Len(delivered') <= Len(queued')
      BY <1>0, <1>1, <1>2 DEF QueueNextInv
    <3> QED
      BY <3>1, <3>2, Zenon DEF QueueNextInv
  <2>4. CASE next > available
    <3>1. l \in cut /\ Start(queued, l) < Taken
      BY <2>4, <1>0, <1>1, Zenon DEF QueueNextInv
    <3>2. Within(Taken, l)
      BY <2>2, <2>4, <3>1, <1>3, <1>4 DEF Within
    <3>3. Within(Taken' - available', Len(delivered'))
      BY <3>2, <1>1, <1>4
    <3>4. Within(Taken - available, Len(delivered))'
      BY <3>2, <1>1, <1>2, <1>4 DEF Within
    <3>5. ~(next' > available') /\ Len(delivered') <= Len(queued')
      BY <1>0, <1>1, <1>2 DEF QueueNextInv
    <3> QED
      BY <3>1, <3>4, <3>5, <1>1, Zenon DEF QueueNextInv
  <2> QED
    BY <2>3, <2>4, <1>1, <1>3
<1>7. DeliversInOrder'
  <2>1. \A i : Body(i)' = Body(i)
    BY <1>2 DEF Body
  <2> QED
    BY <2>1, <1>0, <1>1 DEF DeliversInOrder
<1>8. QueueTypeInv'
  <2>1. /\ temp_buffer' \in [Indices -> QCells]
        /\ reader' \in {"waits", "reads", "has read", "dispatches", "is lost"}
        /\ available' \in Nat /\ next' \in Nat /\ delivered' \in Seq(Deliveries)
        /\ cut' \subseteq 1..Len(queued')
    BY <1>0, <1>1, <1>2, Zenon DEF QueueTypeInv
  <2> QED
    BY <2>1, <1>0, <1>1, ReaderTypes, Zenon DEF QueueTypeInv
<1> QED
  BY <1>2, <1>5, <1>6, <1>7, <1>8 DEF QueueInv

LEMMA QueueInvHoldsAtFirst ==
  ASSUME QInit PROVE QueueInv
<1>1. /\ buf = [i \in Indices |-> NoCell] /\ write_idx = 0 /\ read_idx = 0
      /\ queued = <<>> /\ writes = <<>> /\ copied = FALSE
      /\ temp_buffer = [i \in Indices |-> NoCell] /\ available = 0 /\ next = 0
      /\ reader = "waits" /\ delivered = <<>> /\ cut = {}
  BY DEF QInit, Indices
<1>2. BufferSize \in Nat \ {0} /\ 0 \in Indices /\ NoCell \in QCells
  BY PdQueueAssumption DEF Indices, NoCell, QCells
<1>3. QueueTypeInv
  <2>1. buf \in [Indices -> QCells] /\ temp_buffer \in [Indices -> QCells]
    BY <1>1, <1>2
  <2>2. queued \in Seq(Bodies) /\ writes \in Seq(Nat \ {0}) /\ delivered \in Seq(Deliveries)
    BY <1>1
  <2>3. cut \subseteq 1..Len(queued) /\ available \in Nat /\ next \in Nat
    BY <1>1
  <2> QED
    BY <2>1, <2>2, <2>3, <1>1, <1>2, Zenon DEF QueueTypeInv
<1>4. Unread = 0 /\ Entered = 0
  <2>1. Unread = 0
    BY <1>1, <1>2, SpacingIs DEF Unread
  <2>2. Start(queued, Len(queued) + 1) = 0 /\ Total(writes) = 0
    <3>1. Len(queued) + 1 = 1 /\ queued \in Seq(Bodies)
      BY <1>1
    <3> QED
      BY <3>1, <1>1, StartProperties, TotalProperties
  <2> QED
    BY <2>1, <2>2 DEF Entered
<1>5. QueueRingInv
  <2>1. Total(writes) = 0
    BY <1>1, TotalProperties
  <2>2. Unread + Total(writes) < BufferSize /\ Unread <= Entered
    BY <2>1, <1>2, <1>4
  <2>3. \A k \in 0..(Unread - 1) : IsAt(queued, buf[Slot(read_idx + k)], ReadOut + k)
    BY <1>4
  <2> QED
    BY <2>2, <2>3, <1>1 DEF QueueRingInv
<1>6. QueueTakenInv
  BY <1>1 DEF QueueTakenInv
<1>7. QueueNextInv
  <2>1. Taken - available + next = Start(queued, Len(delivered) + 1)
    <3>1. Start(queued, Len(delivered) + 1) = 0
      <4>1. Len(delivered) + 1 = 1 /\ queued \in Seq(Bodies)
        BY <1>1
      <4> QED
        BY <4>1, StartProperties
    <3>2. Taken = 0
      BY <1>1, <1>4 DEF Taken, ReadOut
    <3> QED
      BY <3>1, <3>2, <1>1
  <2>2. Len(delivered) <= Len(queued) /\ ~(next > available)
    BY <1>1
  <2> QED
    BY <2>1, <2>2 DEF QueueNextInv
<1>8. DeliversInOrder
  BY <1>1 DEF DeliversInOrder
<1> QED
  BY <1>3, <1>5, <1>6, <1>7, <1>8 DEF QueueInv

LEMMA QueueInvIsKept ==
  ASSUME QueueInv, [QNext]_qvars PROVE QueueInv'
<1>1. ASSUME NEW thread \in QueueThreads, NEW body \in Bodies, Hook(thread, body) PROVE QueueInv'
  BY <1>1, HookKeepsInv
<1>2. CASE Writer
  BY <1>2, CopyKeepsInv, PublishKeepsInv DEF Writer
<1>3. CASE Receive
  BY <1>3, LookKeepsInv, ReadAllKeepsInv, ReleaseKeepsInv, DispatchKeepsInv, LostKeepsInv,
     EndOfRoundKeepsInv DEF Receive
<1>4. CASE UNCHANGED qvars
  <2>0. QueueTypeInv /\ QueueRingInv /\ QueueTakenInv /\ QueueNextInv /\ DeliversInOrder
    BY Zenon DEF QueueInv
  <2>1. /\ UNCHANGED <<ring, hookvars>> /\ UNCHANGED <<readervars, delivered, cut>>
    BY <1>4 DEF qvars
  <2>2. /\ QueueRingInv' /\ Unread' = Unread /\ ReadOut' = ReadOut /\ queued' = queued
    BY <2>0, <2>1, QueueRingStays DEF hookvars
  <2>3. Unread' >= Unread /\ Unread' \in Nat
    <3>1. Unread \in Nat
      BY <2>0, QueueFacts
    <3> QED
      BY <3>1, <2>2
  <2>4. QueueTakenInv' /\ QueueNextInv' /\ DeliversInOrder'
    BY <2>0, <2>1, <2>2, <2>3, QueueReaderStays
  <2>5. QueueTypeInv'
    <3>1. /\ temp_buffer' \in [Indices -> QCells]
          /\ reader' \in {"waits", "reads", "has read", "dispatches", "is lost"}
          /\ available' \in Nat /\ next' \in Nat /\ delivered' \in Seq(Deliveries)
          /\ cut' \subseteq 1..Len(queued')
      BY <2>0, <2>1, <2>2, Zenon DEF QueueTypeInv, readervars
    <3> QED
      BY <3>1, <2>0, <2>1, ReaderTypes, Zenon DEF QueueTypeInv
  <2> QED
    BY <2>2, <2>4, <2>5 DEF QueueInv
<1> QED
  BY <1>1, <1>2, <1>3, <1>4 DEF QNext

\* What the delegate is handed is what Pd queued: in its order, each message once, and,
\* unless the reader looked between the writes of a message, with its own body; without
\* a lock, at every size of the ring and however write and read interleave.
THEOREM QueueDeliversInOrder == QSpec => []DeliversInOrder
<1>1. QInit => QueueInv
  BY QueueInvHoldsAtFirst
<1>2. QueueInv /\ [QNext]_qvars => QueueInv'
  BY QueueInvIsKept
<1>3. QueueInv => DeliversInOrder
  BY DEF QueueInv
<1> QED
  BY <1>1, <1>2, <1>3, PTL DEF QSpec
=============================================================================
