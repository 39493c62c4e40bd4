--------------------------- MODULE OpenFilesProofs ---------------------------
(***************************************************************************)
(* The open files of a mount, under either backend, however many there     *)
(* are, of whatever lengths and with whatever is read, written and         *)
(* truncated.  Every theorem follows from FilesInv, by the properties of   *)
(* the operations on a buffer that come first: the backends open and load  *)
(* in different ways, and keep the same promises.                          *)
(***************************************************************************)
EXTENDS OpenFiles, SequenceTheorems, TLAPS

-----------------------------------------------------------------------------
(* Contents                                                                *)

LEMMA PaddedContent ==
    ASSUME NEW data \in Seq(Bytes), NEW n \in Nat
    PROVE  /\ Padded(data, n) \in Seq(Bytes)
           /\ Len(Padded(data, n)) = IF n > Len(data) THEN n ELSE Len(data)
           /\ \A i \in 1 .. Len(data) : Padded(data, n)[i] = data[i]
<1>1. PICK m \in Nat : m = IF n > Len(data) THEN n - Len(data) ELSE 0
    <2>1. (IF n > Len(data) THEN n - Len(data) ELSE 0) \in Nat
        BY LenProperties
    <2> QED  BY <2>1
<1>2. PICK zeros : zeros = [i \in 1 .. (n - Len(data)) |-> Zero]
    OBVIOUS
<1>3. 1 .. (n - Len(data)) = 1 .. m
    BY <1>1, LenProperties
<1>4. zeros = [i \in 1 .. m |-> Zero]
    BY <1>2, <1>3
<1>5. Zero \in Bytes
    BY DEF Bytes
<1>6. zeros \in Seq(Bytes) /\ Len(zeros) = m
    BY <1>4, <1>5
<1>7. Padded(data, n) = data \o zeros
    BY <1>2 DEF Padded
<1> QED  BY <1>1, <1>6, <1>7, ConcatProperties, LenProperties

LEMMA OverwrittenContent ==
    ASSUME NEW data \in Seq(Bytes), NEW pos \in Nat, NEW p \in Seq(Bytes),
           pos + Len(p) <= Len(data)
    PROVE  /\ Overwrite(data, pos, p) \in Seq(Bytes)
           /\ Len(Overwrite(data, pos, p)) = Len(data)
           /\ \A i \in 1 .. Len(data) :
                 Overwrite(data, pos, p)[i] =
                     IF i \in (pos + 1) .. (pos + Len(p)) THEN p[i - pos] ELSE data[i]
<1> DEFINE f == [i \in 1 .. Len(data) |->
                    IF i \in (pos + 1) .. (pos + Len(p)) THEN p[i - pos] ELSE data[i]]
<1>1. \A i \in 1 .. Len(data) :
         (IF i \in (pos + 1) .. (pos + Len(p)) THEN p[i - pos] ELSE data[i]) \in Bytes
    OBVIOUS
<1>2. f \in [1 .. Len(data) -> Bytes]
    BY <1>1
<1>3. Len(data) \in Nat
    BY LenProperties
<1>4. f \in Seq(Bytes) /\ Len(f) = Len(data)
    BY <1>2, <1>3
<1>5. Overwrite(data, pos, p) = f
    BY DEF Overwrite
<1> QED  BY <1>4, <1>5

LEMMA ResizedContent ==
    ASSUME NEW data \in Seq(Bytes), NEW n \in Nat
    PROVE  /\ Resize(data, n) \in Seq(Bytes)
           /\ Len(Resize(data, n)) = n
           /\ \A i \in 1 .. Len(data) : i <= n => Resize(data, n)[i] = data[i]
<1>1. CASE n <= Len(data)
    <2>1. Resize(data, n) = SubSeq(data, 1, n)
        BY <1>1 DEF Resize
    <2> QED  BY <1>1, <2>1, LenProperties
<1>2. CASE ~(n <= Len(data))
    <2>1. Resize(data, n) = Padded(data, n)
        BY <1>2 DEF Resize
    <2> QED  BY <1>2, <2>1, PaddedContent, LenProperties
<1> QED  BY <1>1, <1>2

LEMMA WrittenContent ==
    ASSUME NEW data \in Seq(Bytes), NEW pos \in Nat, NEW p \in Seq(Bytes)
    PROVE  LET w == WriteAt(data, pos, p)
           IN  /\ w \in Seq(Bytes)
               /\ Len(w) = IF pos + Len(p) > Len(data) THEN pos + Len(p) ELSE Len(data)
               /\ \A i \in 1 .. Len(data) :
                     i \notin (pos + 1) .. (pos + Len(p)) => w[i] = data[i]
               /\ \A i \in (pos + 1) .. (pos + Len(p)) : w[i] = p[i - pos]
<1>1. PICK end \in Nat : end = pos + Len(p)
    BY LenProperties
<1>2. PICK long \in Seq(Bytes) :
         /\ long = IF pos + Len(p) > Len(data) THEN Padded(data, pos + Len(p)) ELSE data
         /\ Len(long) = IF end > Len(data) THEN end ELSE Len(data)
         /\ \A i \in 1 .. Len(data) : long[i] = data[i]
    <2>1. CASE end > Len(data)
        BY <1>1, <2>1, PaddedContent
    <2>2. CASE ~(end > Len(data))
        BY <1>1, <2>2
    <2> QED  BY <2>1, <2>2
<1>3. WriteAt(data, pos, p) = Overwrite(long, pos, p)
    BY <1>2 DEF WriteAt
<1>4. pos + Len(p) <= Len(long) /\ Len(long) \in Nat /\ Len(data) \in Nat
      /\ Len(data) <= Len(long)
    BY <1>1, <1>2, LenProperties
<1>5. /\ Overwrite(long, pos, p) \in Seq(Bytes)
      /\ Len(Overwrite(long, pos, p)) = Len(long)
      /\ \A i \in 1 .. Len(long) :
            Overwrite(long, pos, p)[i] =
                IF i \in (pos + 1) .. (pos + Len(p)) THEN p[i - pos] ELSE long[i]
    BY <1>4, OverwrittenContent
<1>6. PICK w : w = WriteAt(data, pos, p)
    OBVIOUS
<1>7. w \in Seq(Bytes) /\ Len(w) = IF end > Len(data) THEN end ELSE Len(data)
    BY <1>2, <1>3, <1>5, <1>6
<1>8. \A i \in 1 .. Len(long) :
         w[i] = IF i \in (pos + 1) .. end THEN p[i - pos] ELSE long[i]
    BY <1>1, <1>3, <1>5, <1>6
<1>9. \A i \in 1 .. Len(data) : i \notin (pos + 1) .. end => w[i] = data[i]
    BY <1>2, <1>4, <1>8
<1>10. \A i \in (pos + 1) .. end : w[i] = p[i - pos]
    BY <1>1, <1>4, <1>8
<1>11. (pos + Len(p)) = end
    BY <1>1
<1> QED  BY <1>6, <1>7, <1>9, <1>10, <1>11

-----------------------------------------------------------------------------
(* What is known of an open file                                           *)

OpenFileType ==
    [state : {"none", "open", "flush", "ok", "error"},
     loaded : BOOLEAN, dirty : BOOLEAN, buf : Seq(Bytes), pos : Nat, base : Nat,
     wrote : SUBSET Nat, touched : SUBSET Nat, failed : BOOLEAN]

RemoteOK ==
    /\ version \in Nat
    /\ remote # Absent => remote \in Seq(Bytes) /\ Len(remote) <= MaxSize

(* While the remote has the version f was loaded from, f agrees with it    *)
(* wherever f was not touched.                                             *)
Agrees(f) ==
    (f.loaded /\ f.base = version /\ remote # Absent)
        => \A i \in 1 .. Len(remote) :
              i \notin f.touched => i \in 1 .. Len(f.buf) /\ f.buf[i] = remote[i]

HoldsWrites(h, f) ==
    \A i \in f.wrote : f.loaded /\ i \in 1 .. Len(f.buf) /\ f.buf[i] = h

Good(h, f) ==
    /\ f \in OpenFileType
    /\ Len(f.buf) <= MaxSize
    /\ f.base <= version
    /\ f.dirty => f.loaded
    /\ f.wrote # {} => f.dirty
    /\ HoldsWrites(h, f)
    /\ Agrees(f)

LEMMA EmptyContent ==
    MaxSize \in Nat /\ \E c \in Seq(Bytes) : c = <<>> /\ Len(c) = 0 /\ Len(c) <= MaxSize
<1>1. MaxSize \in Nat
    BY FileBufferAssumption
<1>2. <<>> \in Seq(Bytes)
    OBVIOUS
<1>3. Len(<<>>) = 0
    OBVIOUS
<1>4. Len(<<>>) <= MaxSize
    BY <1>1, <1>3
<1> QED  BY <1>1, <1>2, <1>3, <1>4, Zenon

(* A file of which nothing is in memory.                                   *)
LEMMA GoodUnloaded ==
    ASSUME RemoteOK, NEW h \in Handles, NEW f \in OpenFileType, Len(f.buf) <= MaxSize,
           f.base = 0, f.dirty = FALSE, f.loaded = FALSE, f.wrote = {}
    PROVE  Good(h, f)
<1>1. HoldsWrites(h, f) /\ Agrees(f)
    BY DEF HoldsWrites, Agrees
<1>2. f.base <= version
    BY DEF RemoteOK
<1> QED  BY <1>1, <1>2 DEF Good

LEMMA GoodLazy ==
    ASSUME RemoteOK, NEW h \in Handles
    PROVE  /\ Good(h, Unopened) /\ Unopened.state = "none"
           /\ Good(h, Lazy) /\ Lazy.state = "open"
<1>1. PICK empty \in Seq(Bytes) : empty = <<>> /\ Len(empty) <= MaxSize
    BY EmptyContent
<1>2. PICK u : u = [state |-> "none", loaded |-> FALSE, dirty |-> FALSE, buf |-> empty,
                    pos |-> 0, base |-> 0, wrote |-> {}, touched |-> {}, failed |-> FALSE]
    OBVIOUS
<1>3. Unopened = u
    BY <1>1, <1>2, Zenon DEF Unopened
<1>4. /\ u \in OpenFileType /\ u.buf = empty /\ u.base = 0 /\ u.dirty = FALSE
      /\ u.loaded = FALSE /\ u.wrote = {} /\ u.state = "none"
    BY <1>2 DEF OpenFileType
<1>5. Good(h, u)
    BY <1>1, <1>4, GoodUnloaded
<1>6. PICK z \in OpenFileType : z = [u EXCEPT !.state = "open"]
    BY <1>2 DEF OpenFileType
<1>7. /\ z.buf = empty /\ z.base = 0 /\ z.dirty = FALSE
      /\ z.loaded = FALSE /\ z.wrote = {} /\ z.state = "open"
    BY <1>2, <1>6
<1>8. Good(h, z)
    BY <1>1, <1>7, GoodUnloaded
<1>9. Lazy = z
    BY <1>3, <1>6, Zenon DEF Lazy
<1> QED  BY <1>3, <1>4, <1>5, <1>7, <1>8, <1>9

LEMMA GoodClosed ==
    ASSUME RemoteOK, NEW h \in Handles, NEW result \in {"ok", "error"}
    PROVE  /\ Good(h, Closed(result))
           /\ Closed(result).state = result
           /\ Closed(result).failed = (result = "error")
<1>1. PICK empty \in Seq(Bytes) : empty = <<>> /\ Len(empty) <= MaxSize
    BY EmptyContent
<1>2. PICK u : u = [state |-> "none", loaded |-> FALSE, dirty |-> FALSE, buf |-> empty,
                    pos |-> 0, base |-> 0, wrote |-> {}, touched |-> {}, failed |-> FALSE]
    OBVIOUS
<1>3. Unopened = u
    BY <1>1, <1>2, Zenon DEF Unopened
<1>4. PICK b \in BOOLEAN : b = (result = "error")
    <2>1. (result = "error") \in BOOLEAN
        BY SMT
    <2> QED  BY <2>1, Zenon
<1>5. PICK f \in OpenFileType : f = [u EXCEPT !.state = result, !.failed = b]
    BY <1>2 DEF OpenFileType
<1>6. /\ f.buf = empty /\ f.base = 0 /\ f.dirty = FALSE
      /\ f.loaded = FALSE /\ f.wrote = {}
      /\ f.state = result /\ f.failed = b
    BY <1>2, <1>5
<1>7. Good(h, f)
    BY <1>1, <1>6, GoodUnloaded
<1>8. Closed(result) = f
    BY <1>3, <1>4, <1>5, Zenon DEF Closed
<1> QED  BY <1>4, <1>6, <1>7, <1>8, Zenon

LEMMA GoodFresh ==
    ASSUME RemoteOK, NEW h \in Handles
    PROVE  Good(h, Fresh(h)) /\ Fresh(h).state = "open"
<1>1. PICK empty \in Seq(Bytes) : empty = <<>> /\ Len(empty) <= MaxSize
    BY EmptyContent
<1>2. PICK all \in SUBSET Nat : all = 1 .. MaxSize
    BY EmptyContent
<1>3. PICK f : f = [state |-> "open", loaded |-> TRUE, dirty |-> TRUE, buf |-> empty,
                    pos |-> 0, base |-> version, wrote |-> {}, touched |-> all, failed |-> FALSE]
    OBVIOUS
<1>4. Fresh(h) = f
    <2>1. Unopened = [state |-> "none", loaded |-> FALSE, dirty |-> FALSE, buf |-> empty,
                      pos |-> 0, base |-> 0, wrote |-> {}, touched |-> {}, failed |-> FALSE]
        BY <1>1, Zenon DEF Unopened
    <2>2. Fresh(h) = [Unopened EXCEPT !.state = "open", !.loaded = TRUE, !.dirty = TRUE,
                                      !.base = version, !.touched = all]
        BY <1>2, Zenon DEF Fresh
    <2> QED  BY <1>3, <2>1, <2>2
<1>5. f \in OpenFileType
    BY <1>1, <1>2, <1>3 DEF OpenFileType, RemoteOK
<1>6. /\ f.buf = empty /\ f.base = version /\ f.loaded = TRUE
      /\ f.wrote = {} /\ f.touched = all /\ f.state = "open"
    BY <1>3
<1>7. remote # Absent => \A i \in 1 .. Len(remote) : i \in all
    BY <1>2, EmptyContent, LenProperties DEF RemoteOK
<1>8. HoldsWrites(h, f) /\ Agrees(f)
    BY <1>6, <1>7 DEF HoldsWrites, Agrees
<1>9. f.base <= version
    BY <1>6 DEF RemoteOK
<1>10. Len(f.buf) <= MaxSize
    BY <1>1, <1>6
<1>11. Good(h, f)
    BY <1>5, <1>6, <1>8, <1>9, <1>10 DEF Good
<1> QED  BY <1>4, <1>6, <1>11

LEMMA GoodLoad ==
    ASSUME RemoteOK, NEW h \in Handles, Good(h, file[h])
    PROVE  /\ Good(h, Load(h)) /\ Load(h).loaded
           /\ Load(h).state = file[h].state /\ Load(h).pos = file[h].pos
<1>1. CASE file[h].loaded
    BY <1>1 DEF Load
<1>2. CASE ~file[h].loaded
    <2>1. PICK data \in Seq(Bytes) :
             /\ data = IF remote = Absent THEN <<>> ELSE remote
             /\ Len(data) <= MaxSize
        <3>1. CASE remote = Absent
            BY <3>1, EmptyContent
        <3>2. CASE remote # Absent
            BY <3>2 DEF RemoteOK
        <3> QED  BY <3>1, <3>2
    <2>2. PICK f \in OpenFileType :
             f = [file[h] EXCEPT !.loaded = TRUE, !.base = version, !.buf = data]
        BY <2>1 DEF Good, OpenFileType, RemoteOK
    <2>3. Load(h) = f
        BY <1>2, <2>1, <2>2 DEF Load
    <2>4. /\ f.loaded /\ f.base = version /\ f.buf = data /\ f.wrote = file[h].wrote
          /\ f.state = file[h].state /\ f.dirty = file[h].dirty /\ f.pos = file[h].pos
        BY <2>2 DEF Good, OpenFileType
    <2>5. HoldsWrites(h, f)
        BY <1>2, <2>4 DEF HoldsWrites, Good
    <2>6. Agrees(f)
        BY <2>1, <2>4 DEF Agrees
    <2>7. Good(h, f)
        BY <2>1, <2>4, <2>5, <2>6 DEF Good, RemoteOK
    <2> QED  BY <2>3, <2>4, <2>7
<1> QED  BY <1>1, <1>2

LEMMA GoodSeek ==
    ASSUME NEW h \in Handles, NEW f, Good(h, f), NEW n \in Nat
    PROVE  Good(h, [f EXCEPT !.pos = n]) /\ [f EXCEPT !.pos = n].state = f.state
BY DEF Good, OpenFileType, HoldsWrites, Agrees

LEMMA GoodAdvanced ==
    ASSUME NEW h \in Handles, NEW f, Good(h, f), NEW n \in Nat
    PROVE  Good(h, Advanced(f, n)) /\ Advanced(f, n).state = f.state
<1>1. PICK q \in Nat : q = IF f.pos >= Len(f.buf) THEN f.pos
                          ELSE IF f.pos + n > Len(f.buf) THEN Len(f.buf) ELSE f.pos + n
    <2>1. f.pos \in Nat /\ Len(f.buf) \in Nat
        BY LenProperties DEF Good, OpenFileType
    <2> QED  BY <2>1
<1>2. Advanced(f, n) = [f EXCEPT !.pos = q]
    BY <1>1 DEF Advanced
<1> QED  BY <1>2, GoodSeek

LEMMA GoodWritten ==
    ASSUME NEW h \in Handles, NEW f, Good(h, f), f.loaded,
           NEW n \in Nat, f.pos + n <= MaxSize
    PROVE  Good(h, Written(h, f, n)) /\ Written(h, f, n).state = f.state
<1>1. /\ f.buf \in Seq(Bytes) /\ f.pos \in Nat /\ Len(f.buf) \in Nat
      /\ Len(f.buf) <= MaxSize /\ MaxSize \in Nat
    BY FileBufferAssumption, LenProperties DEF Good, OpenFileType
<1>2. PICK p \in Seq(Bytes) :
         p = [i \in 1 .. n |-> h] /\ Len(p) = n /\ \A i \in 1 .. n : p[i] = h
    <2>1. PICK q : q = [i \in 1 .. n |-> h]
        OBVIOUS
    <2>2. h \in Bytes
        BY DEF Bytes
    <2>3. q \in Seq(Bytes) /\ Len(q) = n /\ \A i \in 1 .. n : q[i] = h
        BY <2>1, <2>2
    <2> QED  BY <2>1, <2>3
<1>3. PICK w \in Seq(Bytes) :
         /\ w = WriteAt(f.buf, f.pos, p)
         /\ Len(w) = IF f.pos + n > Len(f.buf) THEN f.pos + n ELSE Len(f.buf)
         /\ \A i \in 1 .. Len(f.buf) :
               i \notin (f.pos + 1) .. (f.pos + n) => w[i] = f.buf[i]
         /\ \A i \in (f.pos + 1) .. (f.pos + n) : w[i] = p[i - f.pos]
    <2>1. PICK w : w = WriteAt(f.buf, f.pos, p)
        OBVIOUS
    <2>2. PICK data \in Seq(Bytes), pos \in Nat : data = f.buf /\ pos = f.pos
        BY <1>1
    <2>3. w = WriteAt(data, pos, p)
        BY <2>1, <2>2, Zenon
    <2>4. /\ w \in Seq(Bytes)
          /\ Len(w) = IF pos + Len(p) > Len(data) THEN pos + Len(p) ELSE Len(data)
          /\ \A i \in 1 .. Len(data) : i \notin (pos + 1) .. (pos + Len(p)) => w[i] = data[i]
          /\ \A i \in (pos + 1) .. (pos + Len(p)) : w[i] = p[i - pos]
        BY <2>3, WrittenContent
    <2>5. w = WriteAt(f.buf, f.pos, p) /\ w \in Seq(Bytes)
        BY <2>1, <2>4
    <2>6. Len(w) = IF f.pos + n > Len(f.buf) THEN f.pos + n ELSE Len(f.buf)
        BY <1>2, <2>2, <2>4
    <2>7. \A i \in 1 .. Len(f.buf) :
             i \notin (f.pos + 1) .. (f.pos + n) => w[i] = f.buf[i]
        BY <1>2, <2>2, <2>4
    <2>8. \A i \in (f.pos + 1) .. (f.pos + n) : w[i] = p[i - f.pos]
        BY <1>2, <2>2, <2>4
    <2> QED  BY <2>5, <2>6, <2>7, <2>8
<1>4. PICK span \in SUBSET Nat : span = (f.pos + 1) .. (f.pos + n)
    <2>1. (f.pos + 1) .. (f.pos + n) \subseteq Nat
        BY <1>1
    <2> QED  BY <2>1, Zenon
<1>5. \A i \in span : i \in 1 .. Len(w) /\ w[i] = h
    <2> TAKE i \in span
    <2>1. i \in (f.pos + 1) .. (f.pos + n) /\ i \in Nat
        BY <1>4
    <2>2. i - f.pos \in 1 .. n
        BY <1>1, <2>1
    <2>3. w[i] = p[i - f.pos]
        BY <1>3, <2>1
    <2>4. p[i - f.pos] = h
        BY <1>2, <2>2
    <2>5. i \in 1 .. Len(w)
        BY <1>1, <1>3, <2>1
    <2> QED  BY <2>3, <2>4, <2>5
<1>6. PICK g \in OpenFileType :
         /\ g = [f EXCEPT !.buf = w, !.pos = f.pos + n, !.dirty = TRUE,
                          !.wrote = f.wrote \cup span, !.touched = f.touched \cup span]
         /\ g.loaded /\ g.base = f.base /\ g.buf = w /\ g.dirty /\ g.state = f.state
         /\ g.wrote = f.wrote \cup span /\ g.touched = f.touched \cup span
    <2>1. PICK q \in Nat, a \in SUBSET Nat, b \in SUBSET Nat :
             q = f.pos + n /\ a = f.wrote \cup span /\ b = f.touched \cup span
        <3>1. f.pos + n \in Nat
            BY <1>1
        <3>2. f.wrote \cup span \in SUBSET Nat /\ f.touched \cup span \in SUBSET Nat
            BY <1>4 DEF Good, OpenFileType
        <3> QED  BY <3>1, <3>2
    <2>2. PICK g : g = [f EXCEPT !.buf = w, !.pos = q, !.dirty = TRUE,
                                 !.wrote = a, !.touched = b]
        OBVIOUS
    <2>3. /\ g \in OpenFileType /\ g.loaded /\ g.base = f.base /\ g.buf = w
          /\ g.dirty /\ g.state = f.state
          /\ g.wrote = a /\ g.touched = b
        BY <2>2 DEF Good, OpenFileType
    <2> QED  BY <2>1, <2>2, <2>3
<1>7. Written(h, f, n) = g
    BY <1>2, <1>3, <1>4, <1>6 DEF Written
<1>8. \A i \in 1 .. Len(f.buf) : i \in 1 .. Len(w) /\ (i \notin span => w[i] = f.buf[i])
    BY <1>1, <1>3, <1>4
<1>9. HoldsWrites(h, g)
    BY <1>5, <1>6, <1>8 DEF HoldsWrites, Good
<1>10. Agrees(g)
    BY <1>6, <1>8 DEF Agrees, Good
<1>11. Len(w) <= MaxSize
    BY <1>1, <1>3
<1>12. Good(h, g)
    BY <1>6, <1>9, <1>10, <1>11 DEF Good
<1> QED  BY <1>6, <1>7, <1>12

LEMMA GoodTruncated ==
    ASSUME RemoteOK, NEW h \in Handles, NEW f, Good(h, f), f.loaded,
           NEW n \in 0 .. MaxSize
    PROVE  Good(h, Truncated(f, n)) /\ Truncated(f, n).state = f.state
<1>1. /\ f.buf \in Seq(Bytes) /\ Len(f.buf) \in Nat /\ n \in Nat /\ MaxSize \in Nat
    BY FileBufferAssumption, LenProperties DEF Good, OpenFileType
<1>2. PICK w \in Seq(Bytes) :
         /\ w = Resize(f.buf, n)
         /\ Len(w) = n
         /\ \A i \in 1 .. Len(f.buf) : i <= n => w[i] = f.buf[i]
    BY <1>1, ResizedContent
<1>3. PICK rest \in SUBSET Nat : rest = (n + 1) .. MaxSize
    <2>1. (n + 1) .. MaxSize \subseteq Nat
        BY <1>1
    <2> QED  BY <2>1, Zenon
<1>4. PICK g \in OpenFileType :
         /\ g = [f EXCEPT !.buf = w, !.dirty = TRUE,
                          !.wrote = f.wrote \cap (1 .. n), !.touched = f.touched \cup rest]
         /\ g.loaded /\ g.base = f.base /\ g.buf = w /\ g.dirty /\ g.state = f.state
         /\ g.wrote = f.wrote \cap (1 .. n) /\ g.touched = f.touched \cup rest
    <2>1. PICK a \in SUBSET Nat, b \in SUBSET Nat :
             a = f.wrote \cap (1 .. n) /\ b = f.touched \cup rest
        BY <1>3 DEF Good, OpenFileType
    <2>2. PICK g : g = [f EXCEPT !.buf = w, !.dirty = TRUE, !.wrote = a, !.touched = b]
        OBVIOUS
    <2>3. /\ g \in OpenFileType /\ g.loaded /\ g.base = f.base /\ g.buf = w
          /\ g.dirty /\ g.state = f.state
          /\ g.wrote = a /\ g.touched = b
        BY <2>2 DEF Good, OpenFileType
    <2> QED  BY <2>1, <2>2, <2>3
<1>5. Truncated(f, n) = g
    BY <1>2, <1>3, <1>4 DEF Truncated
<1>6. HoldsWrites(h, g)
    BY <1>1, <1>2, <1>4 DEF HoldsWrites, Good
<1>7. Agrees(g)
    <2> SUFFICES ASSUME f.base = version, remote # Absent,
                        NEW i \in 1 .. Len(remote), i \notin g.touched
                 PROVE  i \in 1 .. Len(w) /\ w[i] = remote[i]
        BY <1>4 DEF Agrees
    <2>1. Len(remote) \in Nat /\ Len(remote) <= MaxSize
        BY LenProperties DEF RemoteOK
    <2>2. i \in 1 .. Len(f.buf) /\ f.buf[i] = remote[i]
        BY <1>4 DEF Good, Agrees
    <2>3. i <= n
        BY <1>1, <1>3, <1>4, <2>1
    <2> QED  BY <1>1, <1>2, <2>2, <2>3
<1>8. Good(h, g)
    BY <1>1, <1>2, <1>4, <1>6, <1>7 DEF Good
<1> QED  BY <1>4, <1>5, <1>8

-----------------------------------------------------------------------------
(* The inductive invariant: every open file, and every content that is on  *)
(* its way to the remote, is good.  What is on its way was sent by a Close *)
(* that still waits or has failed; a Close that waits for nothing has been *)
(* answered.                                                               *)

EveryFileGood ==
    \A h \in Handles : \E f \in OpenFileType : file[h] = f /\ Good(h, f)

EveryRequestGood ==
    \A r \in requests :
        \E h \in Handles, f \in OpenFileType :
            r = [by |-> h, file |-> f] /\ f.loaded /\ Good(h, f)

Waiting(h) ==
    /\ Sent(h) => \/ file[h].state = "flush"
                  \/ file[h].state \in {"ok", "error"} /\ file[h].failed
    /\ file[h].state = "error" => file[h].failed
    /\ file[h].state = "flush" => Sent(h) \/ h \in stored

EveryCloseWaits == \A h \in Handles : Waiting(h)

FilesInv ==
    /\ RemoteOK
    /\ file \in [Handles -> OpenFileType]
    /\ EveryFileGood
    /\ EveryRequestGood
    /\ EveryCloseWaits

LEMMA FilesInit == Init => FilesInv
<1> SUFFICES ASSUME Init PROVE FilesInv
    OBVIOUS
<1>1. RemoteOK
    <2>1. version \in Nat
        BY DEF Init
    <2>2. CASE remote = Absent
        BY <2>1, <2>2 DEF RemoteOK
    <2>3. CASE remote # Absent
        <3>1. PICK n \in 1 .. MaxSize : remote = [i \in 1 .. n |-> Other]
            BY <2>3 DEF Init
        <3>2. n \in Nat /\ n <= MaxSize /\ Other \in Bytes
            BY EmptyContent DEF Bytes
        <3>3. remote \in Seq(Bytes) /\ Len(remote) = n
            BY <3>1, <3>2
        <3> QED  BY <2>1, <3>2, <3>3 DEF RemoteOK
    <2> QED  BY <2>2, <2>3
<1>2. \A h \in Handles : Good(h, Unopened) /\ Unopened.state = "none"
    BY <1>1, GoodLazy
<1>3. PICK u : u = Unopened
    OBVIOUS
<1>4. file = [h \in Handles |-> u]
    BY <1>3, Zenon DEF Init
<1>5. \A h \in Handles : u \in OpenFileType /\ Good(h, u) /\ u.state = "none"
    BY <1>2, <1>3 DEF Good
<1>6. file \in [Handles -> OpenFileType] /\ EveryFileGood
    BY <1>4, <1>5 DEF EveryFileGood
<1>7. requests = {}
    BY DEF Init
<1>8. EveryRequestGood
    BY <1>7 DEF EveryRequestGood
<1>9. EveryCloseWaits
    BY <1>4, <1>5, <1>7 DEF EveryCloseWaits, Waiting, Sent
<1> QED  BY <1>1, <1>6, <1>8, <1>9 DEF FilesInv

(* What is good stays good while the remote does not change, and when it   *)
(* does: f was then loaded from an earlier version.                        *)
LEMMA GoodStays ==
    ASSUME NEW h \in Handles, NEW f, Good(h, f), UNCHANGED <<remote, version>>
    PROVE  Good(h, f)'
BY DEF Good, HoldsWrites, Agrees

LEMMA GoodOutdated ==
    ASSUME RemoteOK, NEW h \in Handles, NEW f, Good(h, f), version' = version + 1
    PROVE  Good(h, f)'
<1>1. f.base \in Nat /\ f.base <= version /\ version \in Nat
    BY DEF Good, OpenFileType, RemoteOK
<1>2. f.base # version' /\ f.base <= version'
    BY <1>1
<1> QED  BY <1>2 DEF Good, HoldsWrites, Agrees

(* A step by which an open file becomes g.                                 *)
LEMMA BecomesGood ==
    ASSUME FilesInv, NEW h \in Handles, NEW g, Good(h, g), Become(h, g),
           UNCHANGED <<remote, version>>
    PROVE  /\ RemoteOK'
           /\ (file \in [Handles -> OpenFileType])'
           /\ EveryFileGood'
           /\ file'[h] = g
           /\ \A k \in Handles \ {h} : file'[k] = file[k]
<1>1. g \in OpenFileType
    BY DEF Good
<1>2. /\ file' \in [Handles -> OpenFileType]
      /\ file'[h] = g
      /\ \A k \in Handles \ {h} : file'[k] = file[k]
    BY <1>1 DEF FilesInv, Become
<1>3. EveryFileGood'
    <2> SUFFICES ASSUME NEW k \in Handles
                 PROVE  \E f \in OpenFileType : file'[k] = f /\ Good(k, f)'
        BY DEF EveryFileGood
    <2>1. CASE k = h
        BY <1>1, <1>2, <2>1, GoodStays
    <2>2. CASE k # h
        <3>1. PICK f \in OpenFileType : file[k] = f /\ Good(k, f)
            BY DEF FilesInv, EveryFileGood
        <3>2. Good(k, f)'
            BY <3>1, GoodStays
        <3> QED  BY <1>2, <2>2, <3>1, <3>2
    <2> QED  BY <2>1, <2>2
<1>4. RemoteOK'
    BY DEF FilesInv, RemoteOK
<1> QED  BY <1>2, <1>3, <1>4

(* The requests that remain are good.                                      *)
LEMMA RequestsStayGood ==
    ASSUME FilesInv, requests' \subseteq requests, UNCHANGED <<remote, version>>
    PROVE  EveryRequestGood'
<1> SUFFICES ASSUME NEW r \in requests'
             PROVE  \E h \in Handles, f \in OpenFileType :
                       r = [by |-> h, file |-> f] /\ f.loaded /\ Good(h, f)'
    BY DEF EveryRequestGood
<1>1. PICK h \in Handles, f \in OpenFileType :
         r = [by |-> h, file |-> f] /\ f.loaded /\ Good(h, f)
    BY DEF FilesInv, EveryRequestGood
<1>2. Good(h, f)'
    BY <1>1, GoodStays
<1> QED  BY <1>1, <1>2

(* An operation on a file that is not being closed.                        *)
LEMMA OperationStep ==
    ASSUME FilesInv, NEW h \in Handles, file[h].state \in {"none", "open"},
           NEW g, Good(h, g), g.state = "open", Become(h, g),
           UNCHANGED <<remote, version, requests, stored>>
    PROVE  FilesInv'
<1>1. /\ RemoteOK' /\ (file \in [Handles -> OpenFileType])' /\ EveryFileGood'
      /\ file'[h] = g
      /\ \A k \in Handles \ {h} : file'[k] = file[k]
    BY BecomesGood
<1>2. EveryRequestGood'
    BY RequestsStayGood
<1>3. EveryCloseWaits'
    BY <1>1 DEF EveryCloseWaits, Waiting, Sent, FilesInv
<1> QED  BY <1>1, <1>2, <1>3 DEF FilesInv

(* What load leaves of an open file.                                       *)
LEMMA LoadedFile ==
    ASSUME FilesInv, NEW h \in Handles, file[h].state = "open"
    PROVE  \E f : f = Load(h) /\ Good(h, f) /\ f.loaded /\ f.state = "open"
                  /\ f.pos = file[h].pos
<1>1. Good(h, file[h])
    BY DEF FilesInv, EveryFileGood
<1> QED  BY <1>1, GoodLoad DEF FilesInv

(* Close, and what the remote does.                                        *)
LEMMA CloseDirtyStep ==
    ASSUME FilesInv, NEW h \in Handles, CloseDirty(h)
    PROVE  FilesInv'
<1>1. PICK f \in OpenFileType : file[h] = f /\ Good(h, f)
    BY DEF FilesInv, EveryFileGood
<1>2. PICK g \in OpenFileType : g = [f EXCEPT !.state = "flush"]
    BY DEF OpenFileType
<1>3. Good(h, g) /\ g.state = "flush"
    BY <1>1, <1>2 DEF Good, OpenFileType, HoldsWrites, Agrees
<1>4. Become(h, g)
    BY <1>1, <1>2 DEF CloseDirty
<1>5. PICK r : r = [by |-> h, file |-> f]
    OBVIOUS
<1>6. requests' = requests \cup {r} /\ UNCHANGED <<remote, version, stored>>
    BY <1>1, <1>5 DEF CloseDirty, Request
<1>7. /\ RemoteOK' /\ (file \in [Handles -> OpenFileType])' /\ EveryFileGood'
      /\ file'[h] = g
      /\ \A k \in Handles \ {h} : file'[k] = file[k]
    BY <1>3, <1>4, <1>6, BecomesGood
<1>8. f.loaded /\ r.by = h
    BY <1>1, <1>5 DEF CloseDirty, Good
<1>9. EveryRequestGood'
    <2> SUFFICES ASSUME NEW q \in requests'
                 PROVE  \E k \in Handles, e \in OpenFileType :
                           q = [by |-> k, file |-> e] /\ e.loaded /\ Good(k, e)'
        BY DEF EveryRequestGood
    <2>1. PICK k \in Handles, e \in OpenFileType :
             q = [by |-> k, file |-> e] /\ e.loaded /\ Good(k, e)
        BY <1>1, <1>5, <1>6, <1>8 DEF FilesInv, EveryRequestGood
    <2>2. Good(k, e)'
        BY <1>6, <2>1, GoodStays
    <2> QED  BY <2>1, <2>2
<1>10. EveryCloseWaits'
    BY <1>3, <1>6, <1>7, <1>8 DEF EveryCloseWaits, Waiting, Sent, FilesInv
<1> QED  BY <1>7, <1>9, <1>10 DEF FilesInv

(* Close returns, whatever it has waited for.                              *)
LEMMA ReturnStep ==
    ASSUME FilesInv, NEW h \in Handles, NEW result \in {"ok", "error"},
           Become(h, Closed(result)), requests' \subseteq requests,
           UNCHANGED <<remote, version, stored>>,
           \A k \in Handles \ {h} : Sent(k)' <=> Sent(k),
           Sent(h)' => result = "error"
    PROVE  FilesInv'
<1>1. PICK g : g = Closed(result)
    OBVIOUS
<1>2. Good(h, g) /\ g.state = result /\ (result = "error" => g.failed)
    BY <1>1, GoodClosed DEF FilesInv
<1>3. /\ RemoteOK' /\ (file \in [Handles -> OpenFileType])' /\ EveryFileGood'
      /\ file'[h] = g
      /\ \A k \in Handles \ {h} : file'[k] = file[k]
    BY <1>1, <1>2, BecomesGood
<1>4. EveryRequestGood'
    BY RequestsStayGood
<1>5. EveryCloseWaits'
    <2> SUFFICES ASSUME NEW k \in Handles PROVE Waiting(k)'
        BY DEF EveryCloseWaits
    <2>1. CASE k = h
        BY <1>2, <1>3, <2>1 DEF Waiting
    <2>2. CASE k # h
        <3>1. Waiting(k) /\ (Sent(k)' <=> Sent(k)) /\ file'[k] = file[k] /\ stored' = stored
            BY <1>3, <2>2 DEF FilesInv, EveryCloseWaits
        <3> QED  BY <3>1 DEF Waiting
    <2> QED  BY <2>1, <2>2
<1> QED  BY <1>3, <1>4, <1>5 DEF FilesInv

LEMMA CloseCleanStep ==
    ASSUME FilesInv, NEW h \in Handles, CloseClean(h)
    PROVE  FilesInv'
<1>1. \A k \in Handles : Sent(k)' <=> Sent(k)
    BY DEF CloseClean, Sent
<1>2. ~Sent(h)
    BY DEF CloseClean, FilesInv, EveryCloseWaits, Waiting
<1> QED  BY <1>1, <1>2, ReturnStep DEF CloseClean

LEMMA CloseReturnsStep ==
    ASSUME FilesInv, NEW h \in Handles, CloseReturns(h)
    PROVE  FilesInv'
<1>1. \A k \in Handles : Sent(k)' <=> Sent(k)
    BY DEF CloseReturns, Sent
<1> QED  BY <1>1, ReturnStep DEF CloseReturns

LEMMA CloseFailsStep ==
    ASSUME FilesInv, NEW h \in Handles, CloseFails(h)
    PROVE  FilesInv'
<1>1. requests' \subseteq requests /\ \A r \in requests : r.by # h => r \in requests'
    BY DEF CloseFails
<1>2. \A k \in Handles \ {h} : Sent(k)' <=> Sent(k)
    BY <1>1 DEF Sent
<1> QED  BY <1>1, <1>2, ReturnStep DEF CloseFails

LEMMA CloseAgainStep ==
    ASSUME FilesInv, NEW h \in Handles, CloseAgain(h)
    PROVE  FilesInv'
<1>1. PICK f \in OpenFileType : file[h] = f /\ Good(h, f)
    BY DEF FilesInv, EveryFileGood
<1>2. PICK g \in OpenFileType : g = [f EXCEPT !.state = "ok"]
    BY DEF OpenFileType
<1>3. Good(h, g) /\ g.state = "ok" /\ g.failed = f.failed
    BY <1>1, <1>2 DEF Good, OpenFileType, HoldsWrites, Agrees
<1>4. Become(h, g)
    BY <1>1, <1>2 DEF CloseAgain
<1>5. UNCHANGED <<remote, version, requests, stored>> /\ f.state \in {"ok", "error"}
    BY <1>1 DEF CloseAgain
<1>6. /\ RemoteOK' /\ (file \in [Handles -> OpenFileType])' /\ EveryFileGood'
      /\ file'[h] = g
      /\ \A k \in Handles \ {h} : file'[k] = file[k]
    BY <1>3, <1>4, <1>5, BecomesGood
<1>7. EveryRequestGood'
    BY <1>5, RequestsStayGood
<1>8. EveryCloseWaits'
    <2> SUFFICES ASSUME NEW k \in Handles PROVE Waiting(k)'
        BY DEF EveryCloseWaits
    <2>1. Waiting(k) /\ (Sent(k)' <=> Sent(k)) /\ stored' = stored
        BY <1>5 DEF FilesInv, EveryCloseWaits, Sent
    <2>2. CASE k = h
        <3>1. Sent(h) => f.failed
            BY <1>1, <1>5, <2>1, <2>2 DEF Waiting
        <3> QED  BY <1>3, <1>6, <2>1, <2>2, <3>1 DEF Waiting
    <2>3. CASE k # h
        BY <1>6, <2>1, <2>3 DEF Waiting
    <2> QED  BY <2>2, <2>3
<1> QED  BY <1>6, <1>7, <1>8 DEF FilesInv

(* The remote has changed: whatever was good is.                           *)
LEMMA OutdatedStep ==
    ASSUME FilesInv, version' = version + 1, RemoteOK', UNCHANGED file,
           requests' \subseteq requests,
           \A h \in Handles : Sent(h) => Sent(h)' \/ h \in stored',
           \A h \in Handles : h \in stored => h \in stored'
    PROVE  FilesInv'
<1>1. EveryFileGood'
    <2> SUFFICES ASSUME NEW h \in Handles
                 PROVE  \E f \in OpenFileType : file'[h] = f /\ Good(h, f)'
        BY DEF EveryFileGood
    <2>1. PICK f \in OpenFileType : file[h] = f /\ Good(h, f)
        BY DEF FilesInv, EveryFileGood
    <2>2. Good(h, f)'
        BY <2>1, GoodOutdated DEF FilesInv
    <2> QED  BY <2>1, <2>2
<1>2. EveryRequestGood'
    <2> SUFFICES ASSUME NEW r \in requests'
                 PROVE  \E h \in Handles, f \in OpenFileType :
                           r = [by |-> h, file |-> f] /\ f.loaded /\ Good(h, f)'
        BY DEF EveryRequestGood
    <2>1. PICK h \in Handles, f \in OpenFileType :
             r = [by |-> h, file |-> f] /\ f.loaded /\ Good(h, f)
        BY DEF FilesInv, EveryRequestGood
    <2>2. Good(h, f)'
        BY <2>1, GoodOutdated DEF FilesInv
    <2> QED  BY <2>1, <2>2
<1>3. EveryCloseWaits'
    <2> SUFFICES ASSUME NEW h \in Handles PROVE Waiting(h)'
        BY DEF EveryCloseWaits
    <2>1. Waiting(h) /\ file'[h] = file[h]
        BY DEF FilesInv, EveryCloseWaits
    <2>2. Sent(h)' => Sent(h)
        BY DEF Sent
    <2> QED  BY <2>1, <2>2 DEF Waiting
<1> QED  BY <1>1, <1>2, <1>3 DEF FilesInv

LEMMA RemoteWritesStep ==
    ASSUME FilesInv, NEW r \in requests, RemoteWrites(r)
    PROVE  FilesInv'
<1>1. PICK h \in Handles, f \in OpenFileType :
         r = [by |-> h, file |-> f] /\ f.loaded /\ Good(h, f)
    BY DEF FilesInv, EveryRequestGood
<1>2. remote' = f.buf /\ stored' = stored \cup {h} /\ r.by = h
    BY <1>1 DEF RemoteWrites
<1>3. f.buf \in Seq(Bytes) /\ Len(f.buf) <= MaxSize /\ version + 1 \in Nat
    BY <1>1 DEF Good, OpenFileType, FilesInv, RemoteOK
<1>4. RemoteOK'
    BY <1>2, <1>3 DEF RemoteOK, RemoteWrites
<1>5. \A k \in Handles : Sent(k) => Sent(k)' \/ k \in stored'
    BY <1>2 DEF Sent, RemoteWrites
<1> QED  BY <1>2, <1>4, <1>5, OutdatedStep DEF RemoteWrites

LEMMA OthersChangeStep ==
    ASSUME FilesInv, OthersChange
    PROVE  FilesInv'
<1>1. version + 1 \in Nat
    BY DEF FilesInv, RemoteOK
<1>2. RemoteOK'
    <2>1. CASE remote' = Absent
        BY <1>1, <2>1 DEF RemoteOK, OthersChange
    <2>2. CASE remote' # Absent
        <3>1. PICK n \in 1 .. MaxSize : remote' = [i \in 1 .. n |-> Other]
            BY <2>2 DEF OthersChange
        <3>2. n \in Nat /\ n <= MaxSize /\ Other \in Bytes
            BY EmptyContent DEF Bytes
        <3>3. remote' \in Seq(Bytes) /\ Len(remote') = n
            BY <3>1, <3>2
        <3> QED  BY <1>1, <3>2, <3>3 DEF RemoteOK, OthersChange
    <2> QED  BY <2>1, <2>2
<1>3. \A h \in Handles : Sent(h) => Sent(h)'
    BY DEF Sent, OthersChange
<1> QED  BY <1>2, <1>3, OutdatedStep DEF OthersChange

LEMMA StutterStep ==
    ASSUME FilesInv, UNCHANGED vars
    PROVE  FilesInv'
<1>1. EveryFileGood'
    <2> SUFFICES ASSUME NEW h \in Handles
                 PROVE  \E f \in OpenFileType : file'[h] = f /\ Good(h, f)'
        BY DEF EveryFileGood
    <2>1. PICK f \in OpenFileType : file[h] = f /\ Good(h, f)
        BY DEF FilesInv, EveryFileGood
    <2>2. Good(h, f)'
        BY <2>1, GoodStays DEF vars
    <2> QED  BY <2>1, <2>2 DEF vars
<1>2. EveryRequestGood'
    BY RequestsStayGood DEF vars
<1>3. EveryCloseWaits'
    BY DEF EveryCloseWaits, Waiting, Sent, FilesInv, vars
<1> QED  BY <1>1, <1>2, <1>3 DEF FilesInv, RemoteOK, vars

Closes(h) ==
    CloseDirty(h) \/ CloseClean(h) \/ CloseReturns(h) \/ CloseFails(h) \/ CloseAgain(h)

-----------------------------------------------------------------------------
(* What a step does to the remote, and what a Close that succeeds means    *)

LEMMA BytesArrive ==
    ASSUME FilesInv, NEW r \in requests, RemoteWrites(r), NEW i \in r.file.wrote
    PROVE  i \in DOMAIN remote' /\ remote'[i] = r.by
<1>1. PICK h \in Handles, f \in OpenFileType :
         r = [by |-> h, file |-> f] /\ f.loaded /\ Good(h, f)
    BY DEF FilesInv, EveryRequestGood
<1>2. remote' = f.buf /\ r.by = h /\ i \in f.wrote
    BY <1>1 DEF RemoteWrites
<1>3. f.buf \in Seq(Bytes) /\ i \in 1 .. Len(f.buf) /\ f.buf[i] = h
    BY <1>1, <1>2 DEF Good, HoldsWrites, OpenFileType
<1> QED  BY <1>2, <1>3

LEMMA OtherBytesStay ==
    ASSUME FilesInv, NEW r \in requests, RemoteWrites(r),
           r.file.base = version, remote # Absent,
           NEW i \in DOMAIN remote \ r.file.touched
    PROVE  i \in DOMAIN remote' /\ remote'[i] = remote[i]
<1>1. PICK h \in Handles, f \in OpenFileType :
         r = [by |-> h, file |-> f] /\ f.loaded /\ Good(h, f)
    BY DEF FilesInv, EveryRequestGood
<1>2. remote' = f.buf /\ f.base = version /\ i \notin f.touched
    BY <1>1 DEF RemoteWrites
<1>3. i \in 1 .. Len(remote)
    BY DEF FilesInv, RemoteOK
<1>4. f.buf \in Seq(Bytes) /\ i \in 1 .. Len(f.buf) /\ f.buf[i] = remote[i]
    BY <1>1, <1>2, <1>3 DEF Good, Agrees, OpenFileType
<1> QED  BY <1>2, <1>4

(* Nothing but a Close that returns without an error makes a file "ok", and *)
(* where a Close has failed before only CloseAgain does.                   *)
LEMMA OthersDoNotSucceed ==
    ASSUME FilesInv, NEW k \in Handles, NEW h \in Handles,
           file'[h].state = "ok", file[h].state # "ok",
           NEW g, g.state # "ok", Become(k, g)
    PROVE  FALSE
BY DEF Become, FilesInv

LEMMA CloseSucceeds ==
    ASSUME FilesInv, NEW k \in Handles, NEW h \in Handles,
           file'[h].state = "ok", file[h].state # "ok",
           ~file'[h].failed, Closes(k)
    PROVE  CloseClean(h) \/ CloseReturns(h)
<1>1. ~CloseDirty(k)
    <2> SUFFICES ASSUME CloseDirty(k) PROVE FALSE
        OBVIOUS
    <2>1. PICK g : g = [file[k] EXCEPT !.state = "flush"]
        OBVIOUS
    <2>2. g.state # "ok"
        BY <2>1 DEF FilesInv, OpenFileType
    <2> QED  BY <2>1, <2>2, OthersDoNotSucceed DEF CloseDirty
<1>2. ~CloseFails(k)
    <2> SUFFICES ASSUME CloseFails(k) PROVE FALSE
        OBVIOUS
    <2>1. Closed("error").state # "ok"
        BY GoodClosed DEF FilesInv
    <2> QED  BY <2>1, OthersDoNotSucceed DEF CloseFails
<1>3. ~CloseAgain(k)
    <2> SUFFICES ASSUME CloseAgain(k) PROVE FALSE
        OBVIOUS
    <2>1. h = k
        BY DEF CloseAgain, Become, FilesInv
    <2>2. PICK f \in OpenFileType : file[h] = f
        BY DEF FilesInv
    <2>3. PICK g : g = [f EXCEPT !.state = "ok"]
        OBVIOUS
    <2>4. g.failed = f.failed
        BY <2>3 DEF OpenFileType
    <2>5. file'[h] = g
        BY <2>1, <2>2, <2>3 DEF CloseAgain, Become, FilesInv
    <2>6. f.state = "error" /\ ~f.failed
        BY <2>1, <2>2, <2>4, <2>5 DEF CloseAgain
    <2> QED  BY <2>2, <2>6 DEF FilesInv, EveryCloseWaits, Waiting
<1>4. CloseClean(k) \/ CloseReturns(k)
    BY <1>1, <1>2, <1>3 DEF Closes
<1>5. h = k
    BY <1>4 DEF CloseClean, CloseReturns, Become, FilesInv
<1> QED  BY <1>4, <1>5

LEMMA SuccessMeansStored ==
    ASSUME FilesInv, NEW h \in Handles, CloseClean(h) \/ CloseReturns(h)
    PROVE  (file[h].wrote # {} => h \in stored) /\ ~Sent(h)
<1>1. CASE CloseClean(h)
    <2>1. PICK f \in OpenFileType : file[h] = f /\ Good(h, f)
        BY DEF FilesInv, EveryFileGood
    <2>2. file[h].wrote = {}
        BY <1>1, <2>1 DEF CloseClean, Good
    <2>3. ~Sent(h)
        BY <1>1 DEF CloseClean, FilesInv, EveryCloseWaits, Waiting
    <2> QED  BY <2>2, <2>3
<1>2. CASE CloseReturns(h)
    BY <1>2 DEF CloseReturns, FilesInv, EveryCloseWaits, Waiting
<1> QED  BY <1>1, <1>2

-----------------------------------------------------------------------------
(* Steps of the mount                                                      *)

(* What Read and the others do to an open file: it stays good.             *)
Operates(h) ==
    /\ file[h].state \in {"none", "open"}
    /\ \E g : Good(h, g) /\ g.state = "open" /\ Become(h, g)
    /\ UNCHANGED <<remote, version, requests, stored>>

FileStep ==
    \/ \E h \in Handles : Operates(h) \/ Closes(h)
    \/ \E r \in requests : RemoteWrites(r)
    \/ OthersChange
    \/ UNCHANGED vars

-----------------------------------------------------------------------------
(* NFSFile                                                                 *)

(* NFSFile works on the buffer of FileBuffer.                              *)
LEMMA NFSBuffer ==
    /\ NFS!Lazy = Lazy
    /\ \A h : NFS!Load(h) = Load(h) /\ NFS!Fresh(h) = Fresh(h)
    /\ \A f, n : NFS!Advanced(f, n) = Advanced(f, n) /\ NFS!Truncated(f, n) = Truncated(f, n)
    /\ \A h, f, n : NFS!Written(h, f, n) = Written(h, f, n)
    /\ \A h, f : NFS!Become(h, f) <=> Become(h, f)
    /\ \A h : NFS!Close(h) => Closes(h)
    /\ \A r : NFS!RemoteWrites(r) <=> RemoteWrites(r)
    /\ NFS!OthersChange <=> OthersChange
<1>1. NFS!Unopened = Unopened
    BY DEF NFS!Unopened, Unopened
<1>2. \A data, n : NFS!Padded(data, n) = Padded(data, n)
    BY DEF NFS!Padded, Padded
<1>3. \A data, n : NFS!Resize(data, n) = Resize(data, n)
    BY <1>2 DEF NFS!Resize, Resize
<1>4. \A data, pos, p : NFS!WriteAt(data, pos, p) = WriteAt(data, pos, p)
    BY <1>2 DEF NFS!WriteAt, WriteAt, NFS!Overwrite, Overwrite
<1>5. NFS!Lazy = Lazy /\ \A h : NFS!Load(h) = Load(h) /\ NFS!Fresh(h) = Fresh(h)
    BY <1>1 DEF NFS!Load, Load, NFS!Fresh, Fresh, NFS!Lazy, Lazy
<1>6. /\ \A f, n : NFS!Advanced(f, n) = Advanced(f, n)
      /\ \A f, n : NFS!Truncated(f, n) = Truncated(f, n)
    BY <1>3 DEF NFS!Advanced, Advanced, NFS!Truncated, Truncated
<1>7. \A h, f, n : NFS!Written(h, f, n) = Written(h, f, n)
    BY <1>4 DEF NFS!Written, Written
<1>8. \A h, f : NFS!Become(h, f) <=> Become(h, f)
    BY DEF NFS!Become, Become
<1>9. NFS!Closed("ok") = Closed("ok") /\ NFS!Closed("error") = Closed("error")
    BY <1>1 DEF NFS!Closed, Closed
<1>10. \A h : NFS!Close(h) => Closes(h)
    <2> TAKE h
    <2>1. NFS!CloseDirty(h) => CloseDirty(h)
        BY <1>8 DEF NFS!CloseDirty, CloseDirty, NFS!Request, Request
    <2>2. NFS!CloseClean(h) => CloseClean(h)
        BY <1>8, <1>9 DEF NFS!CloseClean, CloseClean
    <2>3. NFS!CloseReturns(h) => CloseReturns(h)
        BY <1>8, <1>9 DEF NFS!CloseReturns, CloseReturns, NFS!Sent, Sent
    <2>4. NFS!CloseFails(h) => CloseFails(h)
        BY <1>8, <1>9 DEF NFS!CloseFails, CloseFails
    <2>5. NFS!CloseAgain(h) => CloseAgain(h)
        BY <1>8 DEF NFS!CloseAgain, CloseAgain
    <2> QED  BY <2>1, <2>2, <2>3, <2>4, <2>5 DEF NFS!Close, Closes
<1>11. \A r : NFS!RemoteWrites(r) <=> RemoteWrites(r)
    BY DEF NFS!RemoteWrites, RemoteWrites
<1>12. NFS!OthersChange <=> OthersChange
    BY DEF NFS!OthersChange, OthersChange
<1> QED  BY <1>5, <1>6, <1>7, <1>8, <1>10, <1>11, <1>12

(* Whatever Read and the others do to an open file leaves it good.         *)
LEMMA NFSOperates ==
    ASSUME FilesInv, NEW h \in Handles,
           \/ NFS!Create(h) \/ NFS!OpenFile(h)
           \/ NFS!Read(h) \/ NFS!ReadAt(h) \/ NFS!Write(h) \/ NFS!Seek(h) \/ NFS!Truncate(h)
    PROVE  Operates(h)
<1>1. ASSUME NEW g, file[h].state \in {"none", "open"}, Good(h, g), g.state = "open",
             NFS!Local(h, g)
      PROVE  Operates(h)
    BY <1>1, NFSBuffer DEF NFS!Local, Operates
<1>2. CASE NFS!Create(h)
    BY <1>1, <1>2, GoodFresh, NFSBuffer DEF NFS!Create, FilesInv
<1>3. CASE NFS!OpenFile(h)
    BY <1>1, <1>3, GoodFresh, GoodLazy, NFSBuffer DEF NFS!OpenFile, FilesInv
<1>4. CASE file[h].state = "open" /\ ~NFS!Create(h) /\ ~NFS!OpenFile(h)
    <2>1. PICK f : f = Load(h) /\ Good(h, f) /\ f.loaded /\ f.state = "open"
                   /\ f.pos = file[h].pos
        BY <1>4, LoadedFile
    <2>2. CASE NFS!Read(h)
        <3>1. PICK n \in Lengths : NFS!Local(h, Advanced(f, n))
            BY <2>1, <2>2, NFSBuffer DEF NFS!Read
        <3>2. n \in Nat
            BY FileBufferAssumption
        <3> QED  BY <1>1, <1>4, <2>1, <3>1, <3>2, GoodAdvanced
    <2>3. CASE NFS!ReadAt(h)
        BY <1>1, <1>4, <2>1, <2>3, NFSBuffer DEF NFS!ReadAt
    <2>4. CASE NFS!Write(h)
        <3>1. PICK n \in Lengths : f.pos + n <= MaxSize /\ NFS!Local(h, Written(h, f, n))
            BY <2>1, <2>4, NFSBuffer DEF NFS!Write
        <3>2. n \in Nat
            BY FileBufferAssumption
        <3> QED  BY <1>1, <1>4, <2>1, <3>1, <3>2, GoodWritten
    <2>5. CASE NFS!Seek(h)
        <3>1. PICK n \in 0 .. MaxSize : NFS!Local(h, [f EXCEPT !.pos = n])
            BY <2>1, <2>5, NFSBuffer DEF NFS!Seek
        <3>2. n \in Nat
            BY EmptyContent
        <3>3. PICK g : g = [f EXCEPT !.pos = n]
            OBVIOUS
        <3>4. Good(h, g) /\ g.state = "open"
            BY <2>1, <3>2, <3>3, GoodSeek
        <3>5. NFS!Local(h, g)
            BY <3>1, <3>3
        <3> QED  BY <1>1, <1>4, <3>4, <3>5
    <2>6. CASE NFS!Truncate(h)
        <3>1. PICK n \in 0 .. MaxSize : NFS!Local(h, Truncated(f, n))
            BY <2>1, <2>6, NFSBuffer DEF NFS!Truncate
        <3> QED  BY <1>1, <1>4, <2>1, <3>1, GoodTruncated DEF FilesInv
    <2> QED  BY <1>4, <2>2, <2>3, <2>4, <2>5, <2>6
<1> QED  BY <1>2, <1>3, <1>4 DEF NFS!Read, NFS!ReadAt, NFS!Write, NFS!Seek, NFS!Truncate

LEMMA NFSSteps ==
    ASSUME FilesInv, NFS!Next
    PROVE  FileStep
<1>1. ASSUME NEW h \in Handles, NFS!Close(h)
      PROVE  Closes(h)
    BY <1>1, NFSBuffer
<1>2. ASSUME NEW r \in requests, NFS!RemoteWrites(r)
      PROVE  RemoteWrites(r)
    BY <1>2, NFSBuffer
<1> QED  BY <1>1, <1>2, NFSOperates, NFSBuffer DEF NFS!Next, FileStep

-----------------------------------------------------------------------------
(* DavFile                                                                 *)

(* And so does DavFile.                                                    *)
LEMMA DavBuffer ==
    /\ Dav!Lazy = Lazy
    /\ \A h : Dav!Load(h) = Load(h) /\ Dav!Fresh(h) = Fresh(h)
    /\ \A f, n : Dav!Advanced(f, n) = Advanced(f, n)
    /\ \A h, f, n : Dav!Written(h, f, n) = Written(h, f, n)
    /\ \A h, f : Dav!Become(h, f) <=> Become(h, f)
    /\ \A h : Dav!Close(h) => Closes(h)
    /\ \A r : Dav!RemoteWrites(r) <=> RemoteWrites(r)
    /\ Dav!OthersChange <=> OthersChange
<1>1. Dav!Unopened = Unopened
    BY DEF Dav!Unopened, Unopened
<1>2. \A data, n : Dav!Padded(data, n) = Padded(data, n)
    BY DEF Dav!Padded, Padded
<1>4. \A data, pos, p : Dav!WriteAt(data, pos, p) = WriteAt(data, pos, p)
    BY <1>2 DEF Dav!WriteAt, WriteAt, Dav!Overwrite, Overwrite
<1>5. Dav!Lazy = Lazy /\ \A h : Dav!Load(h) = Load(h) /\ Dav!Fresh(h) = Fresh(h)
    BY <1>1 DEF Dav!Load, Load, Dav!Fresh, Fresh, Dav!Lazy, Lazy
<1>6. \A f, n : Dav!Advanced(f, n) = Advanced(f, n)
    BY DEF Dav!Advanced, Advanced
<1>7. \A h, f, n : Dav!Written(h, f, n) = Written(h, f, n)
    BY <1>4 DEF Dav!Written, Written
<1>8. \A h, f : Dav!Become(h, f) <=> Become(h, f)
    BY DEF Dav!Become, Become
<1>9. Dav!Closed("ok") = Closed("ok") /\ Dav!Closed("error") = Closed("error")
    BY <1>1 DEF Dav!Closed, Closed
<1>10. \A h : Dav!Close(h) => Closes(h)
    <2> TAKE h
    <2>1. Dav!CloseDirty(h) => CloseDirty(h)
        BY <1>8 DEF Dav!CloseDirty, CloseDirty, Dav!Request, Request
    <2>2. Dav!CloseClean(h) => CloseClean(h)
        BY <1>8, <1>9 DEF Dav!CloseClean, CloseClean
    <2>3. Dav!CloseReturns(h) => CloseReturns(h)
        BY <1>8, <1>9 DEF Dav!CloseReturns, CloseReturns, Dav!Sent, Sent
    <2>4. Dav!CloseFails(h) => CloseFails(h)
        BY <1>8, <1>9 DEF Dav!CloseFails, CloseFails
    <2>5. Dav!CloseAgain(h) => CloseAgain(h)
        BY <1>8 DEF Dav!CloseAgain, CloseAgain
    <2> QED  BY <2>1, <2>2, <2>3, <2>4, <2>5 DEF Dav!Close, Closes
<1>11. \A r : Dav!RemoteWrites(r) <=> RemoteWrites(r)
    BY DEF Dav!RemoteWrites, RemoteWrites
<1>12. Dav!OthersChange <=> OthersChange
    BY DEF Dav!OthersChange, OthersChange
<1> QED  BY <1>5, <1>6, <1>7, <1>8, <1>10, <1>11, <1>12

(* A file opened as new is empty, and to be written only if O_TRUNC asks   *)
(* for it.                                                                 *)
LEMMA GoodNew ==
    ASSUME RemoteOK, NEW h \in Handles, NEW b \in BOOLEAN
    PROVE  \E g : /\ g = [Fresh(h) EXCEPT !.dirty = b]
                  /\ Good(h, g) /\ g.state = "open"
<1>1. PICK f : f = Fresh(h)
    OBVIOUS
<1>2. Good(h, f) /\ f.state = "open"
    BY <1>1, GoodFresh
<1>3. f.wrote = {} /\ f.loaded = TRUE
    BY <1>1 DEF Fresh, Unopened
<1>4. PICK g \in OpenFileType : g = [f EXCEPT !.dirty = b]
    BY <1>2 DEF Good, OpenFileType
<1>5. Good(h, g) /\ g.state = "open"
    BY <1>2, <1>3, <1>4 DEF Good, OpenFileType, HoldsWrites, Agrees
<1> QED  BY <1>1, <1>4, <1>5

(* Whatever Read and the others do to an open file leaves it good.         *)
LEMMA DavOperates ==
    ASSUME FilesInv, NEW h \in Handles,
           Dav!OpenFile(h) \/ Dav!Read(h) \/ Dav!ReadAt(h) \/ Dav!Stat(h) \/ Dav!Write(h) \/ Dav!Seek(h)
    PROVE  Operates(h)
<1>1. ASSUME NEW g, file[h].state = "open", Good(h, g), g.state = "open", Dav!Local(h, g)
      PROVE  Operates(h)
    BY <1>1, DavBuffer DEF Dav!Local, Operates
<1>2. ASSUME NEW g, NEW flags, Good(h, g), g.state = "open", Dav!Opens(h, flags, g)
      PROVE  Operates(h)
    BY <1>2, DavBuffer DEF Dav!Opens, Operates
<1>3. CASE Dav!OpenFile(h)
    <2>1. PICK flags : Dav!OpenExisting(h, flags) \/ Dav!OpenNew(h, flags)
        BY <1>3 DEF Dav!OpenFile
    <2>2. CASE Dav!OpenExisting(h, flags)
        BY <1>2, <2>2, GoodLazy, DavBuffer DEF Dav!OpenExisting, FilesInv
    <2>3. CASE Dav!OpenNew(h, flags)
        <3>1. PICK b \in BOOLEAN : b = ("O_TRUNC" \in flags)
            <4>1. ("O_TRUNC" \in flags) \in BOOLEAN
                BY SMT
            <4> QED  BY <4>1, Zenon
        <3>2. PICK g : /\ g = [Fresh(h) EXCEPT !.dirty = b]
                       /\ Good(h, g) /\ g.state = "open"
            BY GoodNew DEF FilesInv
        <3>3. Dav!Opens(h, flags, g)
            BY <2>3, <3>1, <3>2, DavBuffer DEF Dav!OpenNew
        <3> QED  BY <1>2, <3>2, <3>3
    <2> QED  BY <2>1, <2>2, <2>3
<1>4. CASE Dav!Use(h)
    <2>1. file[h].state = "open"
        BY <1>4 DEF Dav!Use
    <2>2. PICK f : f = Load(h) /\ Good(h, f) /\ f.loaded /\ f.state = "open"
                   /\ f.pos = file[h].pos
        BY <2>1, LoadedFile
    <2>3. CASE Dav!Read(h)
        <3>1. PICK n \in Lengths : Dav!Local(h, Advanced(f, n))
            BY <2>2, <2>3, DavBuffer DEF Dav!Read
        <3>2. n \in Nat
            BY FileBufferAssumption
        <3> QED  BY <1>1, <2>1, <2>2, <3>1, <3>2, GoodAdvanced
    <2>4. CASE Dav!ReadAt(h) \/ Dav!Stat(h)
        BY <1>1, <2>1, <2>2, <2>4, DavBuffer DEF Dav!ReadAt, Dav!Stat
    <2>5. CASE Dav!Write(h)
        <3>1. PICK n \in Lengths : f.pos + n <= MaxSize /\ Dav!Local(h, Written(h, f, n))
            BY <2>2, <2>5, DavBuffer DEF Dav!Write
        <3>2. n \in Nat
            BY FileBufferAssumption
        <3> QED  BY <1>1, <2>1, <2>2, <3>1, <3>2, GoodWritten
    <2>6. CASE Dav!Seek(h)
        <3>1. PICK n \in 0 .. MaxSize : Dav!Local(h, [f EXCEPT !.pos = n])
            BY <2>2, <2>6, DavBuffer DEF Dav!Seek
        <3>2. n \in Nat
            BY EmptyContent
        <3>3. PICK g : g = [f EXCEPT !.pos = n]
            OBVIOUS
        <3>4. Good(h, g) /\ g.state = "open"
            BY <2>2, <3>2, <3>3, GoodSeek
        <3>5. Dav!Local(h, g)
            BY <3>1, <3>3
        <3> QED  BY <1>1, <2>1, <3>4, <3>5
    <2> QED  BY <1>3, <2>3, <2>4, <2>5, <2>6
<1> QED  BY <1>3, <1>4 DEF Dav!Read, Dav!ReadAt, Dav!Stat, Dav!Write, Dav!Seek

LEMMA DavSteps ==
    ASSUME FilesInv, Dav!Next
    PROVE  FileStep
<1>1. ASSUME NEW h \in Handles, Dav!Close(h)
      PROVE  Closes(h)
    BY <1>1, DavBuffer
<1>2. ASSUME Dav!Remote
      PROVE  FileStep
    BY <1>2, DavBuffer DEF Dav!Remote, FileStep
<1> QED  BY <1>1, <1>2, DavOperates DEF Dav!Next, FileStep

-----------------------------------------------------------------------------
(* The mount                                                               *)

LEMMA MountSteps == FilesInv /\ [MountNext]_allVars => FileStep
BY NFSSteps, DavSteps DEF MountNext, allVars, FileStep

LEMMA FilesStep == FilesInv /\ [MountNext]_allVars => FilesInv'
<1> SUFFICES ASSUME FilesInv, FileStep PROVE FilesInv'
    BY MountSteps
<1>1. ASSUME NEW h \in Handles, Operates(h)
      PROVE  FilesInv'
    BY <1>1, OperationStep DEF Operates
<1>2. ASSUME NEW h \in Handles, Closes(h)
      PROVE  FilesInv'
    BY <1>2, CloseDirtyStep, CloseCleanStep, CloseReturnsStep, CloseFailsStep,
       CloseAgainStep DEF Closes
<1>3. ASSUME NEW r \in requests, RemoteWrites(r)
      PROVE  FilesInv'
    BY <1>3, RemoteWritesStep
<1>4. CASE OthersChange
    BY <1>4, OthersChangeStep
<1>5. CASE UNCHANGED vars
    BY <1>5, StutterStep
<1> QED  BY <1>1, <1>2, <1>3, <1>4, <1>5 DEF FileStep

(* The inductive invariant of the open files: what FilesInv says of their  *)
(* buffers, of the contents on their way to the remote and of those that   *)
(* wait in Close (nfs/file.go, webdav/filesystem.go).                      *)
THEOREM FilesInvariant == MountSpec => []FilesInv
<1>1. Dav!Init => Init
    BY DEF Dav!Init, Init, Dav!Unopened, Unopened
<1>2. MountInit => FilesInv
    BY <1>1, FilesInit DEF MountInit, Dav!DavInit
<1> QED  BY <1>2, FilesStep, PTL DEF MountSpec

(* A Close that succeeds where none has failed is the first.               *)
LEMMA SucceedsByClose ==
    ASSUME FilesInv, FileStep, NEW h \in Handles,
           file'[h].state = "ok", file[h].state # "ok", ~file'[h].failed
    PROVE  CloseClean(h) \/ CloseReturns(h)
<1>1. file' # file
    OBVIOUS
<1>2. PICK k \in Handles : Operates(k) \/ Closes(k)
    BY <1>1 DEF FileStep, OthersChange, RemoteWrites, vars
<1>3. ~Operates(k)
    BY OthersDoNotSucceed DEF Operates
<1> QED  BY <1>2, <1>3, CloseSucceeds

(* Every byte that Write put into a file, and that no Truncate cut off, is *)
(* where it was written when Close has the remote take the content         *)
(* (nfs/file.go, webdav/filesystem.go: Write, Truncate, Close).                                      *)
THEOREM WrittenBytesArriveHolds == MountSpec => WrittenBytesArrive
<1>1. FilesInv => \A r \in requests : RemoteWrites(r) =>
          \A i \in r.file.wrote : i \in DOMAIN remote' /\ remote'[i] = r.by
    BY BytesArrive
<1> QED  BY <1>1, FilesInvariant, PTL DEF WrittenBytesArrive

(* Writing a whole file back changes no byte but those the open file was   *)
(* told to change, if the remote still has the version that was loaded     *)
(* (nfs/file.go, webdav/filesystem.go: load, Write, Truncate, Close).                                *)
THEOREM OnlyOwnBytesChangeHolds == MountSpec => OnlyOwnBytesChange
<1>1. FilesInv => \A r \in requests :
          (RemoteWrites(r) /\ r.file.base = version /\ remote # Absent)
              => \A i \in DOMAIN remote \ r.file.touched :
                    i \in DOMAIN remote' /\ remote'[i] = remote[i]
    BY OtherBytesStay
<1> QED  BY <1>1, FilesInvariant, PTL DEF OnlyOwnBytesChange

(* A Close that reports success, where none has reported an error before,  *)
(* reports that the remote has taken all that was written, and leaves no   *)
(* request behind (nfs/file.go, webdav/filesystem.go: Close).              *)
THEOREM SuccessIsFinalHolds == MountSpec => SuccessIsFinal
<1>1. FilesInv /\ [MountNext]_allVars =>
          \A h \in Handles :
              (/\ file'[h].state = "ok" /\ file[h].state # "ok"
               /\ ~file'[h].failed)
                  => /\ file[h].wrote # {} => h \in stored
                     /\ ~Sent(h)
    <2> SUFFICES ASSUME FilesInv, [MountNext]_allVars, NEW h \in Handles,
                        file'[h].state = "ok", file[h].state # "ok", ~file'[h].failed
                 PROVE  (file[h].wrote # {} => h \in stored) /\ ~Sent(h)
        OBVIOUS
    <2>1. CloseClean(h) \/ CloseReturns(h)
        BY MountSteps, SucceedsByClose
    <2> QED  BY <2>1, SuccessMeansStored
<1> QED  BY <1>1, FilesInvariant, PTL DEF SuccessIsFinal, MountSpec
=============================================================================
