---------------------------- MODULE LfsStoreProofs ----------------------------
(***************************************************************************)
(* Proofs about LfsStore: for any number of uploads and downloads, objects *)
(* of any length and any number of restarts.                               *)
(*                                                                         *)
(* The inductive invariant has four parts: the types; which file each path *)
(* and each upload can name (PathsInv); what holds while attempts do not   *)
(* overlap (SoloInv); and, for overlapping ones, that each place of a file *)
(* that a path names is right already or still owed by an upload that has  *)
(* the file open (OwedInv).                                                *)
(***************************************************************************)
EXTENDS LfsStore, TLAPS, SequenceTheorems

USE LfsAssumption

(***************************************************************************)
(* Contents are sequences of at most Size chunks, and every such sequence  *)
(* is one.                                                                 *)
(***************************************************************************)
LEMMA ContentIsSeq ==
  ASSUME NEW c \in Content
  PROVE  /\ c \in Seq(Chunk) /\ Len(c) \in 0 .. Size /\ DOMAIN c = 1 .. Len(c)
         /\ \A i \in 1 .. Len(c) : c[i] \in Chunk
<1>1. PICK n \in 0 .. Size : c \in [1 .. n -> Chunk]
  BY DEF Content
<1>2. n \in Nat /\ c \in Seq(Chunk)
  <2>1. n \in Nat
    OBVIOUS
  <2>2. Seq(Chunk) = UNION {[1 .. m -> Chunk] : m \in Nat}
    BY SeqDef, Zenon
  <2> QED
    BY <1>1, <2>1, <2>2, Zenon
<1>3. Len(c) = n
  <2>1. DOMAIN c = 1 .. n
    BY <1>1
  <2>2. Len(c) \in Nat /\ DOMAIN c = 1 .. Len(c)
    BY <1>2, LenProperties, Zenon
  <2> QED
    BY <1>2, <2>1, <2>2
<1> QED
  BY <1>1, <1>2, <1>3

LEMMA SeqIsContent ==
  ASSUME NEW c \in Seq(Chunk), Len(c) <= Size
  PROVE  c \in Content
<1>1. Len(c) \in 0 .. Size /\ c \in [1 .. Len(c) -> Chunk]
  BY LenProperties
<1> QED
  BY <1>1 DEF Content

LEMMA EmptyIsContent == <<>> \in Content
<1>1. <<>> \in Seq(Chunk) /\ Len(<<>>) = 0
  BY EmptySeq
<1>2. Len(<<>>) <= Size
  BY <1>1
<1> HIDE DEF Content
<1> QED
  BY <1>1, <1>2, SeqIsContent

LEMMA BodyIsContent == Body \in Content /\ Len(Body) = Size
<1>1. Body \in [1 .. Size -> Chunk]
  BY DEF Body, Chunk
<1>2. Body \in Content
  BY <1>1 DEF Content
<1>3. Body \in Seq(Chunk) /\ DOMAIN Body = 1 .. Size
  BY <1>1, SeqDef
<1> QED
  BY <1>2, <1>3, LenProperties

LEMMA AllRightIsBody ==
  ASSUME NEW c \in Content, \A i \in 1 .. Size : i <= Len(c) /\ c[i] = "right"
  PROVE  c = Body
<1>1. Len(c) = Size /\ DOMAIN c = 1 .. Size
  BY ContentIsSeq
<1>2. c = [i \in 1 .. Size |-> c[i]]
  BY <1>1, ContentIsSeq
<1> QED
  BY <1>2 DEF Body

(***************************************************************************)
(* What the two ways of adding a chunk return; a write at the end of a     *)
(* file appends.                                                           *)
(***************************************************************************)
LEMMA AppendContent ==
  ASSUME NEW c \in Content, Len(c) < Size, NEW x \in Chunk
  PROVE  /\ Append(c, x) \in Content /\ Len(Append(c, x)) = Len(c) + 1
         /\ \A i \in 1 .. Len(c) : Append(c, x)[i] = c[i]
         /\ Append(c, x)[Len(c) + 1] = x
<1>1. c \in Seq(Chunk) /\ Len(c) \in Nat
  BY ContentIsSeq
<1>2. Append(c, x) \in Seq(Chunk) /\ Len(Append(c, x)) = Len(c) + 1
  BY <1>1, AppendProperties
<1>3. \A i \in 1 .. Len(c) : Append(c, x)[i] = c[i]
  BY <1>1, AppendProperties
<1>4. Append(c, x)[Len(c) + 1] = x
  BY <1>1, AppendProperties
<1>5. Append(c, x) \in Content
  <2> HIDE DEF Content
  <2>1. Len(Append(c, x)) <= Size
    BY <1>1, <1>2
  <2> QED
    BY <1>2, <2>1, SeqIsContent
<1> QED
  BY <1>2, <1>3, <1>4, <1>5

LEMMA PutAtContent ==
  ASSUME NEW c \in Content, NEW i \in 1 .. Size, NEW x \in Chunk
  PROVE  /\ PutAt(c, i, x) \in Content
         /\ Len(PutAt(c, i, x)) = IF i > Len(c) THEN i ELSE Len(c)
         /\ PutAt(c, i, x)[i] = x
         /\ \A j \in 1 .. Len(c) : j # i => PutAt(c, i, x)[j] = c[j]
<1> DEFINE m == IF i > Len(c) THEN i ELSE Len(c)
<1>1. m \in 0 .. Size /\ i \in 1 .. m /\ Len(c) <= m /\ Len(c) \in Nat
  BY ContentIsSeq
<1>2. PutAt(c, i, x) \in [1 .. m -> Chunk]
  BY <1>1, ContentIsSeq DEF PutAt, Chunk
<1>3. PutAt(c, i, x) \in Content
  BY <1>1, <1>2 DEF Content
<1>4. Len(PutAt(c, i, x)) = m
  BY <1>1, <1>2, <1>3, ContentIsSeq
<1>5. PutAt(c, i, x)[i] = x /\ \A j \in 1 .. Len(c) : j # i => PutAt(c, i, x)[j] = c[j]
  BY <1>1 DEF PutAt
<1> QED
  BY <1>3, <1>4, <1>5

LEMMA PutAtEndAppends ==
  ASSUME NEW c \in Content, Len(c) < Size, NEW x \in Chunk
  PROVE  PutAt(c, Len(c) + 1, x) = Append(c, x)
<1> DEFINE i == Len(c) + 1
           p == PutAt(c, i, x)
           q == Append(c, x)
<1>1. i \in 1 .. Size /\ Len(c) \in Nat
  BY ContentIsSeq
<1>2. p \in Content /\ Len(p) = i /\ p[i] = x /\ \A j \in 1 .. Len(c) : p[j] = c[j]
  BY <1>1, PutAtContent
<1>3. q \in Content /\ Len(q) = i /\ q[i] = x /\ \A j \in 1 .. Len(c) : q[j] = c[j]
  BY AppendContent
<1>4. p \in Seq(Chunk) /\ q \in Seq(Chunk)
  BY <1>2, <1>3, ContentIsSeq
<1>5. \A j \in 1 .. i : p[j] = q[j]
  BY <1>1, <1>2, <1>3
<1> HIDE DEF p, q, i
<1>6. p = q
  BY <1>2, <1>3, <1>4, <1>5, SeqEqual
<1> QED
  BY <1>6 DEF p, q, i
-----------------------------------------------------------------------------
(***************************************************************************)
(* An upload that has not opened a file yet: nothing names the file it     *)
(* would create.                                                           *)
(***************************************************************************)
Opening == {"idle", "mkdir", "scrub", "open"}
Holding == {"stream", "replace"}

Unopened ==
  \A u \in Upload : up[u].pc \in Opening =>
    /\ target # u /\ tmp # u
    /\ \A v \in Upload : up[v].fd # u
    /\ up[u].sent = <<>>

(***************************************************************************)
(* The two paths never name one file, a leftover never reaches the final   *)
(* path, and while the temporary path names one nobody has got beyond      *)
(* scrubbing.                                                              *)
(***************************************************************************)
Paths ==
  /\ tmp # None => tmp # target
  /\ target # Stale
  /\ tmp = Stale => \A u \in Upload :
       up[u].pc \in {"idle", "mkdir", "scrub", "refused", "failed"}

(***************************************************************************)
(* What an upload knows: the file it writes was created by an upload, its  *)
(* body has passed the check, a stored object is there.                    *)
(***************************************************************************)
Held ==
  \A u \in Upload :
    /\ up[u].pc \in Holding => up[u].fd \in Upload
    /\ up[u].pc = "replace" => up[u].sent = Body
    /\ up[u].pc = "stored" => target # None

Reading == \A d \in Download : down[d].pc = "reading" => target # None /\ down[d].fd # None

PathsInv == Unopened /\ Paths /\ Held /\ Reading

-----------------------------------------------------------------------------
(***************************************************************************)
(* Type correctness, with what opening and writing a file do.              *)
(***************************************************************************)
LEMMA TypeInit == Init => TypeOK
<1> SUFFICES ASSUME Init
             PROVE  TypeOK
  OBVIOUS
<1> DEFINE none == <<>>
<1>1. none \in Content
  BY EmptyIsContent
<1>2. /\ file = [f \in File |-> none]
      /\ up = [u \in Upload |-> [pc |-> "idle", fd |-> None, sent |-> none]]
      /\ down = [d \in Download |-> [pc |-> "idle", fd |-> None, got |-> none]]
  BY DEF Init
<1> HIDE DEF none
<1>3. file \in [File -> Content]
  BY <1>1, <1>2
<1>4. target \in File \cup {None} /\ tmp \in File \cup {None}
  BY DEF Init, File
<1>5. up \in [Upload ->
               [pc : {"idle", "mkdir", "scrub", "open", "stream", "replace", "stored",
                      "refused", "collided", "failed"},
                fd : File \cup {None}, sent : Content]]
  BY <1>1, <1>2
<1>6. down \in [Download ->
                 [pc : {"idle", "reading", "done", "missing"}, fd : File \cup {None},
                  got : Content]]
  BY <1>1, <1>2
<1>7. overlapped \in BOOLEAN
  BY DEF Init
<1>8. crashes \in 0 .. MaxCrashes
  BY DEF Init
<1> QED
  BY <1>3, <1>4, <1>5, <1>6, <1>7, <1>8 DEF TypeOK

(***************************************************************************)
(* What one upload and one download keep.                                  *)
(***************************************************************************)
UploadRecord == [pc : {"idle", "mkdir", "scrub", "open", "stream", "replace", "stored",
                       "refused", "collided", "failed"},
                 fd : File \cup {None}, sent : Content]

DownloadRecord == [pc : {"idle", "reading", "done", "missing"}, fd : File \cup {None},
                   got : Content]

LEMMA OpenFacts ==
  ASSUME TypeOK, NEW u \in Upload, Open(u)
  PROVE  /\ tmp' = IF tmp = None THEN u ELSE tmp
         /\ tmp' \in File
         /\ file' = [file EXCEPT ![tmp'] = <<>>]
         /\ file' \in [File -> Content]
         /\ up' = [up EXCEPT ![u].pc = "stream", ![u].fd = tmp']
<1>1. tmp' = IF tmp = None THEN u ELSE tmp
  BY DEF Open
<1>2. tmp' \in File
  BY <1>1 DEF TypeOK, File
<1>3. file' = [file EXCEPT ![tmp'] = <<>>] /\ up' = [up EXCEPT ![u].pc = "stream", ![u].fd = tmp']
  BY <1>1 DEF Open
<1>4. file' \in [File -> Content]
  BY <1>2, <1>3, EmptyIsContent DEF TypeOK
<1> QED
  BY <1>1, <1>2, <1>3, <1>4

LEMMA OpenedTypeOK ==
  ASSUME TypeOK, NEW u \in Upload, Open(u), UNCHANGED <<target, down, crashes, overlapped>>
  PROVE  TypeOK'
<1>1. /\ tmp' \in File /\ file' \in [File -> Content]
      /\ up' = [up EXCEPT ![u].pc = "stream", ![u].fd = tmp']
  BY OpenFacts
<1> DEFINE opened == [up[u] EXCEPT !.pc = "stream", !.fd = tmp']
<1>2. up \in [Upload -> UploadRecord]
  BY DEF TypeOK, UploadRecord
<1>3. opened \in UploadRecord
  BY <1>1, <1>2 DEF UploadRecord
<1>4. up' = [up EXCEPT ![u] = opened]
  BY <1>1, <1>2
<1> HIDE DEF opened
<1>5. up' \in [Upload -> UploadRecord]
  BY <1>2, <1>3, <1>4
<1> QED
  BY <1>1, <1>5 DEF TypeOK, UploadRecord

LEMMA WriteFacts ==
  ASSUME TypeOK, NEW u \in Upload, NEW c \in {"right", "wrong"}, Write(u, c),
         up[u].fd \in File
  PROVE  /\ Len(up[u].sent) + 1 \in 1 .. Size
         /\ file' = [file EXCEPT ![up[u].fd] = PutAt(@, Len(up[u].sent) + 1, c)]
         /\ file' \in [File -> Content]
         /\ up' = [up EXCEPT ![u].sent = Append(@, c)]
         /\ Append(up[u].sent, c) \in Content
<1>1. up[u].sent \in Content /\ Len(up[u].sent) < Size /\ c \in Chunk
  BY DEF TypeOK, Write, Chunk
<1>2. Len(up[u].sent) + 1 \in 1 .. Size
  BY <1>1, ContentIsSeq
<1>3. Append(up[u].sent, c) \in Content
  BY <1>1, AppendContent
<1>4. file[up[u].fd] \in Content
  BY DEF TypeOK
<1>5. PutAt(file[up[u].fd], Len(up[u].sent) + 1, c) \in Content
  BY <1>1, <1>2, <1>4, PutAtContent
<1>6. /\ file' = [file EXCEPT ![up[u].fd] = PutAt(@, Len(up[u].sent) + 1, c)]
      /\ up' = [up EXCEPT ![u].sent = Append(@, c)]
  BY DEF Write
<1>7. file' \in [File -> Content]
  BY <1>5, <1>6 DEF TypeOK
<1> QED
  BY <1>2, <1>3, <1>6, <1>7

LEMMA TypeStep ==
  ASSUME TypeOK, PathsInv, [Next]_vars
  PROVE  TypeOK'
<1>1. ASSUME NEW u \in Upload, Begin(u)
      PROVE  TypeOK'
  BY <1>1 DEF TypeOK, Begin, Goto, At
<1>2. ASSUME NEW u \in Upload, Prepare(u)
      PROVE  TypeOK'
  <2>1. CASE tmp = None
    <3>1. Open(u)
      BY <1>2, <2>1 DEF Prepare
    <3> QED
      BY <1>2, <3>1, OpenedTypeOK DEF Prepare
  <2>2. CASE tmp # None
    BY <1>2, <2>2 DEF TypeOK, Prepare, Goto
  <2> QED
    BY <2>1, <2>2
<1>3. ASSUME NEW u \in Upload, Scrub(u)
      PROVE  TypeOK'
  BY <1>3 DEF TypeOK, Scrub, Goto
<1>4. ASSUME NEW u \in Upload, OpenScrubbed(u)
      PROVE  TypeOK'
  <2>1. Open(u)
    BY <1>4 DEF OpenScrubbed
  <2> QED
    BY <1>4, <2>1, OpenedTypeOK DEF OpenScrubbed
<1>5. ASSUME NEW u \in Upload, NEW c \in {"right", "wrong"}, Write(u, c)
      PROVE  TypeOK'
  <2>1. up[u].fd \in File
    BY <1>5 DEF PathsInv, Held, Holding, Write, At, File
  <2>2. /\ file' \in [File -> Content]
        /\ up' = [up EXCEPT ![u].sent = Append(@, c)] /\ Append(up[u].sent, c) \in Content
    BY <1>5, <2>1, WriteFacts
  <2>3. UNCHANGED <<target, tmp, down, crashes, overlapped>>
    BY <1>5 DEF Write
  <2> DEFINE longer == [up[u] EXCEPT !.sent = Append(up[u].sent, c)]
  <2>4. up \in [Upload -> UploadRecord]
    BY DEF TypeOK, UploadRecord
  <2>5. longer \in UploadRecord
    BY <2>2, <2>4 DEF UploadRecord
  <2>6. up' = [up EXCEPT ![u] = longer]
    BY <2>2, <2>4
  <2> HIDE DEF longer
  <2>7. up' \in [Upload -> UploadRecord]
    BY <2>4, <2>5, <2>6
  <2> QED
    BY <2>2, <2>3, <2>7 DEF TypeOK, UploadRecord
<1>6. ASSUME NEW u \in Upload, StreamFails(u)
      PROVE  TypeOK'
  BY <1>6 DEF TypeOK, StreamFails, Goto
<1>7. ASSUME NEW u \in Upload, Verify(u)
      PROVE  TypeOK'
  BY <1>7 DEF TypeOK, Verify, Goto
<1>8. ASSUME NEW u \in Upload, Replace(u)
      PROVE  TypeOK'
  BY <1>8 DEF TypeOK, Replace, Goto
<1>9. ASSUME NEW d \in Download, Find(d)
      PROVE  TypeOK'
  <2> DEFINE pc == IF target = None THEN "missing" ELSE "reading"
             found == [down[d] EXCEPT !.pc = pc, !.fd = target]
  <2>1. down \in [Download -> DownloadRecord] /\ target \in File \cup {None}
        /\ pc \in {"idle", "reading", "done", "missing"}
    BY DEF TypeOK, DownloadRecord
  <2>2. down' = [down EXCEPT ![d] = found]
    BY <1>9, <2>1 DEF Find
  <2>3. found \in DownloadRecord
    BY <2>1 DEF DownloadRecord
  <2> HIDE DEF found
  <2>4. down' \in [Download -> DownloadRecord]
    BY <2>1, <2>2, <2>3
  <2>5. UNCHANGED <<file, target, tmp, up, crashes, overlapped>>
    BY <1>9 DEF Find
  <2> QED
    BY <2>4, <2>5 DEF TypeOK, DownloadRecord
<1>10. ASSUME NEW d \in Download, Read(d)
       PROVE  TypeOK'
  <2> DEFINE content == file[down[d].fd]
             next == Len(down[d].got) + 1
  <2>1. down[d].fd \in File
    BY <1>10 DEF TypeOK, PathsInv, Reading, Read
  <2>2. content \in Content /\ down[d].got \in Content
    BY <2>1 DEF TypeOK
  <2> HIDE DEF content
  <2>3. next <= Len(content) => Append(down[d].got, content[next]) \in Content
    <3>1. Len(content) \in 0 .. Size /\ Len(down[d].got) \in Nat
      BY <2>2, ContentIsSeq
    <3>2. next <= Len(content) => content[next] \in Chunk
      BY <2>2, <3>1, ContentIsSeq
    <3> QED
      BY <2>2, <3>1, <3>2, AppendContent
  <2>4. down' = IF next > Len(content)
                  THEN [down EXCEPT ![d].pc = "done"]
                  ELSE [down EXCEPT ![d].got = Append(@, content[next])]
    BY <1>10 DEF Read, content
  <2>5. Len(content) \in Nat /\ next \in Nat
    BY <2>2, ContentIsSeq
  <2>6. UNCHANGED <<file, target, tmp, up, crashes, overlapped>>
    BY <1>10 DEF Read
  <2>7. CASE next > Len(content)
    <3> DEFINE read == [down[d] EXCEPT !.pc = "done"]
    <3>1. down' = [down EXCEPT ![d] = read] /\ down \in [Download -> DownloadRecord]
      BY <2>4, <2>7 DEF TypeOK, DownloadRecord
    <3>2. read \in DownloadRecord
      BY <3>1 DEF DownloadRecord
    <3> HIDE DEF read
    <3>3. down' \in [Download -> DownloadRecord]
      BY <3>1, <3>2
    <3> QED
      BY <2>6, <3>3 DEF TypeOK, DownloadRecord
  <2>8. CASE next <= Len(content)
    <3> DEFINE more == Append(down[d].got, content[next])
    <3> DEFINE read == [down[d] EXCEPT !.got = more]
    <3>1. more \in Content /\ down \in [Download -> DownloadRecord]
      BY <2>3, <2>8 DEF TypeOK, DownloadRecord
    <3>2. down' = [down EXCEPT ![d] = read]
      BY <2>4, <2>5, <2>8, <3>1
    <3> HIDE DEF more
    <3>3. read \in DownloadRecord
      BY <3>1 DEF DownloadRecord
    <3> HIDE DEF read
    <3>4. down' \in [Download -> DownloadRecord]
      BY <3>1, <3>2, <3>3
    <3> QED
      BY <2>6, <3>4 DEF TypeOK, DownloadRecord
  <2> HIDE DEF content, next
  <2> QED
    BY <2>5, <2>7, <2>8
<1>11. CASE Crash
  <2>1. /\ up \in [Upload -> UploadRecord] /\ down \in [Download -> DownloadRecord]
        /\ crashes \in 0 .. MaxCrashes /\ MaxCrashes \in Nat
    BY LfsAssumption DEF TypeOK, UploadRecord, DownloadRecord
  <2>2. up' \in [Upload -> UploadRecord]
    BY <1>11, <2>1 DEF Crash, UploadRecord
  <2>3. down' \in [Download -> DownloadRecord]
    BY <1>11, <2>1 DEF Crash, DownloadRecord
  <2>4. crashes' \in 0 .. MaxCrashes /\ UNCHANGED <<file, target, tmp, overlapped>>
    BY <1>11, <2>1 DEF Crash
  <2> QED
    BY <2>2, <2>3, <2>4 DEF TypeOK, UploadRecord, DownloadRecord
<1>12. CASE UNCHANGED vars
  BY <1>12 DEF TypeOK, vars
<1> QED
  BY <1>1, <1>2, <1>3, <1>4, <1>5, <1>6, <1>7, <1>8, <1>9, <1>10, <1>11, <1>12
     DEF Next

(***************************************************************************)
(* PathsInv holds initially and every step preserves it.                   *)
(***************************************************************************)
LEMMA PathsInit == Init => PathsInv
<1> SUFFICES ASSUME Init
             PROVE  PathsInv
  OBVIOUS
<1> DEFINE none == <<>>
<1>1. /\ up = [u \in Upload |-> [pc |-> "idle", fd |-> None, sent |-> none]]
      /\ down = [d \in Download |-> [pc |-> "idle", fd |-> None, got |-> none]]
      /\ target = None /\ tmp \in {None, Stale}
  BY DEF Init
<1> HIDE DEF none
<1>2. Paths /\ Held /\ Reading
  BY <1>1 DEF Paths, Held, Holding, Reading, File
<1>3. \A u \in Upload : /\ target # u /\ tmp # u
                        /\ \A v \in Upload : up[v].fd # u
                        /\ up[u].sent = none
  BY <1>1 DEF File
<1>4. Unopened
  BY <1>3 DEF Unopened, none
<1> QED
  BY <1>2, <1>4 DEF PathsInv

LEMMA OpenedPaths ==
  ASSUME TypeOK, PathsInv, NEW u \in Upload, Open(u), UNCHANGED <<target, down>>,
         up[u].pc \in Opening, tmp # Stale
  PROVE  PathsInv'
<1>1. /\ tmp' = IF tmp = None THEN u ELSE tmp
      /\ up' = [up EXCEPT ![u].pc = "stream", ![u].fd = tmp']
  BY OpenFacts
<1>2. tmp' \in Upload
  BY <1>1 DEF TypeOK, File
<1>3. Unopened'
  BY <1>1 DEF TypeOK, PathsInv, Unopened, Opening
<1>4. Paths'
  BY <1>1, <1>2 DEF TypeOK, PathsInv, Unopened, Paths, Opening, File
<1>5. Held'
  BY <1>1, <1>2 DEF TypeOK, PathsInv, Held, Holding
<1>6. Reading'
  BY DEF PathsInv, Reading
<1> QED
  BY <1>3, <1>4, <1>5, <1>6 DEF PathsInv

LEMMA PathsStep ==
  ASSUME TypeOK, PathsInv, [Next]_vars
  PROVE  PathsInv'
<1>13. ASSUME NEW u \in Upload, At(u, "open")
      PROVE  tmp # Stale
  BY <1>13 DEF PathsInv, Paths, At
<1>2. ASSUME NEW u \in Upload, Prepare(u)
      PROVE  PathsInv'
  <2>1. CASE tmp = None
    <3>1. Open(u) /\ UNCHANGED <<target, down>> /\ up[u].pc \in Opening
      BY <1>2, <2>1 DEF Prepare, At, Opening
    <3>2. tmp # Stale
      BY <2>1 DEF File
    <3> QED
      BY <3>1, <3>2, OpenedPaths
  <2>2. CASE tmp # None
    <3>1. up' = [up EXCEPT ![u].pc = "scrub"] /\ up[u].pc = "mkdir"
      BY <1>2, <2>2 DEF Prepare, Goto, At
    <3>2. UNCHANGED <<target, tmp, down>>
      BY <1>2, <2>2 DEF Prepare
    <3> QED
      BY <3>1, <3>2 DEF TypeOK, PathsInv, Unopened, Paths, Held, Reading, Opening, Holding
  <2> QED
    BY <2>1, <2>2
<1>4. ASSUME NEW u \in Upload, OpenScrubbed(u)
      PROVE  PathsInv'
  <2>1. Open(u) /\ UNCHANGED <<target, down>> /\ up[u].pc \in Opening /\ tmp # Stale
    BY <1>4, <1>13 DEF OpenScrubbed, At, Opening
  <2> QED
    BY <2>1, OpenedPaths
<1> USE DEF TypeOK, PathsInv, Unopened, Paths, Held, Reading, Opening, Holding, File
<1>1. ASSUME NEW u \in Upload, Begin(u)
      PROVE  PathsInv'
  BY <1>1 DEF Begin, Goto, At
<1>3. ASSUME NEW u \in Upload, Scrub(u)
      PROVE  PathsInv'
  BY <1>3 DEF Scrub, Goto, At
<1>5. ASSUME NEW u \in Upload, NEW c \in {"right", "wrong"}, Write(u, c)
      PROVE  PathsInv'
  BY <1>5 DEF Write, At
<1>6. ASSUME NEW u \in Upload, StreamFails(u)
      PROVE  PathsInv'
  BY <1>6 DEF StreamFails, Goto, At
<1>7. ASSUME NEW u \in Upload, Verify(u)
      PROVE  PathsInv'
  BY <1>7 DEF Verify, Goto, At
<1>8. ASSUME NEW u \in Upload, Replace(u)
      PROVE  PathsInv'
  <2>1. up[u].pc = "replace" /\ tmp' = None /\ down' = down
    BY <1>8 DEF Replace, At
  <2>2. CASE tmp = None
    <3>1. up' = [up EXCEPT ![u].pc = "collided"] /\ target' = target
      BY <1>8, <2>2 DEF Replace, Goto
    <3> QED
      BY <2>1, <3>1
  <2>3. CASE tmp # None
    <3>1. up' = [up EXCEPT ![u].pc = "stored"] /\ target' = tmp
      BY <1>8, <2>3 DEF Replace, Goto
    <3>2. tmp # Stale
      BY <2>1
    <3> QED
      BY <2>1, <2>3, <3>1, <3>2
  <2> QED
    BY <2>2, <2>3
<1>9. ASSUME NEW d \in Download, Find(d)
      PROVE  PathsInv'
  BY <1>9 DEF Find
<1>10. ASSUME NEW d \in Download, Read(d)
       PROVE  PathsInv'
  BY <1>10 DEF Read
<1>11. CASE Crash
  BY <1>11 DEF Crash, InFlight
<1>12. CASE UNCHANGED vars
  BY <1>12 DEF vars
<1> HIDE DEF TypeOK, PathsInv, Unopened, Paths, Held, Reading, Opening, Holding, File
<1> QED
  BY <1>1, <1>2, <1>3, <1>4, <1>5, <1>6, <1>7, <1>8, <1>9, <1>10, <1>11, <1>12
     DEF Next
-----------------------------------------------------------------------------
(***************************************************************************)
(* As long as no upload begins while another is in flight: there is at     *)
(* most one in flight, and only before the object exists; the file at the  *)
(* temporary path is the one it has open and holds what it has sent        *)
(* (Mirrored); and a download reads the file at the final path (Received). *)
(***************************************************************************)
Alone ==
  /\ \A u, v \in InFlight : u = v
  /\ InFlight # {} => target = None

Mirrored == \A u \in Upload :
  up[u].pc \in Holding => tmp = up[u].fd /\ file[tmp] = up[u].sent

RightUpTo(c) == \A i \in 1 .. Len(c) : c[i] = "right"

Received ==
  \A d \in Download :
    /\ down[d].pc \in {"idle", "reading"} => RightUpTo(down[d].got)
    /\ down[d].pc = "reading" => down[d].fd = target
    /\ down[d].pc = "done" => down[d].got = Body

SoloInv == ~overlapped => Alone /\ Mirrored /\ SafeToShare /\ Received

LEMMA BodyIsRight == \A i \in 1 .. Size : Body[i] = "right"
<1> QED
  BY DEF Body

LEMMA SoloInit == Init => SoloInv
<1> SUFFICES ASSUME Init
             PROVE  SoloInv
  OBVIOUS
<1> DEFINE none == <<>>
<1>1. /\ up = [u \in Upload |-> [pc |-> "idle", fd |-> None, sent |-> none]]
      /\ down = [d \in Download |-> [pc |-> "idle", fd |-> None, got |-> none]]
      /\ target = None
  BY DEF Init
<1>2. RightUpTo(none)
  <2>1. Len(none) = 0
    BY EmptySeq
  <2> QED
    BY <2>1 DEF RightUpTo
<1> HIDE DEF none
<1> QED
  BY <1>1, <1>2 DEF SoloInv, Alone, Mirrored, SafeToShare, Received, InFlight, Holding

LEMMA OpenedSolo ==
  ASSUME TypeOK, PathsInv, Alone, Mirrored, SafeToShare, Received,
         NEW u \in Upload, up[u].pc \in Opening \ {"idle"}, Open(u), UNCHANGED <<target, down>>
  PROVE  Alone' /\ Mirrored' /\ SafeToShare' /\ Received'
<1>1. u \in InFlight /\ target = None
  BY DEF InFlight, Opening, Alone
<1>2. /\ tmp' \in File
      /\ file' = [file EXCEPT ![tmp'] = <<>>]
      /\ up' = [up EXCEPT ![u].pc = "stream", ![u].fd = tmp']
  BY OpenFacts
<1>3. \A v \in Upload \ {u} : up'[v] = up[v] /\ v \notin InFlight
  BY <1>1, <1>2 DEF TypeOK, Alone
<1>4. up'[u].sent = <<>> /\ up'[u].fd = tmp'
  BY <1>2 DEF TypeOK, PathsInv, Unopened
<1>5. file'[tmp'] = <<>>
  BY <1>2 DEF TypeOK
<1>6. InFlight' \subseteq {u}
  BY <1>3 DEF InFlight
<1>7. Alone'
  BY <1>1, <1>6 DEF Alone
<1>8. Mirrored'
  BY <1>3, <1>4, <1>5 DEF Mirrored, Holding, InFlight
<1>9. SafeToShare' /\ Received'
  BY <1>1 DEF SafeToShare, Received
<1> QED
  BY <1>7, <1>8, <1>9

LEMMA SoloStep ==
  ASSUME TypeOK, PathsInv, SoloInv, [Next]_vars
  PROVE  SoloInv'
<1> SUFFICES ASSUME ~overlapped'
             PROVE  Alone' /\ Mirrored' /\ SafeToShare' /\ Received'
  BY DEF SoloInv
<1> DEFINE Solo == Alone /\ Mirrored /\ SafeToShare /\ Received
<1>13. ~overlapped
  BY DEF Next, vars, Begin, Prepare, Scrub, OpenScrubbed, Write, StreamFails, Verify, Replace,
         Find, Read, Crash
<1>14. Alone /\ Mirrored /\ SafeToShare /\ Received
  BY <1>13 DEF SoloInv
<1>1. ASSUME NEW u \in Upload, Begin(u)
      PROVE  Solo'
  <2>1. InFlight = {}
    BY <1>1 DEF Begin
  <2>2. /\ up[u].pc = "idle"
        /\ up' = [up EXCEPT ![u].pc = IF target = None THEN "mkdir" ELSE "refused"]
        /\ UNCHANGED <<file, target, tmp, down>>
    BY <1>1 DEF Begin, At, Goto
  <2>3. Alone'
    BY <2>1, <2>2 DEF Alone, InFlight, TypeOK
  <2>4. Mirrored'
    BY <2>2, <1>14 DEF Mirrored, Holding, TypeOK
  <2>5. SafeToShare' /\ Received'
    BY <2>2, <1>14 DEF SafeToShare, Whole, Received
  <2> QED
    BY <2>3, <2>4, <2>5
<1>2. ASSUME NEW u \in Upload, Prepare(u)
      PROVE  Solo'
  <2>1. CASE tmp = None
    <3>1. Open(u) /\ UNCHANGED <<target, down>> /\ up[u].pc \in Opening \ {"idle"}
      BY <1>2, <2>1 DEF Prepare, At, Opening
    <3> QED
      BY <3>1, <1>14, OpenedSolo
  <2>2. CASE tmp # None
    <3>1. up' = [up EXCEPT ![u].pc = "scrub"] /\ up[u].pc = "mkdir"
      BY <1>2, <2>2 DEF Prepare, Goto, At
    <3>2. UNCHANGED <<file, target, tmp, down>>
      BY <1>2, <2>2 DEF Prepare
    <3>3. Alone'
      BY <3>1, <3>2, <1>14 DEF Alone, InFlight, TypeOK
    <3>4. Mirrored'
      BY <3>1, <3>2, <1>14 DEF Mirrored, Holding, TypeOK
    <3>5. SafeToShare' /\ Received'
      BY <3>2, <1>14 DEF SafeToShare, Whole, Received
    <3> QED
      BY <3>3, <3>4, <3>5
  <2> QED
    BY <2>1, <2>2
<1>3. ASSUME NEW u \in Upload, Scrub(u)
      PROVE  Solo'
  <2>1. /\ up[u].pc = "scrub" /\ up' = [up EXCEPT ![u].pc = "open"]
        /\ UNCHANGED <<file, target, down>>
    BY <1>3 DEF Scrub, At, Goto
  <2>2. Alone'
    BY <2>1, <1>14 DEF Alone, InFlight, TypeOK
  <2>3. \A v \in Upload : up'[v].pc \notin Holding
    BY <2>1, <1>14 DEF Alone, InFlight, TypeOK, Holding
  <2>4. Mirrored'
    BY <2>3 DEF Mirrored
  <2>5. SafeToShare' /\ Received'
    BY <2>1, <1>14 DEF SafeToShare, Whole, Received
  <2> QED
    BY <2>2, <2>4, <2>5
<1>4. ASSUME NEW u \in Upload, OpenScrubbed(u)
      PROVE  Solo'
  <2>1. Open(u) /\ UNCHANGED <<target, down>> /\ up[u].pc \in Opening \ {"idle"}
    BY <1>4 DEF OpenScrubbed, At, Opening
  <2> QED
    BY <2>1, <1>14, OpenedSolo
<1>5. ASSUME NEW u \in Upload, NEW c \in {"right", "wrong"}, Write(u, c)
      PROVE  Solo'
  <2>1. up[u].pc = "stream" /\ UNCHANGED <<target, tmp, down>>
    BY <1>5 DEF Write, At
  <2>2. u \in InFlight /\ target = None
    BY <2>1, <1>14 DEF InFlight, Alone
  <2>3. up[u].fd = tmp /\ tmp \in File /\ file[tmp] = up[u].sent
    BY <2>1, <1>14 DEF Mirrored, Holding, PathsInv, Held, File
  <2>4. /\ file' = [file EXCEPT ![up[u].fd] = PutAt(@, Len(up[u].sent) + 1, c)]
        /\ up' = [up EXCEPT ![u].sent = Append(@, c)]
    BY <1>5, <2>3, WriteFacts
  <2>5. /\ PutAt(up[u].sent, Len(up[u].sent) + 1, c) = Append(up[u].sent, c)
    BY <1>5, PutAtEndAppends DEF Write, TypeOK, Chunk
  <2>6. file'[tmp] = Append(up[u].sent, c)
    BY <2>3, <2>4, <2>5 DEF TypeOK
  <2>7. up'[u].sent = Append(up[u].sent, c) /\ up'[u].fd = tmp
    BY <2>3, <2>4 DEF TypeOK
  <2>8. \A v \in Upload : v # u => up'[v].pc \notin Holding
    BY <2>2, <2>4, <1>14 DEF Alone, InFlight, TypeOK, Holding
  <2>9. Mirrored'
    BY <2>1, <2>6, <2>7, <2>8 DEF Mirrored
  <2>10. Alone'
    BY <2>1, <2>4, <1>14 DEF Alone, InFlight, TypeOK
  <2>11. SafeToShare' /\ Received'
    BY <2>1, <2>2, <1>14 DEF SafeToShare, Received
  <2> QED
    BY <2>9, <2>10, <2>11
<1>15. ASSUME NEW u \in Upload, up[u].pc = "stream", up' = [up EXCEPT ![u].pc = "failed"],
              UNCHANGED <<file, target, down>>
       PROVE  Solo'
  <2>1. Alone'
    BY <1>15, <1>14 DEF Alone, InFlight, TypeOK
  <2>2. \A v \in Upload : up'[v].pc \notin Holding
    BY <1>15, <1>14 DEF Alone, InFlight, TypeOK, Holding
  <2>3. SafeToShare' /\ Received'
    BY <1>15, <1>14 DEF SafeToShare, Whole, Received
  <2> QED
    BY <2>1, <2>2, <2>3 DEF Mirrored
<1>6. ASSUME NEW u \in Upload, StreamFails(u)
      PROVE  Solo'
  BY <1>6, <1>15 DEF StreamFails, At, Goto
<1>7. ASSUME NEW u \in Upload, Verify(u)
      PROVE  Solo'
  <2>1. CASE up[u].sent = Body
    <3>1. /\ up[u].pc = "stream" /\ up' = [up EXCEPT ![u].pc = "replace"]
          /\ UNCHANGED <<file, target, tmp, down>>
      BY <1>7, <2>1 DEF Verify, At, Goto
    <3>2. Alone'
      BY <3>1, <1>14 DEF Alone, InFlight, TypeOK
    <3>3. Mirrored'
      BY <3>1, <1>14 DEF Mirrored, Holding, TypeOK
    <3>4. SafeToShare' /\ Received'
      BY <3>1, <1>14 DEF SafeToShare, Whole, Received
    <3> QED
      BY <3>2, <3>3, <3>4
  <2>2. CASE up[u].sent # Body
    BY <1>7, <2>2, <1>15 DEF Verify, At, Goto
  <2> QED
    BY <2>1, <2>2
<1>8. ASSUME NEW u \in Upload, Replace(u)
      PROVE  Solo'
  <2>1. up[u].pc = "replace" /\ UNCHANGED <<file, down>>
    BY <1>8 DEF Replace, At
  <2>2. u \in InFlight /\ target = None
    BY <2>1, <1>14 DEF InFlight, Alone
  <2>3. tmp = up[u].fd /\ tmp \in Upload /\ tmp # None /\ file[tmp] = Body
    BY <2>1, <1>14 DEF Mirrored, PathsInv, Held, Holding, File
  <2>4. target' = tmp /\ up' = [up EXCEPT ![u].pc = "stored"]
    BY <1>8, <2>3 DEF Replace, Goto
  <2>5. InFlight' = {}
    BY <2>2, <2>4, <1>14 DEF Alone, InFlight, TypeOK
  <2>6. Alone' /\ Mirrored'
    BY <2>5 DEF Alone, Mirrored, InFlight, Holding
  <2>7. SafeToShare'
    BY <2>1, <2>3, <2>4 DEF SafeToShare, Whole
  <2>8. Received'
    BY <2>1, <2>2, <1>14 DEF Received, PathsInv, Reading
  <2> QED
    BY <2>6, <2>7, <2>8
<1>9. ASSUME NEW d \in Download, Find(d)
      PROVE  Solo'
  <2>1. UNCHANGED <<file, target, tmp, up>>
    BY <1>9 DEF Find
  <2>2. Alone' /\ Mirrored' /\ SafeToShare'
    BY <2>1, <1>14 DEF Alone, InFlight, Mirrored, SafeToShare, Whole
  <2>3. /\ down[d].pc = "idle"
        /\ down' = [down EXCEPT ![d].pc = IF target = None THEN "missing" ELSE "reading",
                                ![d].fd = target]
    BY <1>9 DEF Find
  <2>4. \A e \in Download :
          /\ down'[e].got = down[e].got
          /\ e # d => down'[e] = down[e]
          /\ down'[d].pc \in {"reading", "missing"} /\ down'[d].fd = target
    BY <2>3 DEF TypeOK
  <2>5. Received'
    <3> SUFFICES ASSUME NEW e \in Download
                 PROVE  /\ down'[e].pc \in {"idle", "reading"} => RightUpTo(down'[e].got)
                        /\ down'[e].pc = "reading" => down'[e].fd = target
                        /\ down'[e].pc = "done" => down'[e].got = Body
      BY <2>1 DEF Received
    <3>1. /\ down[e].pc \in {"idle", "reading"} => RightUpTo(down[e].got)
          /\ down[e].pc = "reading" => down[e].fd = target
          /\ down[e].pc = "done" => down[e].got = Body
      BY <1>14 DEF Received
    <3>2. CASE e = d
      BY <2>3, <2>4, <3>1, <3>2
    <3>3. CASE e # d
      BY <2>4, <3>1, <3>3
    <3> QED
      BY <3>2, <3>3
  <2> QED
    BY <2>2, <2>5
<1>10. ASSUME NEW d \in Download, Read(d)
       PROVE  Solo'
  <2> DEFINE got == down[d].got
             next == Len(got) + 1
  <2>1. UNCHANGED <<file, target, tmp, up>> /\ down[d].pc = "reading"
    BY <1>10 DEF Read
  <2>2. Alone' /\ Mirrored' /\ SafeToShare'
    BY <2>1, <1>14 DEF Alone, InFlight, Mirrored, SafeToShare, Whole
  <2>3. file[down[d].fd] = Body /\ RightUpTo(got)
    BY <2>1, <1>14 DEF SafeToShare, Whole, Received, PathsInv, Reading
  <2>4. got \in Content /\ Len(got) \in 0 .. Size /\ Len(Body) = Size
    BY ContentIsSeq, BodyIsContent DEF TypeOK
  <2>5. down' = IF next > Len(Body) THEN [down EXCEPT ![d].pc = "done"]
                                    ELSE [down EXCEPT ![d].got = Append(got, Body[next])]
    <3>1. down' = IF Len(down[d].got) + 1 > Len(Body)
                    THEN [down EXCEPT ![d].pc = "done"]
                    ELSE [down EXCEPT ![d].got = Append(@, Body[Len(down[d].got) + 1])]
      BY <1>10, <2>3 DEF Read
    <3> QED
      BY <3>1
  <2>6. CASE next > Size
    <3>1. got = Body
      BY <2>3, <2>4, <2>6, AllRightIsBody DEF RightUpTo
    <3>2. down' = [down EXCEPT ![d].pc = "done"]
      BY <2>4, <2>5, <2>6
    <3> HIDE DEF next
    <3>3. Received'
      BY <2>1, <3>1, <3>2, <1>14 DEF Received, TypeOK
    <3> QED
      BY <2>2, <3>3
  <2>7. CASE next <= Size
    <3> DEFINE more == Append(got, Body[next])
    <3>1. Body[next] = "right"
      BY <2>4, <2>7, BodyIsRight
    <3>2. RightUpTo(more)
      BY <2>3, <2>4, <2>7, <3>1, AppendContent DEF RightUpTo, Chunk
    <3>3. down' = [down EXCEPT ![d].got = more]
      BY <2>4, <2>5, <2>7
    <3> HIDE DEF more, got
    <3>4. Received'
      BY <2>1, <3>2, <3>3, <1>14 DEF Received, TypeOK
    <3> QED
      BY <2>2, <3>4
  <2> QED
    BY <2>4, <2>6, <2>7
<1>11. CASE Crash
  <2>1. UNCHANGED <<file, target, tmp>>
    BY <1>11 DEF Crash
  <2>2. \A v \in Upload : up'[v].pc \notin {"mkdir", "scrub", "open", "stream", "replace"}
    BY <1>11 DEF Crash, InFlight, TypeOK
  <2>3. InFlight' = {}
    BY <2>2 DEF InFlight
  <2>4. Alone' /\ Mirrored' /\ SafeToShare'
    BY <2>1, <2>2, <2>3, <1>14 DEF Alone, Mirrored, Holding, SafeToShare, Whole
  <2>5. \A d \in Download : down'[d] = IF down[d].pc = "reading"
                                         THEN [down[d] EXCEPT !.pc = "missing"] ELSE down[d]
    BY <1>11 DEF Crash
  <2>6. Received'
    BY <2>1, <2>5, <1>14 DEF Received, TypeOK
  <2> QED
    BY <2>4, <2>6
<1>12. CASE UNCHANGED vars
  BY <1>12, <1>14 DEF vars, Alone, InFlight, Mirrored, SafeToShare, Whole, Received
<1> QED
  BY <1>1, <1>2, <1>3, <1>4, <1>5, <1>6, <1>7, <1>8, <1>9, <1>10, <1>11, <1>12
     DEF Next
-----------------------------------------------------------------------------
(***************************************************************************)
(* Overlapping uploads.  A place of a file is right, or an upload that     *)
(* streams to the file owes it: it has yet to write there, or it has sent  *)
(* a wrong chunk, so that its check is going to fail.                      *)
(***************************************************************************)
Right(f, i) == i <= Len(file[f]) /\ file[f][i] = "right"

Owes(u, f, i) ==
  /\ up[u].pc = "stream" /\ up[u].fd = f
  /\ \/ Len(up[u].sent) < i
     \/ \E j \in 1 .. Len(up[u].sent) : up[u].sent[j] = "wrong"

Covered(f) == \A i \in 1 .. Size : Right(f, i) \/ \E u \in Upload : Owes(u, f, i)

NoneFailed == \A u \in Upload : up[u].pc # "failed"

OwedInv == NoneFailed => \A f \in Upload : f \in {target, tmp} => Covered(f)

(***************************************************************************)
(* An upload that passes its check owes nothing, so it may stop writing.   *)
(***************************************************************************)
LEMMA BodyOwesNothing ==
  ASSUME NEW u \in Upload, NEW f, NEW i \in 1 .. Size, up[u].sent = Body
  PROVE  ~Owes(u, f, i)
<1>1. Len(Body) = Size /\ \A j \in 1 .. Size : Body[j] = "right"
  BY BodyIsContent, BodyIsRight
<1> HIDE DEF Body
<1> QED
  BY <1>1 DEF Owes

(***************************************************************************)
(* Steps that write to no file and end no stream but by a failure or a     *)
(* passed check.                                                           *)
(***************************************************************************)
LEMMA OwedKept ==
  ASSUME OwedInv, file' = file,
         \A f \in Upload : f \in {target', tmp'} => f \in {target, tmp},
         \A v \in Upload : up[v].pc = "failed" => up'[v].pc = "failed",
         \A v \in Upload : up[v].pc = "stream" =>
           up'[v] = up[v] \/ up'[v].pc = "failed" \/ up[v].sent = Body
  PROVE  OwedInv'
<1> SUFFICES ASSUME NoneFailed', NEW f \in Upload, f \in {target', tmp'}, NEW i \in 1 .. Size
             PROVE  Right(f, i)' \/ \E u \in Upload : Owes(u, f, i)'
  BY DEF OwedInv, Covered
<1>1. NoneFailed /\ f \in {target, tmp}
  BY DEF NoneFailed
<1>2. Right(f, i) \/ \E u \in Upload : Owes(u, f, i)
  BY <1>1 DEF OwedInv, Covered
<1>3. CASE Right(f, i)
  BY <1>3 DEF Right
<1>4. ASSUME NEW u \in Upload, Owes(u, f, i)
      PROVE  Owes(u, f, i)'
  <2>1. up[u].pc = "stream" /\ up[u].sent # Body
    BY <1>4, BodyOwesNothing DEF Owes
  <2>2. up'[u] = up[u]
    BY <2>1 DEF NoneFailed
  <2> QED
    BY <1>4, <2>2 DEF Owes
<1> QED
  BY <1>2, <1>3, <1>4

LEMMA OwedInit == Init => OwedInv
<1> QED
  BY DEF Init, OwedInv, File

(***************************************************************************)
(* Truncating a file makes the upload that opened it owe every place of    *)
(* it.                                                                     *)
(***************************************************************************)
LEMMA OpenedOwed ==
  ASSUME TypeOK, PathsInv, OwedInv, NEW u \in Upload, up[u].pc \in Opening, Open(u),
         target' = target
  PROVE  OwedInv'
<1> SUFFICES ASSUME NoneFailed', NEW f \in Upload, f \in {target', tmp'}, NEW i \in 1 .. Size
             PROVE  Right(f, i)' \/ \E v \in Upload : Owes(v, f, i)'
  BY DEF OwedInv, Covered
<1>1. /\ tmp' \in File
      /\ tmp' = IF tmp = None THEN u ELSE tmp
      /\ file' = [file EXCEPT ![tmp'] = <<>>]
      /\ up' = [up EXCEPT ![u].pc = "stream", ![u].fd = tmp']
  BY OpenFacts
<1>2. up[u].sent = <<>> /\ target # u
  BY DEF PathsInv, Unopened
<1>3. up'[u].pc = "stream" /\ up'[u].fd = tmp' /\ up'[u].sent = <<>>
  BY <1>1, <1>2 DEF TypeOK
<1>4. CASE f = tmp'
  <2>1. Len(up'[u].sent) < i
    BY <1>3, EmptySeq
  <2> QED
    BY <1>3, <1>4, <2>1 DEF Owes
<1>5. CASE f # tmp'
  <2>1. f = target /\ file'[f] = file[f]
    BY <1>1, <1>5 DEF TypeOK, File
  <2>2. NoneFailed
    <3>1. \A v \in Upload : v # u => up'[v] = up[v]
      BY <1>1 DEF TypeOK
    <3> QED
      BY <3>1 DEF NoneFailed, Opening
  <2>3. Right(f, i) \/ \E v \in Upload : Owes(v, f, i)
    BY <2>1, <2>2 DEF OwedInv, Covered
  <2>4. CASE Right(f, i)
    BY <2>1, <2>4 DEF Right
  <2>5. ASSUME NEW v \in Upload, Owes(v, f, i)
        PROVE  Owes(v, f, i)'
    <3>1. v # u
      BY <2>5 DEF Owes, Opening
    <3>2. up'[v] = up[v]
      BY <1>1, <3>1 DEF TypeOK
    <3> QED
      BY <2>5, <3>2 DEF Owes
  <2> QED
    BY <2>3, <2>4, <2>5
<1> QED
  BY <1>4, <1>5

(***************************************************************************)
(* A write settles the place it fills, or dooms the upload by a wrong      *)
(* chunk.                                                                  *)
(***************************************************************************)
LEMMA WrittenOwed ==
  ASSUME TypeOK, PathsInv, OwedInv, NEW u \in Upload, NEW c \in {"right", "wrong"},
         Write(u, c)
  PROVE  OwedInv'
<1> SUFFICES ASSUME NoneFailed', NEW f \in Upload, f \in {target', tmp'}, NEW i \in 1 .. Size
             PROVE  Right(f, i)' \/ \E v \in Upload : Owes(v, f, i)'
  BY DEF OwedInv, Covered
<1> DEFINE sent == up[u].sent
           k == Len(sent) + 1
           g == up[u].fd
<1>1. up[u].pc = "stream" /\ g \in Upload /\ UNCHANGED <<target, tmp>>
  BY DEF Write, At, PathsInv, Held, Holding
<1>2. /\ k \in 1 .. Size
      /\ file' = [file EXCEPT ![g] = PutAt(@, k, c)]
      /\ up' = [up EXCEPT ![u].sent = Append(@, c)]
  BY <1>1, WriteFacts DEF File
<1>3. /\ \A v \in Upload : v # u => up'[v] = up[v]
      /\ up'[u].pc = "stream" /\ up'[u].fd = g /\ up'[u].sent = Append(sent, c)
  BY <1>1, <1>2 DEF TypeOK
<1>4. NoneFailed /\ f \in {target, tmp}
  BY <1>1, <1>3 DEF NoneFailed
<1>5. Right(f, i) \/ \E v \in Upload : Owes(v, f, i)
  BY <1>4 DEF OwedInv, Covered
<1>6. ASSUME NEW v \in Upload, v # u, Owes(v, f, i)
      PROVE  Owes(v, f, i)'
  BY <1>3, <1>6 DEF Owes
<1>7. CASE f # g
  <2>1. file'[f] = file[f]
    BY <1>2, <1>7 DEF TypeOK, File
  <2>2. ~Owes(u, f, i)
    BY <1>7 DEF Owes
  <2>3. Right(f, i) => Right(f, i)'
    BY <2>1 DEF Right
  <2> QED
    BY <1>5, <1>6, <2>2, <2>3
<1>8. CASE f = g
  <2>1. /\ sent \in Content /\ Len(sent) \in Nat /\ Len(sent) < Size /\ c \in Chunk
        /\ file[g] \in Content /\ Len(file[g]) \in Nat
    BY <1>1, ContentIsSeq DEF TypeOK, File, Write, Chunk
  <2>2. /\ Len(Append(sent, c)) = k
        /\ \A j \in 1 .. Len(sent) : Append(sent, c)[j] = sent[j]
        /\ Append(sent, c)[k] = c
    BY <2>1, AppendContent
  <2>3. file'[f] = PutAt(file[g], k, c)
    BY <1>1, <1>2, <1>8 DEF TypeOK, File
  <2>4. /\ Len(file'[f]) = IF k > Len(file[g]) THEN k ELSE Len(file[g])
        /\ file'[f][k] = c
        /\ \A j \in 1 .. Len(file[g]) : j # k => file'[f][j] = file[g][j]
    <3> DEFINE b == file[g]
               p == PutAt(b, k, c)
    <3>1. b \in Content /\ k \in 1 .. Size /\ c \in Chunk
      BY <1>2, <2>1
    <3> HIDE DEF b, k
    <3>2. /\ Len(p) = IF k > Len(b) THEN k ELSE Len(b)
          /\ p[k] = c
          /\ \A j \in 1 .. Len(b) : j # k => p[j] = b[j]
      BY <3>1, PutAtContent
    <3>3. file'[f] = p
      BY <2>3 DEF b
    <3> QED
      BY <3>2, <3>3 DEF b
  <2> HIDE DEF sent, k, g
  <2>5. CASE c = "wrong"
    <3>1. up'[u].sent[k] = "wrong" /\ k \in 1 .. Len(up'[u].sent)
      BY <1>2, <1>3, <2>2, <2>5
    <3> QED
      BY <1>3, <1>8, <3>1 DEF Owes
  <2>6. CASE c = "right" /\ i = k
    BY <1>2, <2>1, <2>4, <2>6 DEF Right
  <2>7. CASE i # k
    <3>1. Right(f, i) => Right(f, i)'
      BY <1>2, <1>8, <2>1, <2>4, <2>7 DEF Right
    <3>2. Owes(u, f, i) => Owes(u, f, i)'
      BY <1>2, <1>3, <1>8, <2>1, <2>2, <2>7 DEF Owes, sent, k
    <3> QED
      BY <1>5, <1>6, <3>1, <3>2
  <2> QED
    BY <2>5, <2>6, <2>7
<1> QED
  BY <1>7, <1>8

LEMMA OwedStep ==
  ASSUME TypeOK, PathsInv, OwedInv, [Next]_vars
  PROVE  OwedInv'
<1>13. ASSUME NEW u \in Upload, NEW pc, up' = [up EXCEPT ![u].pc = pc],
              up[u].pc # "failed",
              up[u].pc = "stream" => pc = "failed" \/ up[u].sent = Body,
              file' = file,
              \A f \in Upload : f \in {target', tmp'} => f \in {target, tmp}
       PROVE  OwedInv'
  <2>1. /\ \A v \in Upload : v # u => up'[v] = up[v]
        /\ up'[u].pc = pc
    BY <1>13 DEF TypeOK
  <2>2. \A v \in Upload : up[v].pc = "failed" => up'[v].pc = "failed"
    BY <1>13, <2>1
  <2>3. \A v \in Upload : up[v].pc = "stream" =>
          up'[v] = up[v] \/ up'[v].pc = "failed" \/ up[v].sent = Body
    BY <1>13, <2>1
  <2> QED
    BY <1>13, <2>2, <2>3, OwedKept
<1>1. ASSUME NEW u \in Upload, Begin(u)
      PROVE  OwedInv'
  BY <1>1, <1>13 DEF Begin, Goto, At
<1>2. ASSUME NEW u \in Upload, Prepare(u)
      PROVE  OwedInv'
  <2>1. CASE tmp = None
    <3>1. Open(u) /\ target' = target /\ up[u].pc \in Opening
      BY <1>2, <2>1 DEF Prepare, At, Opening
    <3> QED
      BY <3>1, OpenedOwed
  <2>2. CASE tmp # None
    BY <1>2, <2>2, <1>13 DEF Prepare, Goto, At
  <2> QED
    BY <2>1, <2>2
<1>3. ASSUME NEW u \in Upload, Scrub(u)
      PROVE  OwedInv'
  BY <1>3, <1>13 DEF Scrub, Goto, At, File
<1>4. ASSUME NEW u \in Upload, OpenScrubbed(u)
      PROVE  OwedInv'
  <2>1. Open(u) /\ target' = target /\ up[u].pc \in Opening
    BY <1>4 DEF OpenScrubbed, At, Opening
  <2> QED
    BY <2>1, OpenedOwed
<1>5. ASSUME NEW u \in Upload, NEW c \in {"right", "wrong"}, Write(u, c)
      PROVE  OwedInv'
  BY <1>5, WrittenOwed
<1>6. ASSUME NEW u \in Upload, StreamFails(u)
      PROVE  OwedInv'
  BY <1>6, <1>13 DEF StreamFails, Goto, At, File
<1>7. ASSUME NEW u \in Upload, Verify(u)
      PROVE  OwedInv'
  <2>1. CASE up[u].sent = Body
    BY <1>7, <2>1, <1>13 DEF Verify, Goto, At
  <2>2. CASE up[u].sent # Body
    BY <1>7, <2>2, <1>13 DEF Verify, Goto, At, File
  <2> QED
    BY <2>1, <2>2
<1>8. ASSUME NEW u \in Upload, Replace(u)
      PROVE  OwedInv'
  <2>1. up[u].pc = "replace" /\ file' = file
    BY <1>8 DEF Replace, At
  <2>2. \E pc \in {"collided", "stored"} : up' = [up EXCEPT ![u].pc = pc]
    BY <1>8 DEF Replace, Goto
  <2>3. \A f \in Upload : f \in {target', tmp'} => f \in {target, tmp}
    BY <1>8 DEF Replace, File
  <2> QED
    BY <2>1, <2>2, <2>3, <1>13
<1>9. ASSUME UNCHANGED <<file, target, tmp, up>>
      PROVE  OwedInv'
  BY <1>9, OwedKept
<1>10. CASE Crash
  <2>1. UNCHANGED <<file, target, tmp>>
    BY <1>10 DEF Crash
  <2>2. \A v \in Upload : up'[v] = IF v \in InFlight THEN [up[v] EXCEPT !.pc = "failed"]
                                                     ELSE up[v]
    BY <1>10 DEF Crash
  <2>3. \A v \in Upload : up'[v] = up[v] \/ up'[v].pc = "failed"
    BY <2>2 DEF TypeOK
  <2> QED
    BY <2>1, <2>3, OwedKept
<1>11. ASSUME NEW d \in Download, Find(d) \/ Read(d)
       PROVE  OwedInv'
  BY <1>11, <1>9 DEF Find, Read
<1>12. CASE UNCHANGED vars
  BY <1>12, <1>9 DEF vars
<1> QED
  BY <1>1, <1>2, <1>3, <1>4, <1>5, <1>6, <1>7, <1>8, <1>10, <1>11, <1>12 DEF Next
-----------------------------------------------------------------------------
(***************************************************************************)
(* The inductive invariant.                                                *)
(***************************************************************************)
IInv == TypeOK /\ PathsInv /\ SoloInv /\ OwedInv

LEMMA InitIInv == Init => IInv
<1> QED
  BY TypeInit, PathsInit, SoloInit, OwedInit DEF IInv

LEMMA StepIInv == IInv /\ [Next]_vars => IInv'
<1> QED
  BY TypeStep, PathsStep, SoloStep, OwedStep DEF IInv

LEMMA SpecIInv == Spec => []IInv
<1> QED
  BY InitIInv, StepIInv, PTL DEF Spec

(***************************************************************************)
(* Every variable of the store keeps its type: no file outgrows the        *)
(* object.                                                                 *)
(***************************************************************************)
THEOREM TypeCorrect == Spec => []TypeOK
<1>1. IInv => TypeOK
  BY DEF IInv
<1> QED
  BY <1>1, SpecIInv, PTL

(***************************************************************************)
(* base.py promises a backend that is safe to share: as long as each       *)
(* upload begins after the attempt before it has ended, failed or died     *)
(* with the process, the final path only ever names the complete object    *)
(* with the right digest.                                                  *)
(***************************************************************************)
THEOREM ObjectsAreAlwaysWhole == Spec => []ObjectsAreWhole
<1>1. IInv => ObjectsAreWhole
  BY DEF IInv, SoloInv, ObjectsAreWhole
<1> QED
  BY <1>1, SpecIInv, PTL

(***************************************************************************)
(* Under the same condition, a download that reaches the end of its file   *)
(* has received exactly the object, whatever uploads ended, failed,        *)
(* restarted or crashed while it was reading.                              *)
(***************************************************************************)
THEOREM DownloadsAreAlwaysWhole == Spec => []DownloadsAreWhole
<1>1. IInv => DownloadsAreWhole
  BY DEF IInv, SoloInv, Received, DownloadsAreWhole
<1> QED
  BY <1>1, SpecIInv, PTL

(***************************************************************************)
(* However uploads overlap: once all of them have ended and none failed    *)
(* while its body was streamed or checked, the object at the final path is *)
(* whole.                                                                  *)
(***************************************************************************)
THEOREM AlwaysWholeOnceQuiet == Spec => []WholeOnceQuiet
<1>1. ASSUME IInv
      PROVE  WholeOnceQuiet
  <2> SUFFICES ASSUME \A u \in Upload : up[u].pc \in {"idle", "refused", "stored", "collided"},
                      target # None
               PROVE  Whole(target)
    BY DEF WholeOnceQuiet
  <2>1. target \in Upload
    BY <1>1 DEF IInv, TypeOK, PathsInv, Paths, File
  <2>2. NoneFailed /\ \A u \in Upload : up[u].pc # "stream"
    BY DEF NoneFailed
  <2>3. \A i \in 1 .. Size : Right(target, i)
    BY <1>1, <2>1, <2>2 DEF IInv, OwedInv, Covered, Owes
  <2>4. file[target] \in Content
    BY <1>1, <2>1 DEF IInv, TypeOK, File
  <2>5. file[target] = Body
    BY <2>3, <2>4, AllRightIsBody DEF Right
  <2> QED
    BY <2>5 DEF Whole
<1> QED
  BY <1>1, SpecIInv, PTL

(***************************************************************************)
(* An upload that is answered with success has left an object at the final *)
(* path, whoever else moved or unlinked the shared temporary file.         *)
(***************************************************************************)
THEOREM StoredAlwaysMeansPresent == Spec => []StoredMeansPresent
<1>1. IInv => StoredMeansPresent
  BY DEF IInv, PathsInv, Held, StoredMeansPresent, At
<1> QED
  BY <1>1, SpecIInv, PTL
=============================================================================
